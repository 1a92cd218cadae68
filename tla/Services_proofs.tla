--------------------------- MODULE Services_proofs ---------------------------
(***************************************************************************)
(* What the services keep for any number of processes, clients and         *)
(* commands, any bounds on failures and crashes: the configuration file,   *)
(* the issued keys, the published runs of the arena and their index, the   *)
(* plugins, the interactive program, the distances of the fetcher's grants *)
(* and the evidence of its circuit breaker, the overspending of the shared *)
(* token buckets, the windows of the limiters in each process, what a      *)
(* parallel search returns, what the runtime never gets at startup; and    *)
(* the types of all of them together.                                      *)
(***************************************************************************)
EXTENDS MCServices, MemoryStore_proofs, Integers, FiniteSetTheorems, Lists_proofs, TLAPS

\* An update that holds the lock.
Writing(c) == request[c].at \in {"open", "dump", "replace"}

Places ==
    [at : {"none", "thread", "lock", "open", "dump", "replace"},
     for : {"none", "/query", "/query-adaptive", "/config"},
     setting : Settings \union {NoClient}, nr : Nat]

ConfigTypes ==
    /\ server \in {"down", "up"} /\ updates \in Nat
    /\ config \in [Settings -> Nat] /\ configFile \in [Settings -> Nat] /\ kept \in [Settings -> Nat]
    /\ request \in [Clients -> Places]

\* What is confirmed is in the file, what is in the file is in memory, and no
\* update has a number that was not given yet.
ConfigOrder ==
    \A s \in Settings :
        /\ kept[s] <= configFile[s] /\ configFile[s] <= updates /\ config[s] <= updates
        /\ server = "up" => configFile[s] <= config[s]

\* The update that holds the lock is alone: its value stays in memory, and what
\* it renames is what it has dumped.
ConfigLocked ==
    \A c \in Clients :
        /\ request[c].at # "none" => server = "up"
        /\ request[c].at \in {"lock", "open", "dump", "replace"} => request[c].setting \in Settings
        /\ Writing(c) => configLock = c /\ config[request[c].setting] = request[c].nr
        /\ request[c].at = "replace" => configTmp = config

ConfigInv == ConfigTypes /\ ConfigOrder /\ ConfigLocked

\* The file is the original one at first.
LEMMA ConfigInit == ApiInit => ConfigInv
  BY ApiAssumption DEF ApiInit, ConfigInv, ConfigTypes, ConfigOrder, ConfigLocked, Original, NoRequest, Writing, Places

\* Every step of a request, every startup and every kill keeps it.
LEMMA ConfigStep == ConfigInv /\ [ApiNext]_apiVars => ConfigInv'
<1> SUFFICES ASSUME ConfigInv, [ApiNext]_apiVars
             PROVE  ConfigInv'
  OBVIOUS
<1> USE ApiAssumption DEF ConfigInv, ConfigTypes, ConfigOrder, ConfigLocked, Writing, NoRequest, Places
<1>1. CASE Startup
  <2>1. configFile # Partial
    BY DEF Partial
  <2> QED  BY <1>1, <2>1 DEF Startup, configFiles, book
<1>2. CASE Shutdown
  BY <1>2 DEF Shutdown, configFiles, book
<1>3. CASE KillServer
  BY <1>3 DEF KillServer, configFiles
<1>4. ASSUME NEW c \in Clients, ApiStep(c) PROVE ConfigInv'
  <2>1. CASE Refused(c) \/ Health(c) \/ Read(c)
    BY <2>1 DEF Refused, Health, Read, Answers, configFiles, book
  <2>2. CASE Query(c) \/ QueryAdaptive(c)
    <3>1. /\ UNCHANGED <<server, config, configFile, configTmp, configLock, updates, kept>>
          /\ server = "up"
          /\ \/ request' = [request EXCEPT ![c] = NoRequest]
             \/ \E path \in {"/query", "/query-adaptive"} :
                  request' = [request EXCEPT ![c] = [NoRequest EXCEPT !.at = "thread", !.for = path]]
      BY <2>2 DEF Query, QueryAdaptive, Working, Answers, configFiles, book
    <3>2. CASE request' = [request EXCEPT ![c] = NoRequest]
      BY <3>1, <3>2
    <3>3. ASSUME NEW path \in {"/query", "/query-adaptive"},
                 request' = [request EXCEPT ![c] = [NoRequest EXCEPT !.at = "thread", !.for = path]]
          PROVE  ConfigInv'
      BY <3>1, <3>3
    <3> QED  BY <3>1, <3>2, <3>3
  <2>3. CASE QueryDone(c)
    BY <2>3 DEF QueryDone, Answers, configFiles, book
  <2>4. CASE Update(c)
    BY <2>4 DEF Update, Answers, configFiles, book
  <2>5. CASE TakeLock(c)
    <3>1. \A d \in Clients : ~Writing(d)
      BY <2>5 DEF TakeLock
    <3>2. request[c].at = "lock" /\ request[c].setting \in Settings /\ server = "up"
      BY <2>5 DEF TakeLock, Assign
    <3>3. /\ updates' = updates + 1
          /\ config' = [config EXCEPT ![request[c].setting] = updates + 1]
          /\ request' = [request EXCEPT ![c].at = "open", ![c].nr = updates + 1]
          /\ configLock' = c /\ UNCHANGED <<server, configFile, configTmp, kept>>
      BY <2>5 DEF TakeLock, Assign, configFiles
    <3>4. ConfigTypes'
      <4> DEFINE next == [request[c] EXCEPT !.at = "open", !.nr = updates + 1]
      <4>1. request' = [request EXCEPT ![c] = next]
        BY <3>3
      <4>2. next \in Places
        <5>1. request[c] \in Places /\ updates + 1 \in Nat
          OBVIOUS
        <5> HIDE DEF ConfigInv
        <5> QED  BY <5>1 DEF Places
      <4> HIDE DEF next
      <4>3. config' \in [Settings -> Nat] /\ updates' \in Nat
        BY <3>2, <3>3
      <4> HIDE DEF Places
      <4>4. request' \in [Clients -> Places]
        BY <4>1, <4>2
      <4> QED  BY <3>3, <4>3, <4>4
    <3>5. ConfigOrder'
      BY <3>2, <3>3
    <3>6. ConfigLocked'
      <4> SUFFICES ASSUME NEW d \in Clients
                   PROVE  /\ request'[d].at # "none" => server' = "up"
                          /\ request'[d].at \in {"lock", "open", "dump", "replace"} => request'[d].setting \in Settings
                          /\ Writing(d)' => configLock' = d /\ config'[request'[d].setting] = request'[d].nr
                          /\ request'[d].at = "replace" => configTmp' = config'
        OBVIOUS
      <4>1. CASE d = c
        BY <3>2, <3>3, <4>1
      <4>2. CASE d # c
        <5>1. request'[d] = request[d] /\ ~Writing(d)
          BY <3>1, <3>3, <4>2
        <5> QED  BY <3>3, <5>1
      <4> QED  BY <4>1, <4>2
    <3> QED  BY <3>4, <3>5, <3>6
  <2>6. CASE OpenTmpFile(c)
    BY <2>6 DEF OpenTmpFile, book
  <2>7. CASE DumpConfig(c)
    BY <2>7 DEF DumpConfig, book
  <2>8. CASE ReplaceConfig(c)
    BY <2>8 DEF ReplaceConfig, Unlock, Answers
  <2>9. CASE UpdateFails(c)
    BY <2>9 DEF UpdateFails, Unlock, Answers, configFiles, book
  <2> QED  BY <1>4, <2>1, <2>2, <2>3, <2>4, <2>5, <2>6, <2>7, <2>8, <2>9 DEF ApiStep
<1>5. CASE UNCHANGED apiVars
  BY <1>5 DEF apiVars, configFiles, book
<1> QED  BY <1>1, <1>2, <1>3, <1>4, <1>5 DEF ApiNext

\* The configuration file can be read and keeps every confirmed update, for
\* any number of clients, settings and kills (app.update_config).
THEOREM ConfigStaysKept == ApiSpec => []ConfigKept
<1>1. ConfigInv => ConfigKept
  BY ApiAssumption DEF ConfigInv, ConfigTypes, ConfigOrder, ConfigKept, Partial
<1> QED  BY <1>1, ConfigInit, ConfigStep, PTL DEF ApiSpec

-----------------------------------------------------------------------------
\* The keys that no outage and no copy that was held can revive.
Bound == ApiKeys \ excused

CallTypes == call \in [Processes -> [at : Calls, key : ApiKeys \union {NoRecord}, active : BOOLEAN]]

StoreTypes ==
    /\ byHash \in [ApiKeys -> BOOLEAN \union {NoRecord}]
    /\ inFile \in [ApiKeys -> BOOLEAN \union {NoRecord}]
    /\ revoked \subseteq ApiKeys
    /\ \A p \in Processes : call[p].at # "none" => call[p].key \in ApiKeys

\* Before the first outage Redis has all records, and what is fetched to be
\* written has one.  A key is inserted once, when it has none.
NoOutage ==
    \A k \in Bound :
        /\ keyRedis = "up" /\ inFile[k] = NoRecord
        /\ k \in byId => byHash[k] # NoRecord
        /\ \A p \in Processes : call[p].key = k =>
             /\ call[p].at \in {"store", "revoke", "index"} => byHash[k] # NoRecord
             /\ call[p].at = "insert" => byHash[k] = NoRecord
             /\ call[p].at = "revoke" => ~call[p].active
             /\ \A q \in Processes \ {p} :
                  call[q].key = k /\ call[p].at = "insert" => call[q].at # "insert"

\* The record of a revoked key says so, and so does every copy of it.
Revoked ==
    \A k \in Bound \cap revoked :
        /\ byHash[k] = FALSE
        /\ \A p \in Processes : call[p].key = k /\ call[p].at = "store" => ~call[p].active

KeyInv == CallTypes /\ StoreTypes /\ NoOutage /\ Revoked

\* No key has been created at first.
LEMMA KeysInit == CredentialsInit => KeyInv
  BY DEF CredentialsInit, KeyInv, CallTypes, StoreTypes, NoOutage, Revoked, NoCall, Calls, Bound

\* A step that writes no record and changes the call of one process.
LEMMA KeysCall ==
    ASSUME KeyInv, NEW p \in Processes, NEW next,
           next \in [at : Calls, key : ApiKeys \union {NoRecord}, active : BOOLEAN],
           call' = [call EXCEPT ![p] = next],
           next.at # "none" => next.key \in ApiKeys,
           UNCHANGED <<keyRedis, byHash, byId, inFile, revoked, excused>>,
           next.key \in Bound =>
             /\ next.at \in {"store", "revoke", "index"} => byHash[next.key] # NoRecord
             /\ next.at = "insert" => byHash[next.key] = NoRecord
             /\ next.at = "revoke" => ~next.active
             /\ next.at = "store" /\ next.active => next.key \notin revoked
             /\ next.at = "insert" => \A q \in Processes \ {p} : call[q].key = next.key => call[q].at # "insert"
    PROVE  KeyInv'
<1> USE DEF KeyInv, CallTypes, StoreTypes
<1>1. CallTypes' /\ StoreTypes'
  OBVIOUS
<1>2. Bound' = Bound
  BY DEF Bound
<1>3. /\ call'[p] = next
      /\ \A q \in Processes \ {p} : call'[q] = call[q]
  OBVIOUS
<1>4. NoOutage'
  BY <1>2, <1>3 DEF NoOutage
<1>5. Revoked'
  BY <1>2, <1>3 DEF Revoked
<1> QED  BY <1>1, <1>4, <1>5

\* Every step of a process, every failure and every expiry keeps it.
LEMMA KeysStep == KeyInv /\ [CredentialsNext]_credentialsVars => KeyInv'
<1> SUFFICES ASSUME KeyInv, [CredentialsNext]_credentialsVars
             PROVE  KeyInv'
  OBVIOUS
<1> USE CredentialsAssumption DEF KeyInv, CallTypes, StoreTypes
<1>1. CASE KeyRedisFails
  <2>1. Bound' = {}
    BY <1>1 DEF KeyRedisFails, Bound
  <2> QED  BY <1>1, <2>1 DEF KeyRedisFails, NoOutage, Revoked, StoresUnchanged
<1>2. CASE KeyRedisReturns
  BY <1>2 DEF KeyRedisReturns, NoOutage, Revoked, StoresUnchanged, HistoryUnchanged, Bound
<1>3. CASE \E k \in ApiKeys : Expires(k)
  BY <1>3 DEF Expires, NoOutage, Revoked, StoresUnchanged, HistoryUnchanged, Bound
<1>4. ASSUME NEW p \in Processes, Begins(p) PROVE KeyInv'
  <2>1. PICK k \in ApiKeys, at \in {"validate", "fetch", "count"} :
             call' = [call EXCEPT ![p] = [NoCall EXCEPT !.at = at, !.key = k]]
    BY <1>4 DEF Begins
  <2> DEFINE next == [NoCall EXCEPT !.at = at, !.key = k]
  <2>2. /\ next \in [at : Calls, key : ApiKeys \union {NoRecord}, active : BOOLEAN]
        /\ next.key = k /\ next.at = at
    BY DEF NoCall, Calls
  <2>3. UNCHANGED <<keyRedis, byHash, byId, inFile, revoked, excused>>
    BY <1>4 DEF Begins, StoresUnchanged, HistoryUnchanged
  <2>4. /\ next.at # "none" => next.key \in ApiKeys
        /\ next.at \notin {"store", "revoke", "index", "insert"}
    BY <2>2
  <2> HIDE DEF next, KeyInv
  <2>5. call' = [call EXCEPT ![p] = next]
    BY <2>1 DEF next
  <2> QED  BY <2>2, <2>3, <2>4, <2>5, KeysCall
<1>5. ASSUME NEW p \in Processes, Validates(p) PROVE KeyInv'
  <2>1. UNCHANGED <<keyRedis, byHash, byId, inFile, revoked, excused>>
    BY <1>5 DEF Validates, StoresUnchanged, HistoryUnchanged
  <2>2. PICK at \in {"none", "fetch", "touch"} :
             call' = [call EXCEPT ![p] = IF at = "none" THEN NoCall ELSE [call[p] EXCEPT !.at = at]]
    BY <1>5 DEF Validates, Finish, Go
  <2> DEFINE next == IF at = "none" THEN NoCall ELSE [call[p] EXCEPT !.at = at]
  <2>3. /\ next \in [at : Calls, key : ApiKeys \union {NoRecord}, active : BOOLEAN]
        /\ next.at \in {"none", "fetch", "touch"} /\ (next.at # "none" => next.key \in ApiKeys)
    BY <1>5 DEF Validates, NoCall, Calls
  <2>4. next.at \notin {"store", "revoke", "index", "insert"}
    BY <2>3
  <2>5. call' = [call EXCEPT ![p] = next]
    BY <2>2
  <2> HIDE DEF next, KeyInv
  <2> QED  BY <2>1, <2>3, <2>4, <2>5, KeysCall
<1>6. ASSUME NEW p \in Processes, Touches(p) PROVE KeyInv'
  <2>1. UNCHANGED <<keyRedis, byHash, byId, inFile, revoked, excused>>
    BY <1>6 DEF Touches, StoresUnchanged, HistoryUnchanged
  <2> DEFINE k == call[p].key
             record == RecordOfId(k)
             next == IF record = NoRecord THEN NoCall ELSE [call[p] EXCEPT !.at = "store", !.active = record]
  <2>2. call' = [call EXCEPT ![p] = next]
    BY <1>6 DEF Touches, Finish
  <2>3. call[p].at = "touch" /\ k \in ApiKeys /\ record \in BOOLEAN \union {NoRecord}
    BY <1>6 DEF Touches, RecordOfId, RecordOf
  <2>4. k \in Bound /\ record # NoRecord => byHash[k] # NoRecord /\ record = byHash[k]
    BY <2>3 DEF RecordOfId, RecordOf, NoOutage
  <2>5. next \in [at : Calls, key : ApiKeys \union {NoRecord}, active : BOOLEAN]
    BY <2>3 DEF NoCall, Calls
  <2>6. \/ next.at = "none"
        \/ next.at = "store" /\ next.key = k /\ record # NoRecord /\ next.active = record
    BY <2>3 DEF NoCall
  <2>7. k \in Bound \cap revoked => byHash[k] = FALSE
    BY DEF Revoked
  <2> HIDE DEF next, record, k, KeyInv
  <2> QED  BY <2>1, <2>2, <2>3, <2>4, <2>5, <2>6, <2>7, KeysCall
<1>7. ASSUME NEW p \in Processes, FetchesToRevoke(p) PROVE KeyInv'
  <2>1. UNCHANGED <<keyRedis, byHash, byId, inFile, revoked, excused>>
    BY <1>7 DEF FetchesToRevoke, StoresUnchanged, HistoryUnchanged
  <2> DEFINE k == call[p].key
             record == RecordOfId(k)
             next == IF record = NoRecord THEN NoCall ELSE [call[p] EXCEPT !.at = "revoke", !.active = FALSE]
  <2>2. call' = [call EXCEPT ![p] = next]
    BY <1>7 DEF FetchesToRevoke, Finish
  <2>3. call[p].at = "fetch" /\ k \in ApiKeys
    BY <1>7 DEF FetchesToRevoke
  <2>4. k \in Bound /\ record # NoRecord => byHash[k] # NoRecord
    BY <2>3 DEF RecordOfId, RecordOf, NoOutage
  <2>5. next \in [at : Calls, key : ApiKeys \union {NoRecord}, active : BOOLEAN]
    BY <2>3 DEF NoCall, Calls
  <2>6. \/ next.at = "none"
        \/ next.at = "revoke" /\ next.key = k /\ record # NoRecord /\ ~next.active
    BY <2>3 DEF NoCall
  <2> HIDE DEF next, record, k, KeyInv
  <2> QED  BY <2>1, <2>2, <2>3, <2>4, <2>5, <2>6, KeysCall
<1>8. ASSUME NEW p \in Processes, CountsKeys(p) PROVE KeyInv'
  <2>1. UNCHANGED <<keyRedis, byHash, byId, inFile, revoked, excused>>
    BY <1>8 DEF CountsKeys, StoresUnchanged, HistoryUnchanged
  <2> DEFINE k == call[p].key
             inserted == [call[p] EXCEPT !.at = "insert", !.active = TRUE]
  <2>2. call[p].at = "count" /\ k \in ApiKeys
    BY <1>8 DEF CountsKeys
  <2>3. CASE call' = [call EXCEPT ![p] = NoCall]
    <3>1. NoCall \in [at : Calls, key : ApiKeys \union {NoRecord}, active : BOOLEAN] /\ NoCall.at = "none"
      BY DEF NoCall, Calls
    <3> HIDE DEF KeyInv
    <3> QED  BY <2>1, <2>3, <3>1, KeysCall
  <2>4. CASE /\ call' = [call EXCEPT ![p] = inserted]
             /\ byHash[k] = NoRecord
             /\ \A q \in Processes \ {p} : call[q].key = k => call[q].at \notin {"insert", "index"}
    <3>1. /\ inserted \in [at : Calls, key : ApiKeys \union {NoRecord}, active : BOOLEAN]
          /\ inserted.at = "insert" /\ inserted.key = k
      BY <2>2 DEF Calls
    <3> HIDE DEF KeyInv, inserted
    <3> QED  BY <2>1, <2>2, <2>4, <3>1, KeysCall
  <2> QED  BY <1>8, <2>3, <2>4 DEF CountsKeys, Finish
<1>9. ASSUME NEW p \in Processes, StoresInRedis(p) PROVE KeyInv'
  <2> DEFINE k == call[p].key
  <2>1. /\ call[p].at \in {"store", "revoke", "insert"} /\ k \in ApiKeys
        /\ byHash' = [byHash EXCEPT ![k] = call[p].active]
        /\ call' = [call EXCEPT ![p].at = "index"]
        /\ UNCHANGED <<keyRedis, byId, inFile>>
    BY <1>9 DEF StoresInRedis, Go
  <2>2. /\ call'[p].at = "index" /\ call'[p].key = k /\ call[p].active \in BOOLEAN
        /\ \A q \in Processes \ {p} : call'[q] = call[q]
    BY <2>1
  <2>3. CallTypes' /\ StoreTypes'
    <3>1. revoked' \subseteq ApiKeys
      BY <1>9, <2>1 DEF StoresInRedis, RevocationNoted, HistoryUnchanged
    <3> QED  BY <2>1, <2>2, <3>1 DEF Calls
  <2>4. Bound' \subseteq Bound
    BY <1>9 DEF StoresInRedis, RevocationNoted, HistoryUnchanged, Bound
  <2>5. byHash'[k] # NoRecord /\ \A j \in ApiKeys \ {k} : byHash'[j] = byHash[j]
    BY <2>1, <2>2
  <2>6. NoOutage'
    BY <2>1, <2>2, <2>4, <2>5 DEF NoOutage
  <2>7. Revoked'
    <3>1. CASE call[p].at = "revoke"
      <4>1. revoked' = revoked \union {k} /\ (k \in Bound' => ~HeldActive(p, k))
        BY <1>9, <3>1 DEF StoresInRedis, RevocationNoted, Bound
      <4>2. k \in Bound => call[p].active = FALSE
        BY <3>1, <2>1 DEF NoOutage
      <4> QED  BY <2>1, <2>2, <2>4, <2>5, <4>1, <4>2 DEF Revoked, HeldActive
    <3>2. CASE call[p].at # "revoke"
      <4>1. revoked' = revoked
        BY <1>9, <3>2 DEF StoresInRedis, RevocationNoted, HistoryUnchanged
      <4>2. k \in Bound \cap revoked => call[p].at = "store" /\ call[p].active = FALSE
        BY <2>1, <2>2, <3>2 DEF Revoked, NoOutage
      <4> QED  BY <2>1, <2>2, <2>4, <2>5, <4>1, <4>2 DEF Revoked
    <3> QED  BY <3>1, <3>2
  <2> QED  BY <2>3, <2>6, <2>7
<1>10. ASSUME NEW p \in Processes, IndexesInRedis(p) PROVE KeyInv'
  <2>1. /\ call[p].at = "index" /\ call[p].key \in ApiKeys
        /\ call' = [call EXCEPT ![p] = NoCall]
        /\ byId' = byId \union {call[p].key}
        /\ UNCHANGED <<keyRedis, byHash, inFile, revoked, excused>>
    BY <1>10 DEF IndexesInRedis, Finish, HistoryUnchanged
  <2>2. /\ NoCall \in [at : Calls, key : ApiKeys \union {NoRecord}, active : BOOLEAN] /\ NoCall.at = "none"
        /\ call'[p] = NoCall /\ \A q \in Processes \ {p} : call'[q] = call[q]
    BY <2>1 DEF NoCall, Calls
  <2>3. CallTypes' /\ StoreTypes'
    BY <2>1, <2>2
  <2>4. NoOutage'
    BY <2>1, <2>2 DEF NoOutage, Bound
  <2>5. Revoked'
    BY <2>1, <2>2 DEF Revoked, Bound
  <2> QED  BY <2>3, <2>4, <2>5
<1>11. ASSUME NEW p \in Processes, StoresInFile(p) PROVE KeyInv'
  <2>1. Bound = {} /\ Bound' = {}
    BY <1>11 DEF StoresInFile, RevocationNoted, HistoryUnchanged, NoOutage, Bound
  <2>2. CallTypes' /\ StoreTypes'
    <3>1. revoked' \subseteq ApiKeys /\ call[p].key \in ApiKeys
      BY <1>11 DEF StoresInFile, RevocationNoted, HistoryUnchanged
    <3>2. /\ NoCall \in [at : Calls, key : ApiKeys \union {NoRecord}, active : BOOLEAN] /\ NoCall.at = "none"
          /\ call' = [call EXCEPT ![p] = NoCall]
      BY <1>11 DEF StoresInFile, Finish, NoCall, Calls
    <3>3. inFile' = [inFile EXCEPT ![call[p].key] = call[p].active] /\ UNCHANGED byHash
      BY <1>11 DEF StoresInFile
    <3>4. inFile' \in [ApiKeys -> BOOLEAN \union {NoRecord}]
      BY <3>1, <3>3
    <3> QED  BY <3>1, <3>2, <3>3, <3>4
  <2> QED  BY <2>1, <2>2 DEF NoOutage, Revoked
<1>12. CASE UNCHANGED credentialsVars
  BY <1>12 DEF credentialsVars, NoOutage, Revoked, Bound
<1> QED
  BY <1>1, <1>2, <1>3, <1>4, <1>5, <1>6, <1>7, <1>8, <1>9, <1>10, <1>11, <1>12 DEF CredentialsNext

\* A revoked key is refused from then on, but for the outages of Redis and the
\* copies held while it was revoked (APIKeyManager.revoke_key, _update_last_used).
THEOREM KeysStayRevoked == CredentialsSpec => []RevokedStaysRevoked
<1>1. KeyInv => RevokedStaysRevoked
  BY CredentialsAssumption DEF KeyInv, StoreTypes, Revoked, NoOutage, RevokedStaysRevoked, RecordOf, Bound
<1> QED  BY <1>1, KeysInit, KeysStep, PTL DEF CredentialsSpec

-----------------------------------------------------------------------------
\* The command is writing the run, under its partial name; it is making the
\* run; the files a run has when n of them are written.
Drafting(c) == cmd[c].at \in {"write", "sync", "rename"}
Making(c) == Drafting(c) \/ cmd[c].at \in {"syncParent", "mark", "syncMark", "append"}
Written(n) == {PartOrder[i] : i \in 1 .. n}

RunTypes ==
    /\ dir \in [Runs -> {"none", "partial", "final"}]
    /\ files \in [Runs -> SUBSET (Parts \union {Complete})]
    /\ durable \in [Runs -> SUBSET (Parts \union {Complete})]
    /\ fresh \subseteq Runs /\ settled \subseteq Runs /\ doomed \subseteq Runs
    /\ cmd \in [Commands -> [at : Steps, run : Runs \union {NoRun}]]

\* A run has one maker, which begins with an empty directory and renames it
\* when its files are there and durable.
Drafts ==
    /\ \A r \in fresh : dir[r] = "none" /\ files[r] = {} /\ r \notin doomed
    /\ \A c \in Commands : Making(c) => cmd[c].run \in Runs \ fresh
    /\ \A c, d \in Commands : Making(c) /\ Making(d) /\ cmd[c].run = cmd[d].run => c = d
    /\ \A c \in Commands : cmd[c].at = "unlink" => cmd[c].run \in doomed
    /\ \A c \in Commands : LET r == cmd[c].run IN
         /\ Drafting(c) => dir[r] = "partial" /\ r \notin doomed
         /\ cmd[c].at = "write" => \E n \in Nat : n < Cardinality(Parts) /\ files[r] = Written(n)
         /\ cmd[c].at \in {"sync", "rename"} => Parts \subseteq files[r]
         /\ cmd[c].at = "rename" => Parts \subseteq durable[r]

\* What has its final name has all its files, now and after a power failure.
FinalWhole ==
    \A r \in Runs \ doomed :
        /\ dir[r] = "final" => Parts \subseteq files[r] /\ Parts \subseteq durable[r]
        /\ dir[r] = "none" => r \in settled

RunInv == RunTypes /\ Drafts /\ FinalWhole

\* The files are written in the order of PartOrder, each once.
LEMMA WrittenFiles ==
    /\ Cardinality(Parts) \in Nat
    /\ Written(0) = {} /\ Written(Cardinality(Parts)) = Parts
    /\ \A n \in Nat : n < Cardinality(Parts) =>
         /\ Cardinality(Written(n)) = n
         /\ Written(n) \union {PartOrder[n + 1]} = Written(n + 1)
         /\ PartOrder[n + 1] \in Parts
<1>1. Cardinality(Parts) \in Nat
  BY ArenaAssumption, FS_CardinalityType
<1>2. DOMAIN PartOrder = 1 .. Cardinality(Parts)
  BY ArenaAssumption
<1>3. Written(0) = {} /\ Written(Cardinality(Parts)) = Parts
  <2>1. Parts = {PartOrder[i] : i \in 1 .. Cardinality(Parts)}
    BY ONLY <1>2 DEF Parts
  <2> QED  BY <2>1 DEF Written
<1>4. ASSUME NEW n \in Nat, n < Cardinality(Parts)
      PROVE  /\ Cardinality(Written(n)) = n
             /\ Written(n) \union {PartOrder[n + 1]} = Written(n + 1)
             /\ PartOrder[n + 1] \in Parts
  <2> DEFINE f == [i \in 1 .. n |-> PartOrder[i]]
  <2>1. f \in Bijection(1 .. n, Written(n))
    <3>1. f \in [1 .. n -> Written(n)]
      BY DEF Written
    <3>2. \A i, j \in 1 .. n : f[i] = f[j] => i = j
      BY <1>1, <1>2, <1>4, ArenaAssumption
    <3>3. \A x \in Written(n) : \E i \in 1 .. n : f[i] = x
      BY DEF Written
    <3> HIDE DEF f
    <3> QED  BY <3>1, <3>2, <3>3 DEF Bijection, Injection, Surjection, IsInjective
  <2>2. Cardinality(Written(n)) = n
    BY <2>1, FS_CountingElements DEF ExistsBijection
  <2>3. n + 1 \in 1 .. Cardinality(Parts) /\ 1 .. n + 1 = (1 .. n) \union {n + 1}
    BY <1>1, <1>4
  <2>4. Written(n) \union {PartOrder[n + 1]} = Written(n + 1)
    BY <2>3 DEF Written
  <2>5. PartOrder[n + 1] \in Parts
    BY <1>2, <2>3 DEF Parts
  <2> QED  BY <2>2, <2>4, <2>5
<1> QED  BY <1>1, <1>3, <1>4

\* No run has been made at first.
LEMMA RunsInit == ArenaInit => RunInv
  BY DEF ArenaInit, RunInv, RunTypes, Drafts, FinalWhole, Idling, Steps, Making, Drafting

\* Every step of a command, every kill and every power failure keeps it.
LEMMA RunsStep == RunInv /\ [ArenaNext]_arenaVars => RunInv'
<1> SUFFICES ASSUME RunInv, [ArenaNext]_arenaVars
             PROVE  RunInv'
  OBVIOUS
<1> USE DEF RunInv, RunTypes, Making, Drafting, Steps, Then, Ends, Doing, Idling
<1>1. ASSUME NEW c \in Commands, StartRun(c) PROVE RunInv'
  <2>1. PICK r \in fresh :
             /\ fresh' = fresh \ {r} /\ settled' = settled \ {r}
             /\ dir' = [dir EXCEPT ![r] = "partial"]
             /\ cmd' = [cmd EXCEPT ![c] = [at |-> "write", run |-> r]]
    BY <1>1 DEF StartRun
  <2>2. UNCHANGED <<files, durable, doomed>> /\ r \in Runs
    BY <1>1 DEF StartRun
  <2>3. files[r] = Written(0) /\ 0 < Cardinality(Parts) /\ r \notin doomed
    <3>1. Cardinality(Parts) \in Nat /\ Cardinality(Parts) # 0 /\ Written(0) = {}
      BY WrittenFiles, ArenaAssumption, FS_EmptySet
    <3>2. 0 < Cardinality(Parts)
      BY <3>1
    <3>3. files[r] = {} /\ r \notin doomed
      BY <2>1 DEF Drafts
    <3> QED  BY <3>1, <3>2, <3>3
  <2>4. RunTypes'
    BY <2>1, <2>2
  <2>5. Drafts'
    BY <2>1, <2>2, <2>3 DEF Drafts
  <2>6. FinalWhole'
    BY <2>1, <2>2 DEF FinalWhole
  <2> QED  BY <2>4, <2>5, <2>6
<1>2. ASSUME NEW c \in Commands, WritePart(c) PROVE RunInv'
  <2> DEFINE r == cmd[c].run
  <2>1. /\ cmd[c].at = "write" /\ r \in Runs \ fresh /\ dir[r] = "partial" /\ r \notin doomed
    BY <1>2 DEF WritePart, Drafts
  <2>2. PICK n \in Nat : n < Cardinality(Parts) /\ files[r] = Written(n)
    BY <2>1 DEF Drafts
  <2>3. /\ files' = [files EXCEPT ![r] = Written(n + 1)]
        /\ cmd' = [cmd EXCEPT ![c].at = IF n + 1 = Cardinality(Parts) THEN "sync" ELSE "write"]
        /\ UNCHANGED <<fresh, dir, durable, settled, doomed>>
    BY <1>2, <2>2, WrittenFiles DEF WritePart
  <2>4. Cardinality(Parts) \in Nat /\ Written(n + 1) \subseteq Parts
        /\ Written(Cardinality(Parts)) = Parts
    <3>1. Cardinality(Parts) \in Nat /\ Written(Cardinality(Parts)) = Parts
      BY WrittenFiles
    <3>2. Written(n + 1) = Written(n) \union {PartOrder[n + 1]} /\ PartOrder[n + 1] \in Parts
      BY <2>2, WrittenFiles
    <3>3. \A i \in 1 .. n : i \in 1 .. Cardinality(Parts)
      BY <2>2, <3>1
    <3>4. Written(n) \subseteq Written(Cardinality(Parts))
      BY <3>3 DEF Written
    <3> QED  BY <3>1, <3>2, <3>4
  <2>5. RunTypes'
    BY <2>1, <2>3, <2>4
  <2>6. Drafts'
    BY <2>1, <2>2, <2>3, <2>4 DEF Drafts
  <2>7. FinalWhole'
    BY <2>1, <2>3 DEF FinalWhole
  <2> QED  BY <2>5, <2>6, <2>7
<1>3. ASSUME NEW c \in Commands, SyncDirectory(c) PROVE RunInv'
  BY <1>3 DEF SyncDirectory, Drafts, FinalWhole
<1>4. ASSUME NEW c \in Commands, RenameRun(c) PROVE RunInv'
  BY <1>4 DEF RenameRun, Drafts, FinalWhole
<1>5. ASSUME NEW c \in Commands, SyncParent(c) PROVE RunInv'
  BY <1>5 DEF SyncParent, Drafts, FinalWhole
<1>6. ASSUME NEW c \in Commands, MarkComplete(c) PROVE RunInv'
  BY <1>6 DEF MarkComplete, Drafts, FinalWhole
<1>7. ASSUME NEW c \in Commands, AppendIndex(c) PROVE RunInv'
  BY <1>7 DEF AppendIndex, Drafts, FinalWhole
<1>8. ASSUME NEW c \in Commands, StartDelete(c) PROVE RunInv'
  BY <1>8 DEF StartDelete, Drafts, FinalWhole
<1>9. ASSUME NEW c \in Commands, Unlink(c) PROVE RunInv'
  <2> DEFINE r == cmd[c].run
  <2>1. cmd[c].at = "unlink" /\ r \in doomed /\ UNCHANGED <<fresh, durable, doomed>>
    BY <1>9 DEF Unlink, Drafts
  <2>2. ASSUME NEW f \in files[r], files' = [files EXCEPT ![r] = @ \ {f}], UNCHANGED <<dir, settled, cmd>>
        PROVE  RunInv'
    BY <2>1, <2>2 DEF Drafts, FinalWhole
  <2>3. CASE /\ dir' = [dir EXCEPT ![r] = "none"] /\ settled' = settled \ {r}
             /\ cmd' = [cmd EXCEPT ![c].at = "scan"] /\ UNCHANGED files
    BY <2>1, <2>3 DEF Drafts, FinalWhole
  <2>4. CASE cmd' = [cmd EXCEPT ![c] = Idling] /\ UNCHANGED <<dir, files, settled>>
    BY <2>1, <2>4 DEF Drafts, FinalWhole
  <2> QED  BY <1>9, <2>2, <2>3, <2>4 DEF Unlink
<1>10. ASSUME NEW c \in Commands, StartRebuild(c) \/ Scan(c) \/ DumpIndex(c) \/ ReplaceIndex(c)
       PROVE  RunInv'
  BY <1>10 DEF StartRebuild, Scan, DumpIndex, ReplaceIndex, Drafts, FinalWhole
<1>11. ASSUME NEW c \in Commands, Killed(c) PROVE RunInv'
  BY <1>11 DEF Killed, Drafts, FinalWhole
<1>12. CASE PowerFails
  <2>1. /\ dir' \in [Runs -> {"none", "partial", "final"}] /\ files' \in [Runs -> SUBSET (Parts \union {Complete})]
        /\ \A r \in Runs : dir'[r] \in NamesAfter(r)
        /\ \A r \in Runs : IF dir'[r] = "none" THEN files'[r] = {} ELSE files'[r] \in FilesAfter(r)
        /\ durable' = files' /\ settled' = Runs /\ cmd' = [c \in Commands |-> Idling]
        /\ UNCHANGED <<fresh, doomed>>
    BY <1>12 DEF PowerFails
  <2>2. ASSUME NEW r \in fresh PROVE dir'[r] = "none" /\ files'[r] = {} /\ r \notin doomed'
    <3>1. r \in Runs /\ dir[r] = "none" /\ files[r] = {} /\ r \notin doomed /\ r \in settled
      BY <2>2 DEF Drafts, FinalWhole
    <3> QED  BY <2>1, <3>1 DEF NamesAfter
  <2>3. ASSUME NEW r \in Runs \ doomed', dir'[r] = "final" PROVE Parts \subseteq files'[r]
    <3>1. dir'[r] \in NamesAfter(r) /\ files'[r] \in FilesAfter(r)
      BY <2>1, <2>3
    <3>2. dir[r] = "final" \/ (dir[r] = "none" /\ r \notin settled)
      BY <3>1, <2>3 DEF NamesAfter
    <3>3. dir[r] = "final"
      BY <2>1, <2>3, <3>2 DEF FinalWhole
    <3> QED  BY <2>1, <2>3, <3>1, <3>3 DEF FinalWhole, FilesAfter
  <2>4. RunTypes' /\ Drafts'
    BY <2>1, <2>2 DEF Drafts
  <2>5. FinalWhole'
    BY <2>1, <2>3 DEF FinalWhole
  <2> QED  BY <2>4, <2>5
<1>13. CASE UNCHANGED arenaVars
  BY <1>13 DEF arenaVars, Drafts, FinalWhole
<1> QED
  BY <1>1, <1>2, <1>3, <1>4, <1>5, <1>6, <1>7, <1>8, <1>9, <1>10, <1>11, <1>12, <1>13
  DEF ArenaNext, ArenaStep


\* Wherever power failures and kills strike, a run that readers take for
\* complete has all its files (ArenaStore.write_run).
THEOREM PublishedWhole == ArenaSpec => []CompleteIsWhole
<1>1. RunInv => CompleteIsWhole
  BY DEF RunInv, FinalWhole, CompleteIsWhole, Published
<1> QED  BY <1>1, RunsInit, RunsStep, PTL DEF ArenaSpec

-----------------------------------------------------------------------------
\* A command with a run is entering it into the index, or taking it out.
Indexing == {"syncMark", "append", "unlink", "scan", "dump", "replace"}
Refreshing == {"dump", "replace"}

IndexTypes ==
    /\ rows \in [Runs -> Nat] /\ listed \in [Commands -> SUBSET Runs]
    /\ tmpIndex = NoRun \/ tmpIndex \subseteq Runs
    /\ \A c \in Commands :
         /\ cmd[c].at = "idle" => cmd[c].run = NoRun
         /\ cmd[c].at = "unlink" => cmd[c].run \in Runs
         /\ cmd[c].run \notin fresh
    /\ \A r \in fresh : rows[r] = 0 /\ (tmpIndex # NoRun => r \notin tmpIndex)
    /\ \A r \in fresh, c \in Commands : r \notin listed[c]

\* One command at a time works on the run, and no other one rebuilds the index
\* while it enters the run or takes it out.
RunApart(r) ==
    \A c, d \in Commands : c # d /\ cmd[c].run = r =>
        cmd[d].run # r /\ (cmd[c].at \in Indexing => cmd[d].at \notin Refreshing)

\* The run is published by its marker, entered after it, and taken out when its
\* directory is gone.
RunWorked(r) ==
    \A c \in Commands : cmd[c].run = r =>
        /\ cmd[c].at \in {"write", "sync", "rename", "syncParent", "mark"} => Complete \notin files[r]
        /\ Making(c) => rows[r] = 0
        /\ cmd[c].at \in {"sync", "rename", "syncParent", "mark", "syncMark", "append"} => Parts \subseteq files[r]
        /\ cmd[c].at \in {"syncParent", "mark", "syncMark", "append", "unlink"} => dir[r] = "final"
        /\ cmd[c].at \in {"syncMark", "append"} => Complete \in files[r]
        /\ cmd[c].at \in {"scan", "dump", "replace"} => dir[r] = "none"
        /\ cmd[c].at = "replace" => tmpIndex # NoRun

\* A published run that nobody deletes can be read.
RunReadable(r) ==
    Published(r) /\ (\A c \in Commands : cmd[c].at = "unlink" => cmd[c].run # r) => Parts \subseteq files[r]

\* A rebuild has listed the run, and is going to install it, if it is published.
RunListed(r) ==
    \A c \in Commands :
        /\ cmd[c].at = "dump" => (r \in listed[c] <=> Published(r))
        /\ cmd[c].at = "replace" /\ tmpIndex # NoRun => (r \in tmpIndex <=> Published(r))

\* Its row is there if it is published, when nobody enters it or takes it out.
RunCounted(r) ==
    (\A c \in Commands : cmd[c].run = r => cmd[c].at \notin Indexing)
        => rows[r] = (IF Published(r) THEN 1 ELSE 0)

RunIndexed(r) == RunApart(r) /\ RunWorked(r) /\ RunReadable(r) /\ RunListed(r) /\ RunCounted(r)

IndexInv == RunInv /\ IndexTypes /\ \A r \in Runs \ disturbed : RunIndexed(r)

\* The index is empty at first.
LEMMA IndexStart == ArenaInit => IndexInv
<1> SUFFICES ASSUME ArenaInit PROVE IndexInv
  OBVIOUS
<1>1. RunInv
  BY RunsInit
<1> QED
  BY <1>1, ArenaAssumption
  DEF ArenaInit, IndexInv, IndexTypes, RunIndexed, RunApart, RunWorked, RunReadable, RunListed, RunCounted,
      Idling, Published, Making, Drafting, Indexing, Refreshing

\* Every step of a command, every kill and every power failure keeps it.
LEMMA IndexStep == IndexInv /\ [ArenaNext]_arenaVars => IndexInv'
<1> SUFFICES ASSUME IndexInv, [ArenaNext]_arenaVars
             PROVE  IndexInv'
  OBVIOUS
<1>1. RunInv'
  BY RunsStep DEF IndexInv
<1>2. ASSUME disturbed' = disturbed \union Overlapping', NEW r \in Runs \ disturbed'
      PROVE  r \in Runs \ disturbed /\ RunApart(r)' /\ RunIndexed(r)
  <2>1. r \notin Overlapping'
    BY <1>2
  <2>2. RunApart(r)'
    BY <1>2, <2>1, ArenaAssumption DEF Overlapping, RunApart, Settling, Rebuilding, Indexing, Refreshing
  <2> QED  BY <1>2, <2>1, <2>2 DEF IndexInv
<1> USE ArenaAssumption DEF IndexTypes, Steps, Then, Ends, Doing, Idling, Published, Indexing, Refreshing
<1>3. IndexTypes /\ RunTypes
  BY DEF IndexInv, RunInv
<1> DEFINE Keeps == disturbed' = disturbed \union Overlapping' => \A r \in Runs \ disturbed' : RunIndexed(r)'
<1>4. ASSUME NEW c \in Commands, StartRun(c) PROVE IndexTypes' /\ Keeps
  <2>1. PICK r \in fresh :
             /\ fresh' = fresh \ {r} /\ dir' = [dir EXCEPT ![r] = "partial"]
             /\ cmd' = [cmd EXCEPT ![c] = [at |-> "write", run |-> r]]
    BY <1>4 DEF StartRun
  <2>2. UNCHANGED <<files, rows, tmpIndex, listed>> /\ r \in Runs /\ cmd[c].at = "idle"
        /\ dir[r] = "none" /\ files[r] = {} /\ rows[r] = 0
    BY <1>4, <2>1, <1>3 DEF StartRun, IndexInv, RunInv, RunTypes, Drafts
  <2>3. IndexTypes'
    BY <1>3, <2>1, <2>2 DEF RunTypes
  <2>4. ASSUME disturbed' = disturbed \union Overlapping', NEW s \in Runs \ disturbed' PROVE RunIndexed(s)'
    <3>1. s \in Runs \ disturbed /\ RunApart(s)' /\ RunIndexed(s)
      BY <1>2, <2>4
    <3>2. RunWorked(s)'
      BY <1>3, <3>1, <2>1, <2>2 DEF RunTypes, RunIndexed, RunWorked, Making, Drafting, RunApart
    <3>3. RunReadable(s)'
      BY <1>3, <3>1, <2>1, <2>2 DEF RunTypes, RunIndexed, RunWorked, RunReadable, RunApart
    <3>4. RunListed(s)'
      BY <1>3, <3>1, <2>1, <2>2 DEF RunTypes, RunIndexed, RunWorked, RunReadable, RunListed, RunApart
    <3>5. RunCounted(s)'
      BY <1>3, <3>1, <2>1, <2>2 DEF RunTypes, RunIndexed, RunWorked, RunListed, RunCounted, RunApart, Making, Drafting
    <3> QED  BY <3>1, <3>2, <3>3, <3>4, <3>5 DEF RunIndexed
  <2> QED  BY <2>3, <2>4
<1>5. ASSUME NEW c \in Commands, WritePart(c) PROVE IndexTypes' /\ Keeps
  <2> DEFINE r == cmd[c].run
  <2>1. cmd[c].at = "write" /\ r \in Runs \ fresh
    BY <1>5 DEF WritePart, IndexInv, RunInv, Drafts, Making, Drafting
  <2>2. PICK n \in Nat : n < Cardinality(Parts) /\ files[r] = Written(n)
    BY <2>1 DEF IndexInv, RunInv, Drafts
  <2>3. PICK f \in Parts, at \in {"write", "sync"} :
          /\ files' = [files EXCEPT ![r] = @ \union {f}]
          /\ cmd' = [cmd EXCEPT ![c].at = at] /\ (at = "sync" => Parts \subseteq files'[r])
    <3>1. Cardinality(Parts) \in Nat /\ Written(Cardinality(Parts)) = Parts
          /\ Cardinality(files[r]) = n /\ PartOrder[n + 1] \in Parts
          /\ files[r] \union {PartOrder[n + 1]} = Written(n + 1)
      BY <2>2, WrittenFiles
    <3>2. files' = [files EXCEPT ![r] = @ \union {PartOrder[n + 1]}]
          /\ cmd' = [cmd EXCEPT ![c].at = IF n + 1 = Cardinality(Parts) THEN "sync" ELSE "write"]
      BY <1>5, <3>1 DEF WritePart
    <3>3. n + 1 = Cardinality(Parts) => Parts \subseteq files'[r]
      BY <1>3, <2>1, <3>1, <3>2 DEF RunTypes
    <3> QED  BY <3>1, <3>2, <3>3
  <2>4. UNCHANGED <<fresh, dir, rows, tmpIndex, listed>>
    BY <1>5 DEF WritePart
  <2>8. IndexTypes'
    BY <1>3, <2>1, <2>3, <2>4 DEF RunTypes
  <2>9. ASSUME disturbed' = disturbed \union Overlapping', NEW s \in Runs \ disturbed' PROVE RunIndexed(s)'
    <3>1. s \in Runs \ disturbed /\ RunApart(s)' /\ RunIndexed(s)
      BY <1>2, <2>9
    <3>2. RunWorked(s)'
      BY <1>3, <3>1, <2>1, <2>3, <2>4 DEF RunTypes, RunIndexed, RunWorked, Making, Drafting, RunApart
    <3>3. RunReadable(s)'
      BY <1>3, <3>1, <2>1, <2>3, <2>4 DEF RunTypes, RunIndexed, RunWorked, RunReadable, RunApart
    <3>4. RunListed(s)'
      BY <1>3, <3>1, <2>1, <2>3, <2>4 DEF RunTypes, RunIndexed, RunWorked, RunReadable, RunListed, RunApart
    <3>5. RunCounted(s)'
      BY <1>3, <3>1, <2>1, <2>3, <2>4 DEF RunTypes, RunIndexed, RunWorked, RunListed, RunCounted, RunApart, Making, Drafting
    <3> QED  BY <3>1, <3>2, <3>3, <3>4, <3>5 DEF RunIndexed
  <2> QED  BY <2>8, <2>9
<1>6. ASSUME NEW c \in Commands, SyncDirectory(c) PROVE IndexTypes' /\ Keeps
  <2> DEFINE r == cmd[c].run
  <2>1. cmd[c].at \in {"sync", "syncMark"} /\ UNCHANGED <<fresh, dir, files, rows, tmpIndex, listed>>
        /\ cmd' = [cmd EXCEPT ![c].at = IF cmd[c].at = "sync" THEN "rename" ELSE "append"]
    BY <1>6 DEF SyncDirectory
  <2>2. CASE cmd[c].at = "sync"
    <3>1. cmd'[c] = [at |-> "rename", run |-> r] /\ \A d \in Commands \ {c} : cmd'[d] = cmd[d]
      BY <1>3, <2>1, <2>2 DEF RunTypes
    <3>2. IndexTypes'
      BY <1>3, <2>1, <2>2, <3>1 DEF RunTypes
    <3>3. ASSUME disturbed' = disturbed \union Overlapping', NEW s \in Runs \ disturbed' PROVE RunIndexed(s)'
      <4>1. s \in Runs \ disturbed /\ RunApart(s)' /\ RunIndexed(s)
        BY <1>2, <3>3
      <4>2. RunWorked(s)'
        BY <1>3, <4>1, <2>1, <2>2, <3>1 DEF RunTypes, RunIndexed, RunWorked, Making, Drafting, RunApart
      <4>3. RunReadable(s)'
        BY <1>3, <4>1, <2>1, <2>2, <3>1 DEF RunTypes, RunIndexed, RunWorked, RunReadable, RunApart
      <4>4. RunListed(s)'
        BY <1>3, <4>1, <2>1, <2>2, <3>1 DEF RunTypes, RunIndexed, RunWorked, RunReadable, RunListed, RunApart
      <4>5. RunCounted(s)'
        BY <1>3, <4>1, <2>1, <2>2, <3>1 DEF RunTypes, RunIndexed, RunWorked, RunListed, RunCounted, RunApart, Making, Drafting
      <4> QED  BY <4>1, <4>2, <4>3, <4>4, <4>5 DEF RunIndexed
    <3> QED  BY <3>2, <3>3
  <2>3. CASE cmd[c].at = "syncMark"
    <3>1. cmd'[c] = [at |-> "append", run |-> r] /\ \A d \in Commands \ {c} : cmd'[d] = cmd[d]
      BY <1>3, <2>1, <2>3 DEF RunTypes
    <3>2. IndexTypes'
      BY <1>3, <2>1, <2>3, <3>1 DEF RunTypes
    <3>3. ASSUME disturbed' = disturbed \union Overlapping', NEW s \in Runs \ disturbed' PROVE RunIndexed(s)'
      <4>1. s \in Runs \ disturbed /\ RunApart(s)' /\ RunIndexed(s)
        BY <1>2, <3>3
      <4>2. RunWorked(s)'
        BY <1>3, <4>1, <2>1, <2>3, <3>1 DEF RunTypes, RunIndexed, RunWorked, Making, Drafting, RunApart
      <4>3. RunReadable(s)'
        BY <1>3, <4>1, <2>1, <2>3, <3>1 DEF RunTypes, RunIndexed, RunWorked, RunReadable, RunApart
      <4>4. RunListed(s)'
        BY <1>3, <4>1, <2>1, <2>3, <3>1 DEF RunTypes, RunIndexed, RunWorked, RunReadable, RunListed, RunApart
      <4>5. RunCounted(s)'
        BY <1>3, <4>1, <2>1, <2>3, <3>1 DEF RunTypes, RunIndexed, RunWorked, RunListed, RunCounted, RunApart, Making, Drafting
      <4> QED  BY <4>1, <4>2, <4>3, <4>4, <4>5 DEF RunIndexed
    <3> QED  BY <3>2, <3>3
  <2> QED  BY <2>1, <2>2, <2>3
<1>7. ASSUME NEW c \in Commands, RenameRun(c) PROVE IndexTypes' /\ Keeps
  <2> DEFINE r == cmd[c].run
  <2>1. /\ cmd[c].at = "rename" /\ cmd' = [cmd EXCEPT ![c].at = "syncParent"]
        /\ dir' = [dir EXCEPT ![r] = "final"] /\ r \in Runs
        /\ UNCHANGED <<fresh, files, rows, tmpIndex, listed>>
    BY <1>7 DEF RenameRun, IndexInv, RunInv, Drafts, Making, Drafting
  <2>8. IndexTypes'
    BY <1>3, <2>1 DEF RunTypes
  <2>9. ASSUME disturbed' = disturbed \union Overlapping', NEW s \in Runs \ disturbed' PROVE RunIndexed(s)'
    <3>1. s \in Runs \ disturbed /\ RunApart(s)' /\ RunIndexed(s)
      BY <1>2, <2>9
    <3>2. RunWorked(s)'
      BY <1>3, <3>1, <2>1 DEF RunTypes, RunIndexed, RunWorked, Making, Drafting, RunApart
    <3>3. RunReadable(s)'
      BY <1>3, <3>1, <2>1 DEF RunTypes, RunIndexed, RunWorked, RunReadable, RunApart
    <3>4. RunListed(s)'
      BY <1>3, <3>1, <2>1 DEF RunTypes, RunIndexed, RunWorked, RunReadable, RunListed, RunApart
    <3>5. RunCounted(s)'
      BY <1>3, <3>1, <2>1 DEF RunTypes, RunIndexed, RunWorked, RunListed, RunCounted, RunApart, Making, Drafting
    <3> QED  BY <3>1, <3>2, <3>3, <3>4, <3>5 DEF RunIndexed
  <2> QED  BY <2>8, <2>9
<1>8. ASSUME NEW c \in Commands, SyncParent(c) PROVE IndexTypes' /\ Keeps
  <2> DEFINE r == cmd[c].run
  <2>1. /\ cmd[c].at = "syncParent" /\ cmd' = [cmd EXCEPT ![c].at = "mark"]
        /\ UNCHANGED <<fresh, dir, files, rows, tmpIndex, listed>>
    BY <1>8 DEF SyncParent
  <2>8. IndexTypes'
    BY <1>3, <2>1 DEF RunTypes
  <2>9. ASSUME disturbed' = disturbed \union Overlapping', NEW s \in Runs \ disturbed' PROVE RunIndexed(s)'
    <3>1. s \in Runs \ disturbed /\ RunApart(s)' /\ RunIndexed(s)
      BY <1>2, <2>9
    <3>2. RunWorked(s)'
      BY <1>3, <3>1, <2>1 DEF RunTypes, RunIndexed, RunWorked, Making, Drafting, RunApart
    <3>3. RunReadable(s)'
      BY <1>3, <3>1, <2>1 DEF RunTypes, RunIndexed, RunWorked, RunReadable, RunApart
    <3>4. RunListed(s)'
      BY <1>3, <3>1, <2>1 DEF RunTypes, RunIndexed, RunWorked, RunReadable, RunListed, RunApart
    <3>5. RunCounted(s)'
      BY <1>3, <3>1, <2>1 DEF RunTypes, RunIndexed, RunWorked, RunListed, RunCounted, RunApart, Making, Drafting
    <3> QED  BY <3>1, <3>2, <3>3, <3>4, <3>5 DEF RunIndexed
  <2> QED  BY <2>8, <2>9
<1>9. ASSUME NEW c \in Commands, MarkComplete(c) PROVE IndexTypes' /\ Keeps
  <2> DEFINE r == cmd[c].run
  <2>1. /\ cmd[c].at = "mark" /\ r \in Runs /\ UNCHANGED <<fresh, dir, rows, tmpIndex, listed>>
        /\ \/ dir[r] = "none" /\ cmd' = [cmd EXCEPT ![c] = Idling] /\ UNCHANGED files
           \/ /\ cmd' = [cmd EXCEPT ![c].at = "syncMark"]
              /\ files' = [files EXCEPT ![r] = @ \union {Complete}]
    BY <1>9 DEF MarkComplete, IndexInv, RunInv, Drafts, Making, Drafting
  <2>2. CASE dir[r] = "none" /\ cmd' = [cmd EXCEPT ![c] = Idling] /\ UNCHANGED files
    <3>1. cmd'[c] = Idling /\ \A d \in Commands \ {c} : cmd'[d] = cmd[d]
      BY <1>3, <2>1, <2>2 DEF RunTypes
    <3>2. IndexTypes'
      BY <1>3, <2>1, <2>2, <3>1 DEF RunTypes
    <3>3. ASSUME disturbed' = disturbed \union Overlapping', NEW s \in Runs \ disturbed' PROVE RunIndexed(s)'
      <4>1. s \in Runs \ disturbed /\ RunApart(s)' /\ RunIndexed(s)
        BY <1>2, <3>3
      <4>2. RunWorked(s)'
        BY <1>3, <4>1, <2>1, <2>2, <3>1 DEF RunTypes, RunIndexed, RunWorked, Making, Drafting, RunApart
      <4>3. RunReadable(s)'
        BY <1>3, <4>1, <2>1, <2>2, <3>1 DEF RunTypes, RunIndexed, RunWorked, RunReadable, RunApart
      <4>4. RunListed(s)'
        BY <1>3, <4>1, <2>1, <2>2, <3>1 DEF RunTypes, RunIndexed, RunWorked, RunReadable, RunListed, RunApart
      <4>5. RunCounted(s)'
        BY <1>3, <4>1, <2>1, <2>2, <3>1 DEF RunTypes, RunIndexed, RunWorked, RunListed, RunCounted, RunApart, Making, Drafting
      <4> QED  BY <4>1, <4>2, <4>3, <4>4, <4>5 DEF RunIndexed
    <3> QED  BY <3>2, <3>3
  <2>3. CASE /\ cmd' = [cmd EXCEPT ![c].at = "syncMark"]
             /\ files' = [files EXCEPT ![r] = @ \union {Complete}]
    <3>1. cmd'[c] = [at |-> "syncMark", run |-> r] /\ \A d \in Commands \ {c} : cmd'[d] = cmd[d]
      BY <1>3, <2>1, <2>3 DEF RunTypes
    <3>2. IndexTypes'
      BY <1>3, <2>1, <2>3, <3>1 DEF RunTypes
    <3>3. ASSUME disturbed' = disturbed \union Overlapping', NEW s \in Runs \ disturbed' PROVE RunIndexed(s)'
      <4>1. s \in Runs \ disturbed /\ RunApart(s)' /\ RunIndexed(s)
        BY <1>2, <3>3
      <4>2. RunWorked(s)'
        BY <1>3, <4>1, <2>1, <2>3, <3>1 DEF RunTypes, RunIndexed, RunWorked, Making, Drafting, RunApart
      <4>3. RunReadable(s)'
        BY <1>3, <4>1, <2>1, <2>3, <3>1 DEF RunTypes, RunIndexed, RunWorked, RunReadable, RunApart
      <4>4. RunListed(s)'
        BY <1>3, <4>1, <2>1, <2>3, <3>1 DEF RunTypes, RunIndexed, RunWorked, RunReadable, RunListed, RunApart
      <4>5. RunCounted(s)'
        BY <1>3, <4>1, <2>1, <2>3, <3>1 DEF RunTypes, RunIndexed, RunWorked, RunListed, RunCounted, RunApart, Making, Drafting
      <4> QED  BY <4>1, <4>2, <4>3, <4>4, <4>5 DEF RunIndexed
    <3> QED  BY <3>2, <3>3
  <2> QED  BY <2>1, <2>2, <2>3
<1>10. ASSUME NEW c \in Commands, AppendIndex(c) PROVE IndexTypes' /\ Keeps
  <2> DEFINE r == cmd[c].run
  <2>1. /\ cmd[c].at = "append" /\ cmd' = [cmd EXCEPT ![c] = Idling] /\ r \in Runs \ fresh
        /\ rows' = [rows EXCEPT ![r] = @ + 1] /\ UNCHANGED <<fresh, dir, files, tmpIndex, listed>>
    BY <1>10 DEF AppendIndex, IndexInv, RunInv, Drafts, Making, Drafting
  <2>8. IndexTypes'
    BY <1>3, <2>1 DEF RunTypes
  <2>9. ASSUME disturbed' = disturbed \union Overlapping', NEW s \in Runs \ disturbed' PROVE RunIndexed(s)'
    <3>1. s \in Runs \ disturbed /\ RunApart(s)' /\ RunIndexed(s)
      BY <1>2, <2>9
    <3>2. RunWorked(s)'
      BY <1>3, <3>1, <2>1 DEF RunTypes, RunIndexed, RunWorked, Making, Drafting, RunApart
    <3>3. RunReadable(s)'
      BY <1>3, <3>1, <2>1 DEF RunTypes, RunIndexed, RunWorked, RunReadable, RunApart
    <3>4. RunListed(s)'
      BY <1>3, <3>1, <2>1 DEF RunTypes, RunIndexed, RunWorked, RunReadable, RunListed, RunApart
    <3>5. RunCounted(s)'
      BY <1>3, <3>1, <2>1 DEF RunTypes, RunIndexed, RunWorked, RunListed, RunCounted, RunApart, Making, Drafting
    <3> QED  BY <3>1, <3>2, <3>3, <3>4, <3>5 DEF RunIndexed
  <2> QED  BY <2>8, <2>9
<1>11. ASSUME NEW c \in Commands, StartDelete(c) PROVE IndexTypes' /\ Keeps
  <2>1. PICK r \in Runs : dir[r] = "final" /\ cmd' = [cmd EXCEPT ![c] = [at |-> "unlink", run |-> r]]
    BY <1>11 DEF StartDelete
  <2>2. cmd[c].at = "idle" /\ UNCHANGED <<fresh, dir, files, rows, tmpIndex, listed>> /\ r \notin fresh
    BY <1>11, <2>1 DEF StartDelete, IndexInv, RunInv, Drafts
  <2>8. IndexTypes'
    BY <1>3, <2>1, <2>2 DEF RunTypes
  <2>9. ASSUME disturbed' = disturbed \union Overlapping', NEW s \in Runs \ disturbed' PROVE RunIndexed(s)'
    <3>1. s \in Runs \ disturbed /\ RunApart(s)' /\ RunIndexed(s)
      BY <1>2, <2>9
    <3>2. RunWorked(s)'
      BY <1>3, <3>1, <2>1, <2>2 DEF RunTypes, RunIndexed, RunWorked, Making, Drafting, RunApart
    <3>3. RunReadable(s)'
      BY <1>3, <3>1, <2>1, <2>2 DEF RunTypes, RunIndexed, RunWorked, RunReadable, RunApart
    <3>4. RunListed(s)'
      BY <1>3, <3>1, <2>1, <2>2 DEF RunTypes, RunIndexed, RunWorked, RunReadable, RunListed, RunApart
    <3>5. RunCounted(s)'
      BY <1>3, <3>1, <2>1, <2>2 DEF RunTypes, RunIndexed, RunWorked, RunListed, RunCounted, RunApart, Making, Drafting
    <3> QED  BY <3>1, <3>2, <3>3, <3>4, <3>5 DEF RunIndexed
  <2> QED  BY <2>8, <2>9
<1>12. ASSUME NEW c \in Commands, Unlink(c) PROVE IndexTypes' /\ Keeps
  <2> DEFINE r == cmd[c].run
  <2>1. /\ cmd[c].at = "unlink" /\ r \in Runs /\ UNCHANGED <<fresh, rows, tmpIndex, listed>>
        /\ \/ /\ \E f \in files[r] : files' = [files EXCEPT ![r] = @ \ {f}]
              /\ UNCHANGED <<dir, cmd>>
           \/ /\ dir' = [dir EXCEPT ![r] = "none"] /\ cmd' = [cmd EXCEPT ![c].at = "scan"]
              /\ UNCHANGED files
           \/ /\ dir[r] = "none" \/ \E d \in Commands \ {c} : cmd[d].run = r
              /\ cmd' = [cmd EXCEPT ![c] = Idling] /\ UNCHANGED <<dir, files>>
    BY <1>3, <1>12 DEF Unlink
  <2>2. CASE /\ \E f \in files[r] : files' = [files EXCEPT ![r] = @ \ {f}]
             /\ UNCHANGED <<dir, cmd>>
    <3>1. cmd'[c] = cmd[c] /\ \A d \in Commands \ {c} : cmd'[d] = cmd[d]
      BY <1>3, <2>1, <2>2 DEF RunTypes
    <3>2. IndexTypes'
      BY <1>3, <2>1, <2>2, <3>1 DEF RunTypes
    <3>3. ASSUME disturbed' = disturbed \union Overlapping', NEW s \in Runs \ disturbed' PROVE RunIndexed(s)'
      <4>1. s \in Runs \ disturbed /\ RunApart(s)' /\ RunIndexed(s)
        BY <1>2, <3>3
      <4>2. RunWorked(s)'
        BY <1>3, <4>1, <2>1, <2>2, <3>1 DEF RunTypes, RunIndexed, RunWorked, Making, Drafting, RunApart
      <4>3. RunReadable(s)'
        BY <1>3, <4>1, <2>1, <2>2, <3>1 DEF RunTypes, RunIndexed, RunWorked, RunReadable, RunApart
      <4>4. RunListed(s)'
        BY <1>3, <4>1, <2>1, <2>2, <3>1 DEF RunTypes, RunIndexed, RunWorked, RunReadable, RunListed, RunApart
      <4>5. RunCounted(s)'
        BY <1>3, <4>1, <2>1, <2>2, <3>1 DEF RunTypes, RunIndexed, RunWorked, RunListed, RunCounted, RunApart, Making, Drafting
      <4> QED  BY <4>1, <4>2, <4>3, <4>4, <4>5 DEF RunIndexed
    <3> QED  BY <3>2, <3>3
  <2>3. CASE /\ dir' = [dir EXCEPT ![r] = "none"] /\ cmd' = [cmd EXCEPT ![c].at = "scan"]
             /\ UNCHANGED files
    <3>1. cmd'[c] = [at |-> "scan", run |-> r] /\ \A d \in Commands \ {c} : cmd'[d] = cmd[d]
      BY <1>3, <2>1, <2>3 DEF RunTypes
    <3>2. IndexTypes'
      BY <1>3, <2>1, <2>3, <3>1 DEF RunTypes
    <3>3. ASSUME disturbed' = disturbed \union Overlapping', NEW s \in Runs \ disturbed' PROVE RunIndexed(s)'
      <4>1. s \in Runs \ disturbed /\ RunApart(s)' /\ RunIndexed(s)
        BY <1>2, <3>3
      <4>2. RunWorked(s)'
        BY <1>3, <4>1, <2>1, <2>3, <3>1 DEF RunTypes, RunIndexed, RunWorked, Making, Drafting, RunApart
      <4>3. RunReadable(s)'
        BY <1>3, <4>1, <2>1, <2>3, <3>1 DEF RunTypes, RunIndexed, RunWorked, RunReadable, RunApart
      <4>4. RunListed(s)'
        BY <1>3, <4>1, <2>1, <2>3, <3>1 DEF RunTypes, RunIndexed, RunWorked, RunReadable, RunListed, RunApart
      <4>5. RunCounted(s)'
        BY <1>3, <4>1, <2>1, <2>3, <3>1 DEF RunTypes, RunIndexed, RunWorked, RunListed, RunCounted, RunApart, Making, Drafting
      <4> QED  BY <4>1, <4>2, <4>3, <4>4, <4>5 DEF RunIndexed
    <3> QED  BY <3>2, <3>3
  <2>4. CASE /\ dir[r] = "none" \/ \E d \in Commands \ {c} : cmd[d].run = r
             /\ cmd' = [cmd EXCEPT ![c] = Idling] /\ UNCHANGED <<dir, files>>
    <3>1. cmd'[c] = Idling /\ \A d \in Commands \ {c} : cmd'[d] = cmd[d]
      BY <1>3, <2>1, <2>4 DEF RunTypes
    <3>2. IndexTypes'
      BY <1>3, <2>1, <2>4, <3>1 DEF RunTypes
    <3>3. ASSUME disturbed' = disturbed \union Overlapping', NEW s \in Runs \ disturbed' PROVE RunIndexed(s)'
      <4>1. s \in Runs \ disturbed /\ RunApart(s)' /\ RunIndexed(s)
        BY <1>2, <3>3
      <4>2. RunWorked(s)'
        BY <1>3, <4>1, <2>1, <2>4, <3>1 DEF RunTypes, RunIndexed, RunWorked, Making, Drafting, RunApart
      <4>3. RunReadable(s)'
        <5>1. CASE s = r
          <6>1. dir[r] = "none"
            BY <2>1, <2>4, <4>1, <5>1 DEF RunIndexed, RunApart
          <6> QED  BY <2>4, <5>1, <6>1 DEF RunReadable
        <5>2. CASE s # r
          <6>1. Published(s)' => Published(s)
            BY <2>4
          <6>2. (\A d \in Commands : cmd'[d].at = "unlink" => cmd'[d].run # s)
                  => \A d \in Commands : cmd[d].at = "unlink" => cmd[d].run # s
            BY <3>1, <5>2
          <6> QED  BY <2>4, <4>1, <6>1, <6>2 DEF RunIndexed, RunReadable
        <5> QED  BY <5>1, <5>2
      <4>4. RunListed(s)'
        BY <1>3, <4>1, <2>1, <2>4, <3>1 DEF RunTypes, RunIndexed, RunWorked, RunReadable, RunListed, RunApart
      <4>5. RunCounted(s)'
        BY <1>3, <4>1, <2>1, <2>4, <3>1 DEF RunTypes, RunIndexed, RunWorked, RunListed, RunCounted, RunApart, Making, Drafting
      <4> QED  BY <4>1, <4>2, <4>3, <4>4, <4>5 DEF RunIndexed
    <3> QED  BY <3>2, <3>3
  <2> QED  BY <2>1, <2>2, <2>3, <2>4
<1>13. ASSUME NEW c \in Commands, StartRebuild(c) PROVE IndexTypes' /\ Keeps
  <2> DEFINE r == cmd[c].run
  <2>1. /\ cmd[c].at = "idle" /\ r = NoRun /\ cmd' = [cmd EXCEPT ![c].at = "scan"]
        /\ UNCHANGED <<fresh, dir, files, rows, tmpIndex, listed>>
    BY <1>3, <1>13 DEF StartRebuild
  <2>8. IndexTypes'
    BY <1>3, <2>1 DEF RunTypes
  <2>9. ASSUME disturbed' = disturbed \union Overlapping', NEW s \in Runs \ disturbed' PROVE RunIndexed(s)'
    <3>1. s \in Runs \ disturbed /\ RunApart(s)' /\ RunIndexed(s)
      BY <1>2, <2>9
    <3>2. RunWorked(s)'
      BY <1>3, <3>1, <2>1 DEF RunTypes, RunIndexed, RunWorked, Making, Drafting, RunApart
    <3>3. RunReadable(s)'
      BY <1>3, <3>1, <2>1 DEF RunTypes, RunIndexed, RunWorked, RunReadable, RunApart
    <3>4. RunListed(s)'
      BY <1>3, <3>1, <2>1 DEF RunTypes, RunIndexed, RunWorked, RunReadable, RunListed, RunApart
    <3>5. RunCounted(s)'
      BY <1>3, <3>1, <2>1 DEF RunTypes, RunIndexed, RunWorked, RunListed, RunCounted, RunApart, Making, Drafting
    <3> QED  BY <3>1, <3>2, <3>3, <3>4, <3>5 DEF RunIndexed
  <2> QED  BY <2>8, <2>9
<1>14. ASSUME NEW c \in Commands, Scan(c) PROVE IndexTypes' /\ Keeps
  <2> DEFINE r == cmd[c].run
  <2>1. /\ cmd[c].at = "scan" /\ cmd' = [cmd EXCEPT ![c].at = "dump"]
        /\ listed' = [listed EXCEPT ![c] = {q \in Runs : Published(q) /\ Parts \subseteq files[q]}]
        /\ UNCHANGED <<fresh, dir, files, rows, tmpIndex>>
    BY <1>14 DEF Scan
  <2>8. IndexTypes'
    <3>1. \A q \in fresh : ~Published(q)
      BY DEF IndexInv, RunInv, Drafts
    <3>2. listed' \in [Commands -> SUBSET Runs] /\ \A q \in fresh, d \in Commands : q \notin listed'[d]
      BY <1>3, <2>1, <3>1
    <3> QED  BY <1>3, <2>1, <3>2 DEF RunTypes
  <2>9. ASSUME disturbed' = disturbed \union Overlapping', NEW s \in Runs \ disturbed' PROVE RunIndexed(s)'
    <3>1. s \in Runs \ disturbed /\ RunApart(s)' /\ RunIndexed(s)
      BY <1>2, <2>9
    <3>2. RunWorked(s)'
      BY <1>3, <3>1, <2>1 DEF RunTypes, RunIndexed, RunWorked, Making, Drafting, RunApart
    <3>3. RunReadable(s)'
      BY <1>3, <3>1, <2>1 DEF RunTypes, RunIndexed, RunWorked, RunReadable, RunApart
    <3>4. RunListed(s)'
      BY <1>3, <3>1, <2>1 DEF RunTypes, RunIndexed, RunWorked, RunReadable, RunListed, RunApart
    <3>5. RunCounted(s)'
      BY <1>3, <3>1, <2>1 DEF RunTypes, RunIndexed, RunWorked, RunListed, RunCounted, RunApart, Making, Drafting
    <3> QED  BY <3>1, <3>2, <3>3, <3>4, <3>5 DEF RunIndexed
  <2> QED  BY <2>8, <2>9
<1>15. ASSUME NEW c \in Commands, DumpIndex(c) PROVE IndexTypes' /\ Keeps
  <2> DEFINE r == cmd[c].run
  <2>1. /\ cmd[c].at = "dump" /\ cmd' = [cmd EXCEPT ![c].at = "replace"]
        /\ tmpIndex' = listed[c] /\ listed[c] \subseteq Runs /\ listed[c] # NoRun
        /\ UNCHANGED <<fresh, dir, files, rows, listed>>
    BY <1>3, <1>15 DEF DumpIndex
  <2>8. IndexTypes'
    BY <1>3, <2>1 DEF RunTypes
  <2>9. ASSUME disturbed' = disturbed \union Overlapping', NEW s \in Runs \ disturbed' PROVE RunIndexed(s)'
    <3>1. s \in Runs \ disturbed /\ RunApart(s)' /\ RunIndexed(s)
      BY <1>2, <2>9
    <3>2. RunWorked(s)'
      BY <1>3, <3>1, <2>1 DEF RunTypes, RunIndexed, RunWorked, Making, Drafting, RunApart
    <3>3. RunReadable(s)'
      BY <1>3, <3>1, <2>1 DEF RunTypes, RunIndexed, RunWorked, RunReadable, RunApart
    <3>4. RunListed(s)'
      BY <1>3, <3>1, <2>1 DEF RunTypes, RunIndexed, RunWorked, RunReadable, RunListed, RunApart
    <3>5. RunCounted(s)'
      BY <1>3, <3>1, <2>1 DEF RunTypes, RunIndexed, RunWorked, RunListed, RunCounted, RunApart, Making, Drafting
    <3> QED  BY <3>1, <3>2, <3>3, <3>4, <3>5 DEF RunIndexed
  <2> QED  BY <2>8, <2>9
<1>16. ASSUME NEW c \in Commands, ReplaceIndex(c) PROVE IndexTypes' /\ Keeps
  <2> DEFINE r == cmd[c].run
  <2>1. /\ cmd[c].at = "replace" /\ cmd' = [cmd EXCEPT ![c] = Idling]
        /\ rows' = IF tmpIndex = NoRun THEN rows ELSE [q \in Runs |-> IF q \in tmpIndex THEN 1 ELSE 0]
        /\ tmpIndex' = NoRun /\ listed' = [listed EXCEPT ![c] = {}] /\ UNCHANGED <<fresh, dir, files>>
    BY <1>16 DEF ReplaceIndex
  <2>2. CASE tmpIndex = NoRun /\ rows' = rows
    <3>1. cmd'[c] = Idling /\ \A d \in Commands \ {c} : cmd'[d] = cmd[d]
      BY <1>3, <2>1, <2>2 DEF RunTypes
    <3>2. IndexTypes'
      BY <1>3, <2>1, <2>2, <3>1 DEF RunTypes
    <3>3. ASSUME disturbed' = disturbed \union Overlapping', NEW s \in Runs \ disturbed' PROVE RunIndexed(s)'
      <4>1. s \in Runs \ disturbed /\ RunApart(s)' /\ RunIndexed(s)
        BY <1>2, <3>3
      <4>2. RunWorked(s)'
        BY <1>3, <4>1, <2>1, <2>2, <3>1 DEF RunTypes, RunIndexed, RunWorked, Making, Drafting, RunApart
      <4>3. RunReadable(s)'
        BY <1>3, <4>1, <2>1, <2>2, <3>1 DEF RunTypes, RunIndexed, RunWorked, RunReadable, RunApart
      <4>4. RunListed(s)'
        BY <1>3, <4>1, <2>1, <2>2, <3>1 DEF RunTypes, RunIndexed, RunWorked, RunReadable, RunListed, RunApart
      <4>5. RunCounted(s)'
        BY <1>3, <4>1, <2>1, <2>2, <3>1 DEF RunTypes, RunIndexed, RunWorked, RunListed, RunCounted, RunApart, Making, Drafting
      <4> QED  BY <4>1, <4>2, <4>3, <4>4, <4>5 DEF RunIndexed
    <3> QED  BY <3>2, <3>3
  <2>3. CASE tmpIndex # NoRun /\ rows' = [q \in Runs |-> IF q \in tmpIndex THEN 1 ELSE 0]
    <3>1. cmd'[c] = Idling /\ \A d \in Commands \ {c} : cmd'[d] = cmd[d]
      BY <1>3, <2>1, <2>3 DEF RunTypes
    <3>2. IndexTypes'
      <4>1. rows' \in [Runs -> Nat] /\ \A fr \in fresh' : rows'[fr] = 0
        BY <1>3, <2>1, <2>3 DEF RunTypes
      <4>2. listed' \in [Commands -> SUBSET Runs]
        BY <1>3, <2>1
      <4> QED  BY <1>3, <2>1, <2>3, <3>1, <4>1, <4>2 DEF RunTypes
    <3>3. ASSUME disturbed' = disturbed \union Overlapping', NEW s \in Runs \ disturbed' PROVE RunIndexed(s)'
      <4>1. s \in Runs \ disturbed /\ RunApart(s)' /\ RunIndexed(s)
        BY <1>2, <3>3
      <4>2. RunWorked(s)'
        BY <1>3, <4>1, <2>1, <2>3, <3>1
        DEF RunTypes, RunIndexed, RunWorked, RunListed, Making, Drafting, RunApart
      <4>3. RunReadable(s)'
        BY <1>3, <4>1, <2>1, <2>3, <3>1 DEF RunTypes, RunIndexed, RunWorked, RunReadable, RunApart
      <4>4. RunListed(s)'
        BY <1>3, <4>1, <2>1, <2>3, <3>1 DEF RunTypes, RunIndexed, RunWorked, RunReadable, RunListed, RunApart
      <4>5. RunCounted(s)'
        BY <1>3, <4>1, <2>1, <2>3, <3>1 DEF RunTypes, RunIndexed, RunWorked, RunListed, RunCounted, RunApart, Making, Drafting
      <4> QED  BY <4>1, <4>2, <4>3, <4>4, <4>5 DEF RunIndexed
    <3> QED  BY <3>2, <3>3
  <2> QED  BY <2>1, <2>2, <2>3
<1>17. ASSUME NEW c \in Commands, Killed(c) PROVE IndexInv'
  <2> DEFINE r == cmd[c].run
  <2>1. /\ cmd' = [cmd EXCEPT ![c] = Idling] /\ listed' = [listed EXCEPT ![c] = {}]
        /\ UNCHANGED <<fresh, dir, files, rows, tmpIndex>>
        /\ disturbed' = disturbed \union Settling(c)
    BY <1>17 DEF Killed
  <2>2. IndexTypes'
    BY <1>3, <2>1 DEF RunTypes
  <2>3. ASSUME NEW s \in Runs \ disturbed' PROVE RunIndexed(s)'
    <3>1. s \in Runs \ disturbed /\ RunIndexed(s) /\ (cmd[c].run = s => cmd[c].at \notin Indexing)
      BY <2>1, <2>3 DEF IndexInv, Settling
    <3>2. RunWorked(s)'
      BY <1>3, <3>1, <2>1 DEF RunTypes, RunIndexed, RunWorked, Making, Drafting, RunApart
    <3>3. RunReadable(s)'
      BY <1>3, <3>1, <2>1 DEF RunTypes, RunIndexed, RunWorked, RunReadable, RunApart
    <3>4. RunListed(s)'
      BY <1>3, <3>1, <2>1 DEF RunTypes, RunIndexed, RunWorked, RunReadable, RunListed, RunApart
    <3>5. RunCounted(s)'
      BY <1>3, <3>1, <2>1 DEF RunTypes, RunIndexed, RunWorked, RunListed, RunCounted, RunApart, Making, Drafting
    <3>6. RunApart(s)'
      BY <1>3, <3>1, <2>1 DEF RunTypes, RunIndexed, RunApart
    <3> QED  BY <3>2, <3>3, <3>4, <3>5, <3>6 DEF RunIndexed
  <2> QED  BY <1>1, <2>2, <2>3 DEF IndexInv
<1>18. CASE PowerFails
  <2>1. /\ cmd' = [c \in Commands |-> Idling] /\ listed' = [c \in Commands |-> {}]
        /\ UNCHANGED <<fresh, rows, tmpIndex>>
        /\ \A r \in Runs : dir'[r] \in NamesAfter(r)
        /\ \A r \in Runs : IF dir'[r] = "none" THEN files'[r] = {} ELSE files'[r] \in FilesAfter(r)
        /\ disturbed' = disturbed \union (UNION {Settling(c) : c \in Commands})
                                  \union {r \in Runs : r \notin settled \/ files[r] # durable[r]}
    BY <1>18 DEF PowerFails
  <2>2. IndexTypes'
    BY <1>3, <2>1 DEF RunTypes
  <2>3. ASSUME NEW s \in Runs \ disturbed' PROVE RunIndexed(s)'
    <3>1. /\ s \in Runs \ disturbed /\ RunIndexed(s) /\ s \in settled /\ files[s] = durable[s]
          /\ \A c \in Commands : s \notin Settling(c)
      <4>1. disturbed \subseteq disturbed' /\ UNION {Settling(c) : c \in Commands} \subseteq disturbed'
            /\ {r \in Runs : r \notin settled \/ files[r] # durable[r]} \subseteq disturbed'
        <5> DEFINE all == UNION {Settling(c) : c \in Commands}
                   torn == {r \in Runs : r \notin settled \/ files[r] # durable[r]}
        <5>1. disturbed' = disturbed \union all \union torn
          BY <2>1
        <5> HIDE DEF all, torn
        <5>2. disturbed \subseteq disturbed' /\ all \subseteq disturbed' /\ torn \subseteq disturbed'
          BY <5>1
        <5> QED  BY <5>2 DEF all, torn
      <4>2. \A c \in Commands : Settling(c) \subseteq disturbed'
        BY <4>1
      <4> QED  BY <2>3, <4>1, <4>2 DEF IndexInv
    <3>4. \A c \in Commands : cmd[c].run = s => cmd[c].at \notin Indexing
      BY <3>1 DEF Settling
    <3>2. dir'[s] = dir[s]
      <4>1. dir'[s] \in NamesAfter(s)
        BY <2>1, <3>1
      <4> QED  BY <3>1, <4>1 DEF NamesAfter
    <3>3. dir[s] # "none" => files'[s] = files[s]
      <4>1. dir[s] # "none" => files'[s] \in FilesAfter(s)
        BY <2>1, <3>1, <3>2
      <4> QED  BY <3>1, <4>1 DEF FilesAfter
    <3> QED
      BY <1>3, <3>1, <3>2, <3>3, <3>4, <2>1
      DEF RunTypes, RunIndexed, RunApart, RunWorked, RunReadable, RunListed, RunCounted, Making, Drafting
  <2> QED  BY <1>1, <2>2, <2>3 DEF IndexInv
<1>19. CASE UNCHANGED arenaVars
  <2>1. IndexTypes' /\ \A r \in Runs \ disturbed' : RunIndexed(r)'
    BY <1>3, <1>19 DEF arenaVars, IndexInv, RunIndexed, RunApart, RunWorked, RunReadable, RunListed, RunCounted,
                       Making, Drafting
  <2> QED  BY <1>1, <2>1 DEF IndexInv
<1>20. ASSUME NEW c \in Commands, ArenaStep(c), disturbed' = disturbed \union Overlapping' PROVE IndexInv'
  <2>1. IndexTypes' /\ Keeps
    BY <1>4, <1>5, <1>6, <1>7, <1>8, <1>9, <1>10, <1>11, <1>12, <1>13, <1>14, <1>15, <1>16, <1>20 DEF ArenaStep
  <2> QED  BY <1>1, <1>20, <2>1 DEF IndexInv
<1> QED  BY <1>17, <1>18, <1>19, <1>20 DEF ArenaNext

\* The index agrees with the runs, whatever order the commands and the crashes
\* fall in (ArenaStore._append_index, rebuild_index).
THEOREM IndexStaysRight == ArenaSpec => []IndexMatches
<1>1. IndexInv => IndexMatches
  BY ArenaAssumption DEF IndexInv, RunIndexed, RunCounted, IndexMatches, Settling, Indexing
<1> QED  BY <1>1, IndexStart, IndexStep, PTL DEF ArenaSpec

-----------------------------------------------------------------------------
\* The states of the plugins: everything that is cached has its module, what
\* is listed is cached and not shut down.
LoadedStates ==
    [listed : SUBSET Plugins, instance : [Plugins -> PluginStates],
     cached : SUBSET Plugins, module : [Plugins -> Modules]]

Sound(l, i, c, m) ==
    l \subseteq c /\ (\A p \in c : m[p] \in {"ready", "broken"}) /\ (\A p \in l : i[p] # "stopped")

SoundStates == {s \in LoadedStates : Sound(s.listed, s.instance, s.cached, s.module)}

\* Loading keeps a sound state sound, whether it returns or raises.
LEMMA LoadsSound ==
    ASSUME NEW p \in Plugins, NEW s \in SoundStates
    PROVE  /\ LoaderReturns(s, p) \subseteq SoundStates /\ LoaderRaises(s, p) \subseteq SoundStates
           /\ ManagerLoads(s, p) \subseteq SoundStates
<1>1. s \in LoadedStates /\ Sound(s.listed, s.instance, s.cached, s.module)
  BY DEF SoundStates
<1>2. ASSUME NEW n \in {"ready", "broken"}
      PROVE  Cached(s, p, n) \in SoundStates /\ p \in Cached(s, p, n).cached
  <2> DEFINE t == Cached(s, p, n)
  <2>1. /\ t \in LoadedStates /\ t.listed = s.listed /\ t.instance = s.instance
        /\ t.cached = s.cached \union {p} /\ t.module = [s.module EXCEPT ![p] = n]
    BY <1>1 DEF Cached, LoadedStates, Modules
  <2>2. Sound(s.listed, s.instance, s.cached \union {p}, [s.module EXCEPT ![p] = n])
    BY <1>1 DEF Sound, LoadedStates
  <2> HIDE DEF t
  <2>3. t \in SoundStates /\ p \in t.cached
    BY <2>1, <2>2 DEF SoundStates
  <2> QED  BY <2>3 DEF t
<1>3. \A t \in LoaderReturns(s, p) : t \in SoundStates /\ p \in t.cached
  BY <1>2 DEF LoaderReturns
<1>4. LoaderRaises(s, p) \subseteq SoundStates
  BY <1>2 DEF LoaderRaises
<1>5. ASSUME NEW t \in LoaderReturns(s, p)
      PROVE  [t EXCEPT !.listed = @ \union {p}, !.instance[p] = "running"] \in SoundStates
  <2> DEFINE u == [t EXCEPT !.listed = @ \union {p}, !.instance[p] = "running"]
  <2>1. t \in LoadedStates /\ Sound(t.listed, t.instance, t.cached, t.module) /\ p \in t.cached
    BY <1>3, <1>5 DEF SoundStates
  <2>2. /\ u \in LoadedStates /\ u.listed = t.listed \union {p} /\ u.instance = [t.instance EXCEPT ![p] = "running"]
        /\ u.cached = t.cached /\ u.module = t.module
    BY <2>1 DEF LoadedStates, PluginStates
  <2>3. Sound(t.listed \union {p}, [t.instance EXCEPT ![p] = "running"], t.cached, t.module)
    BY <2>1 DEF Sound, LoadedStates
  <2> HIDE DEF u
  <2>4. u \in SoundStates
    BY <2>2, <2>3 DEF SoundStates
  <2> QED  BY <2>4 DEF u
<1>6. ASSUME NEW t \in ManagerLoads(s, p)
      PROVE  \/ t = s \/ t \in LoaderRaises(s, p) \/ t \in LoaderReturns(s, p)
             \/ \E u \in LoaderReturns(s, p) : t = [u EXCEPT !.listed = @ \union {p}, !.instance[p] = "running"]
  BY <1>6, Zenon DEF ManagerLoads
<1> QED  BY <1>3, <1>4, <1>5, <1>6

\* So does unloading, which strikes the plugin off the list first.
LEMMA UnloadsSound ==
    ASSUME NEW p \in Plugins, NEW s \in SoundStates
    PROVE  /\ p \notin s.listed => LoaderUnloads(s, p) \subseteq SoundStates
           /\ ManagerUnloads(s, p) \subseteq SoundStates
<1>1. ASSUME NEW t \in SoundStates, p \notin t.listed PROVE LoaderUnloads(t, p) \subseteq SoundStates
  <2> DEFINE gone == [t EXCEPT !.cached = @ \ {p}, !.module[p] = "raw"]
             bad == [t EXCEPT !.module[p] = "broken"]
  <2>1. t \in LoadedStates /\ Sound(t.listed, t.instance, t.cached, t.module)
    BY DEF SoundStates
  <2>2. /\ gone \in LoadedStates /\ gone.listed = t.listed /\ gone.instance = t.instance
        /\ gone.cached = t.cached \ {p} /\ gone.module = [t.module EXCEPT ![p] = "raw"]
    BY <2>1 DEF LoadedStates, Modules
  <2>3. /\ bad \in LoadedStates /\ bad.listed = t.listed /\ bad.instance = t.instance
        /\ bad.cached = t.cached /\ bad.module = [t.module EXCEPT ![p] = "broken"]
    BY <2>1 DEF LoadedStates, Modules
  <2>4. /\ Sound(t.listed, t.instance, t.cached \ {p}, [t.module EXCEPT ![p] = "raw"])
        /\ Sound(t.listed, t.instance, t.cached, [t.module EXCEPT ![p] = "broken"])
    BY <1>1, <2>1 DEF Sound, LoadedStates
  <2>5. LoaderUnloads(t, p) = {t} \/ LoaderUnloads(t, p) = {gone, bad}
    BY Zenon DEF LoaderUnloads
  <2> HIDE DEF gone, bad
  <2>6. gone \in SoundStates /\ bad \in SoundStates
    BY <2>2, <2>3, <2>4 DEF SoundStates
  <2> QED  BY <2>5, <2>6
<1> DEFINE ill == [s EXCEPT !.instance[p] = "faulty"]
           struck == [s EXCEPT !.instance[p] = "stopped", !.listed = @ \ {p}]
<1>2. s \in LoadedStates /\ Sound(s.listed, s.instance, s.cached, s.module)
  BY DEF SoundStates
<1>3. /\ ill \in LoadedStates /\ ill.listed = s.listed /\ ill.instance = [s.instance EXCEPT ![p] = "faulty"]
      /\ ill.cached = s.cached /\ ill.module = s.module
  BY <1>2 DEF LoadedStates, PluginStates
<1>4. /\ struck \in LoadedStates /\ struck.listed = s.listed \ {p} /\ struck.instance = [s.instance EXCEPT ![p] = "stopped"]
      /\ struck.cached = s.cached /\ struck.module = s.module
  BY <1>2 DEF LoadedStates, PluginStates
<1>5. /\ Sound(s.listed, [s.instance EXCEPT ![p] = "faulty"], s.cached, s.module)
      /\ Sound(s.listed \ {p}, [s.instance EXCEPT ![p] = "stopped"], s.cached, s.module)
  BY <1>2 DEF Sound, LoadedStates
<1>6. ManagerUnloads(s, p) = {s} \/ ManagerUnloads(s, p) = {ill} \union LoaderUnloads(struck, p)
  BY Zenon DEF ManagerUnloads
<1> HIDE DEF ill, struck
<1>7. ill \in SoundStates /\ struck \in SoundStates /\ p \notin struck.listed
  BY <1>3, <1>4, <1>5 DEF SoundStates
<1> QED  BY <1>1, <1>6, <1>7

\* The API server has no manager, and nothing is listed there.
PluginInv == loaded \in SoundStates /\ (program = "api" => loaded.listed = {})

\* Nothing is loaded at first.
LEMMA PluginsInit == PluginInit => PluginInv
  BY DEF PluginInit, PluginInv, SoundStates, LoadedStates, Sound, PluginStates, Modules

\* Every call of the manager and of the endpoints keeps it.
LEMMA PluginsStep == PluginInv /\ [PluginNext]_pluginVars => PluginInv'
<1> SUFFICES ASSUME PluginInv, [PluginNext]_pluginVars PROVE PluginInv'
  OBVIOUS
<1>1. ASSUME NEW p \in Plugins, LoadPlugin(p) \/ UnloadPlugin(p) \/ ReloadPlugin(p), UNCHANGED program
      PROVE  PluginInv'
  <2>1. program = "manager"
    BY <1>1 DEF LoadPlugin, UnloadPlugin, ReloadPlugin
  <2>2. \A s \in SoundStates : ManagerLoads(s, p) \subseteq SoundStates /\ ManagerUnloads(s, p) \subseteq SoundStates
    BY LoadsSound, UnloadsSound
  <2>3. loaded' \in SoundStates
    BY <1>1, <2>2 DEF PluginInv, LoadPlugin, UnloadPlugin, ReloadPlugin
  <2> QED  BY <1>1, <2>1, <2>3 DEF PluginInv
<1>2. ASSUME NEW p \in Plugins, LoadEndpoint(p) \/ UnloadEndpoint(p), UNCHANGED program
      PROVE  PluginInv'
  <2>1. program = "api" /\ loaded \in SoundStates /\ loaded.listed = {}
    BY <1>2 DEF LoadEndpoint, UnloadEndpoint, PluginInv
  <2>2. loaded' \in LoaderReturns(loaded, p) \union LoaderRaises(loaded, p) \union LoaderUnloads(loaded, p)
    BY <1>2 DEF LoadEndpoint, UnloadEndpoint
  <2>3. loaded' \in SoundStates
    BY <2>1, <2>2, LoadsSound, UnloadsSound
  <2>4. loaded \in LoadedStates => loaded'.listed = loaded.listed
    BY <2>2 DEF LoaderReturns, LoaderRaises, LoaderUnloads, Cached, LoadedStates
  <2> QED  BY <1>2, <2>1, <2>3, <2>4 DEF PluginInv, SoundStates
<1>3. CASE UNCHANGED pluginVars
  BY <1>3 DEF PluginInv, pluginVars
<1> QED  BY <1>1, <1>2, <1>3 DEF PluginNext

\* Whatever raised, a plugin that the manager lists has not been shut down and
\* its module is loaded and not cleaned up (PluginManager.unload_plugin).
THEOREM PluginsRun == PluginSpec => []ListedPluginsRun
<1>1. PluginInv => ListedPluginsRun
  BY DEF PluginInv, SoundStates, Sound, ListedPluginsRun
<1> QED  BY <1>1, PluginsInit, PluginsStep, PTL DEF PluginSpec

-----------------------------------------------------------------------------
\* Between its start and its end the program has the settings of its file, or
\* knows that they may differ, and the agents it talks to are of one making.
ProgramInv ==
    /\ restarts \in Nat
    /\ prompt \notin {"start", "ended"} /\ ~apart => settings \in {saved, Forced(saved)}
    /\ prompt \in {"asks", "save?", "restart?", "rebuilds"} => AgentsBelong

\* What is saved is what is in force.
LEMMA SavesSound ==
    ASSUME NEW file, NEW c, Saves(file, c), ~apart', file = named
    PROVE  saved' = c
  BY DEF Saves

\* A save to another file leaves the two apart, whether it fails or not.
LEMMA SavesElsewhere ==
    ASSUME NEW file, NEW c, Saves(file, c), file # named
    PROVE  apart'
  BY DEF Saves

\* At first no question is asked.
LEMMA ProgramInit == CommandLineInit => ProgramInv
  BY DEF CommandLineInit, ProgramInv

\* Every step of the program, and a write by another one, keeps it.
LEMMA ProgramStep == ProgramInv /\ [CommandLineNext]_commandLineVars => ProgramInv'
<1> SUFFICES ASSUME ProgramInv, [CommandLineNext]_commandLineVars
             PROVE  ProgramInv'
  OBVIOUS
<1> USE DEF ProgramInv, Goes, launch
<1>1. CASE LoadsAndAdjusts
  <2> DEFINE adjusted == Adjusted(saved)
  <2>1. /\ adjusted # saved => Saves(named, adjusted)
        /\ adjusted = saved => saved' = saved
        /\ settings' = Forced(adjusted) /\ prompt' = "checks"
        /\ UNCHANGED <<named, forced, restarts>>
    BY <1>1 DEF LoadsAndAdjusts
  <2>2. ~apart' => saved' = adjusted
    <3> HIDE DEF adjusted
    <3> QED  BY <2>1, SavesSound
  <2> HIDE DEF adjusted
  <2>3. ~apart' => settings' = Forced(saved)'
    BY <2>1, <2>2 DEF Forced
  <2> QED  BY <2>1, <2>3
<1>2. CASE ChecksStart
  BY <1>2 DEF ChecksStart, AgentsBelong, Forced
<1>3. CASE ConfiguresProvider
  BY <1>3 DEF ConfiguresProvider
<1>4. CASE GoesOnWithoutServer
  BY <1>4 DEF GoesOnWithoutServer, Forced
<1>5. CASE VerifiesModel
  <2>1. CASE UNCHANGED <<saved, settings, apart>>
    BY <1>5, <2>1 DEF VerifiesModel, Forced
  <2>2. CASE Saves(named, settings')
    <3>1. ~apart' => saved' = settings'
      BY <2>2, SavesSound
    <3> QED  BY <1>5, <3>1 DEF VerifiesModel
  <2> QED  BY <1>5, <2>1, <2>2 DEF VerifiesModel
<1>6. CASE CreatesAgents
  BY <1>6 DEF CreatesAgents, AgentsBelong, AllOf, Forced
<1>7. CASE EditsSettings
  BY <1>7 DEF EditsSettings, AgentsBelong
<1>8. CASE SavesSettings
  <2>1. Saves("config.json", settings) /\ UNCHANGED <<settings, agents, restarts>>
    BY <1>8 DEF SavesSettings
  <2>2. ~apart' => saved' = settings'
    BY <2>1, SavesSound, SavesElsewhere
  <2> QED  BY <1>8, <2>2 DEF SavesSettings, AgentsBelong
<1>9. CASE KeepsTalking
  BY <1>9 DEF KeepsTalking, AgentsBelong, Forced
<1>10. CASE Reloads
  BY <1>10 DEF Reloads, AgentsBelong, Forced
<1>11. CASE Restarts
  <2>1. CASE agents' = AllOf(restarts + 1)
    <3>1. AgentsBelong'
      BY <2>1 DEF AllOf, AgentsBelong
    <3>2. CASE settings' = reread /\ apart' = (reread # Forced(saved))
      BY <1>11, <3>1, <3>2 DEF Restarts, Forced
    <3>3. CASE UNCHANGED <<agents, settings, apart>>
      BY <1>11, <3>1, <3>3 DEF Restarts, Forced
    <3> QED  BY <1>11, <3>2, <3>3 DEF Restarts
  <2>2. CASE UNCHANGED <<agents, settings, apart>>
    BY <1>11, <2>2 DEF Restarts, AgentsBelong, Forced
  <2> QED  BY <1>11, <2>1, <2>2 DEF Restarts
<1>12. CASE RestartsHalf
  BY <1>12 DEF RestartsHalf
<1>13. CASE Leaves
  BY <1>13 DEF Leaves
<1>14. CASE OthersWrite
  BY <1>14 DEF OthersWrite, AgentsBelong
<1>15. CASE UNCHANGED commandLineVars
  BY <1>15 DEF commandLineVars, AgentsBelong, Forced
<1> QED
  BY <1>1, <1>2, <1>3, <1>4, <1>5, <1>6, <1>7, <1>8, <1>9, <1>10, <1>11, <1>12, <1>13,
     <1>14, <1>15 DEF CommandLineNext

\* While the program takes questions its agents belong together, and its settings
\* are those of its file unless something was not saved or another program wrote
\* it, for any models, limits and number of edits and restarts.
THEOREM ProgramStaysWhole == CommandLineSpec => []ProgramWhole
<1>1. ProgramInv => ProgramWhole
  BY DEF ProgramInv, ProgramWhole
<1> QED  BY <1>1, ProgramInit, ProgramStep, PTL DEF CommandLineSpec
-----------------------------------------------------------------------------
\* Where a thread can be, and for which domain.
FetchPlaces ==
    [at : {"none", "robots", "wait", "delay", "limiter", "send", "download"},
     domain : Domains \union {Never}, since : Clocked]

\* A thread that is under way has a domain.
FetchesFor == \A t \in Fetchers : fetch[t].at # "none" => fetch[t].domain \in Domains

\* The breaker has counted fewer failures than there were, as long as it
\* remembers one, and never more: it asks for a third within its timeout on top
\* of one that it did not count.
FailuresCounted ==
    \A d \in Domains :
        /\ failureCounts[d] <= broken[d].count
        /\ failedAt[d] # Never => failureCounts[d] < broken[d].count

\* The limiter remembers the grant it gave last.
LimiterRemembers ==
    \A d \in Domains : grants[d][2] = lastRequest[d] /\ (grants[d][2] = Never => grants[d][1] = Never)

FetchInv ==
    /\ FetchTypeOK /\ FetchesFor /\ FailuresCounted /\ BreakerEvidence
    /\ LimiterRemembers /\ GrantsSpaced

\* No fetch has begun.
LEMMA FetchingInit == FetchInit => FetchInv
  BY SafeFetchAssumption DEF FetchInit, FetchInv, FetchTypeOK, FetchesFor, FailuresCounted, BreakerEvidence,
       LimiterRemembers, GrantsSpaced, Clocked, Verdicts, NotFetching, FetchPlaces

\* A thread goes on, or is done.
LEMMA FetchMoves ==
    ASSUME FetchTypeOK, FetchesFor, NEW t \in Fetchers, fetch[t].at # "none",
           \/ FetchEnds(t)
           \/ \E label \in {"wait", "delay", "limiter", "send", "download"} : FetchGoes(t, label)
           \/ fetch' = [fetch EXCEPT ![t].at = "delay", ![t].since = fetchClock]
    PROVE  fetch' \in [Fetchers -> FetchPlaces] /\ FetchesFor'
<1> USE SafeFetchAssumption DEF FetchTypeOK, FetchesFor, NotFetching, FetchPlaces, Clocked
<1>1. CASE FetchEnds(t)
  BY <1>1 DEF FetchEnds
<1>2. ASSUME NEW label \in {"wait", "delay", "limiter", "send", "download"}, FetchGoes(t, label)
      PROVE  fetch' \in [Fetchers -> FetchPlaces] /\ FetchesFor'
  BY <1>2 DEF FetchGoes
<1>3. CASE fetch' = [fetch EXCEPT ![t].at = "delay", ![t].since = fetchClock]
  <2> DEFINE g == [fetch EXCEPT ![t].at = "delay"]
  <2>1. g \in [Fetchers -> FetchPlaces]
    OBVIOUS
  <2>2. \A u \in Fetchers : g[u].domain = fetch[u].domain /\ (u # t => g[u].at = fetch[u].at)
    OBVIOUS
  <2>3. fetch' = [g EXCEPT ![t].since = fetchClock]
    BY <1>3
  <2> HIDE DEF g
  <2>4. fetch' \in [Fetchers -> FetchPlaces]
    <3> DEFINE p == [g[t] EXCEPT !.since = fetchClock]
    <3>1. p \in FetchPlaces
      <4>1. g[t] \in FetchPlaces /\ fetchClock \in Clocked
        BY <2>1
      <4>2. \A q \in FetchPlaces, c \in Clocked : [q EXCEPT !.since = c] \in FetchPlaces
        BY Zenon DEF FetchPlaces
      <4> QED  BY <4>1, <4>2
    <3>2. fetch' = [g EXCEPT ![t] = p]
      BY <2>3
    <3> HIDE DEF p
    <3> QED  BY <2>1, <3>1, <3>2
  <2>5. \A u \in Fetchers : fetch'[u].domain = g[u].domain /\ fetch'[u].at = g[u].at
    <3>1. ASSUME NEW u \in Fetchers, u # t PROVE fetch'[u] = g[u]
      BY <2>1, <2>3, <3>1
    <3>2. fetch'[t] = [g[t] EXCEPT !.since = fetchClock]
      BY <2>1, <2>3
    <3>3. fetch'[t].domain = g[t].domain /\ fetch'[t].at = g[t].at
      BY <2>1, <3>2
    <3> QED  BY <3>1, <3>3
  <2> QED  BY <2>2, <2>4, <2>5
<1> QED  BY <1>1, <1>2, <1>3

\* Every step of a fetch keeps it.
LEMMA FetchingStep == FetchInv /\ [FetchNext]_fetchVars => FetchInv'
<1> SUFFICES ASSUME FetchInv, [FetchNext]_fetchVars
             PROVE  FetchInv'
  OBVIOUS
<1> USE SafeFetchAssumption DEF FetchInv, FetchTypeOK, FetchesFor, FailuresCounted, BreakerEvidence,
        LimiterRemembers, GrantsSpaced, Clocked, Verdicts, limiter, breaker,
        NotFetching, FetchPlaces, FetchAt, FetchGoes, FetchEnds
<1>1. CASE FetchTick
  BY <1>1 DEF FetchTick
<1>2. ASSUME NEW t \in Fetchers, FetchStep(t) PROVE FetchInv'
  <2>1. ASSUME NEW d \in Domains, PassBreaker(t, d) PROVE FetchInv'
    <3>1. /\ failedAt' = [failedAt EXCEPT ![d] = Never]
          /\ UNCHANGED <<fetchClock, lastRequest, queueing, grants, robots, permanent, failureCounts, broken>>
          /\ \/ fetch' = [fetch EXCEPT ![t] = [at |-> "robots", domain |-> d, since |-> 0]]
             \/ UNCHANGED fetch
      BY <2>1 DEF PassBreaker
    <3>2. CASE fetch' = [fetch EXCEPT ![t] = [at |-> "robots", domain |-> d, since |-> 0]]
      BY <3>1, <3>2
    <3>3. CASE UNCHANGED fetch
      BY <3>1, <3>3
    <3> QED  BY <3>1, <3>2, <3>3
  <2>2. CASE AskRobots(t)
    <3>1. UNCHANGED <<fetchClock, lastRequest, queueing, grants, failedAt, permanent, failureCounts, broken>>
          /\ fetch[t].domain \in Domains
      BY <2>2 DEF AskRobots
    <3>2. robots' \in [Domains -> [verdict : Verdicts, since : Clocked]]
      BY <2>2, <3>1 DEF AskRobots
    <3>3. fetch' \in [Fetchers -> FetchPlaces] /\ FetchesFor'
      BY <2>2, FetchMoves DEF AskRobots
    <3> QED  BY <3>1, <3>2, <3>3
  <2>3. CASE StartWaiting(t)
    <3>1. queueing' \in {queueing, t}
          /\ UNCHANGED <<fetchClock, lastRequest, grants, robots, failedAt, permanent, failureCounts, broken>>
      BY <2>3 DEF StartWaiting
    <3>2. fetch' \in [Fetchers -> FetchPlaces] /\ FetchesFor'
      <4>1. FetchGoes(t, "limiter") \/ fetch' = [fetch EXCEPT ![t].at = "delay", ![t].since = fetchClock]
        BY <2>3 DEF StartWaiting
      <4>2. fetch[t].at # "none"
        BY <2>3 DEF StartWaiting
      <4> QED  BY <4>1, <4>2, FetchMoves
    <3> QED  BY <3>1, <3>2
  <2>4. CASE DelayOver(t)
    BY <2>4 DEF DelayOver
  <2>5. CASE Grant(t)
    <3> DEFINE d == fetch[t].domain
    <3>1. d \in Domains /\ (lastRequest[d] # Never => fetchClock - lastRequest[d] >= Interval)
          /\ lastRequest' = [lastRequest EXCEPT ![d] = fetchClock]
          /\ grants' = [grants EXCEPT ![d] = <<grants[d][2], fetchClock>>]
          /\ queueing' = Never
          /\ UNCHANGED <<fetchClock, robots, failedAt, permanent, failureCounts, broken>>
      BY <2>5 DEF Grant, Granted
    <3>2. grants' \in [Domains -> (Clocked \union {Never}) \X (Clocked \union {Never})]
      BY <3>1
    <3>3. LimiterRemembers' /\ GrantsSpaced'
      BY <3>1
    <3>4. fetch' \in [Fetchers -> FetchPlaces] /\ FetchesFor'
      BY <2>5, FetchMoves DEF Grant, Granted
    <3>5. lastRequest' \in [Domains -> Clocked \union {Never}]
      BY <3>1
    <3> QED  BY <3>1, <3>2, <3>3, <3>4, <3>5
  <2>6. CASE Send(t)
    <3>1. fetch' \in [Fetchers -> FetchPlaces] /\ FetchesFor'
      <4>1. (FetchGoes(t, "download") \/ FetchEnds(t)) /\ fetch[t].at # "none"
        BY <2>6 DEF Send
      <4> QED  BY <4>1, FetchMoves
    <3>2. UNCHANGED <<fetchClock, lastRequest, queueing, grants, robots, failedAt, permanent, failureCounts, broken>>
      BY <2>6 DEF Send
    <3> QED  BY <3>1, <3>2
  <2>7. CASE DownloadDone(t)
    BY <2>7 DEF DownloadDone
  <2>8. CASE DownloadRefused(t)
    BY <2>8 DEF DownloadRefused
  <2>9. CASE DownloadBreaks(t)
    <3> DEFINE d == fetch[t].domain
    <3>1. d \in Domains /\ broken[d].count < BreaksMax /\ fetch' = [fetch EXCEPT ![t] = NotFetching]
          /\ UNCHANGED <<fetchClock, lastRequest, queueing, grants, robots>>
      BY <2>9 DEF DownloadBreaks
    <3>2. PICK byName \in BOOLEAN :
            /\ RecordFailure(d, byName)
            /\ broken' = [broken EXCEPT ![d] = [count |-> @.count + 1, named |-> @.named \/ byName]]
      BY <2>9 DEF DownloadBreaks
    <3>3. /\ broken' \in [Domains -> [count : 0 .. BreaksMax, named : BOOLEAN]]
          /\ broken'[d].count = broken[d].count + 1 /\ broken'[d].named = (broken[d].named \/ byName)
          /\ \A e \in Domains \ {d} : broken'[e] = broken[e]
      BY <3>1, <3>2
    <3>4. CASE byName
      <4>1. permanent' = permanent \union {d} /\ UNCHANGED <<failedAt, failureCounts>>
        BY <3>2, <3>4 DEF RecordFailure
      <4>2. broken'[d].named
        BY <3>3, <3>4
      <4> QED  BY <3>1, <3>3, <4>1, <4>2
    <3>5. CASE ~byName /\ Within(d) /\ failureCounts[d] + 1 >= 3
      <4>1. /\ failureCounts' = [failureCounts EXCEPT ![d] = failureCounts[d] + 1]
            /\ permanent' = permanent \union {d} /\ UNCHANGED failedAt
        BY <3>2, <3>5 DEF RecordFailure
      <4> QED  BY <3>1, <3>3, <3>5, <4>1 DEF Within
    <3>6. CASE ~byName /\ Within(d) /\ ~(failureCounts[d] + 1 >= 3)
      <4>1. /\ failureCounts' = [failureCounts EXCEPT ![d] = failureCounts[d] + 1]
            /\ failedAt' = [failedAt EXCEPT ![d] = fetchClock] /\ UNCHANGED permanent
        BY <3>2, <3>6 DEF RecordFailure
      <4> QED  BY <3>1, <3>3, <3>6, <4>1 DEF Within
    <3>7. CASE ~byName /\ ~Within(d)
      <4>1. /\ failedAt' = [failedAt EXCEPT ![d] = fetchClock] /\ UNCHANGED <<permanent, failureCounts>>
        BY <3>2, <3>7 DEF RecordFailure
      <4> QED  BY <3>1, <3>3, <4>1
    <3> QED  BY <3>4, <3>5, <3>6, <3>7
  <2> QED  BY <1>2, <2>1, <2>2, <2>3, <2>4, <2>5, <2>6, <2>7, <2>8, <2>9 DEF FetchStep
<1>3. CASE UNCHANGED fetchVars
  BY <1>3 DEF fetchVars
<1> QED  BY <1>1, <1>2, <1>3 DEF FetchNext

\* Whatever the threads do at the same time, a domain is barred only after a
\* download of it broke, and for good only after one that names a permanent
\* reason or after four (SafeFetcher._record_failure, _clear_failure_state).
THEOREM BreakerHasEvidence == FetchSpec => []BreakerEvidence
<1>1. FetchInv => BreakerEvidence
  BY DEF FetchInv
<1> QED  BY <1>1, FetchingInit, FetchingStep, PTL DEF FetchSpec

\* Two grants for one domain are an interval apart, whichever threads they went
\* to (RateLimiter.wait).
THEOREM GrantsStaySpaced == FetchSpec => []GrantsSpaced
<1>1. FetchInv => GrantsSpaced
  BY DEF FetchInv
<1> QED  BY <1>1, FetchingInit, FetchingStep, PTL DEF FetchSpec

-----------------------------------------------------------------------------
\* How a check stands.
CheckStates ==
    [at : {"none", "read", "consume"}, time : 0 .. LimiterEnd, tokens : 0 .. Full]

\* A check carries the time it was started at, and finds the bucket of its
\* process as it was then: no other check of the process has touched it since.
ChecksInOrder ==
    \A w \in Workers :
        /\ check[w].time <= second
        /\ ram[w] = NoBucket => spent[w] = 0
        /\ ram[w] # NoBucket =>
             ram[w].time <= second /\ (check[w].at # "none" => ram[w].time <= check[w].time)

LimiterInv == LimiterTypeOK /\ ChecksInOrder /\ RamBucketLaw

\* What flows into a bucket until t is what flows in until s and from s to t.
LEMMA FlowAdds ==
    ASSUME NEW r \in Nat, NEW s \in Nat, NEW t \in Nat, s <= t
    PROVE  /\ (t - s) * r \in Nat /\ s * r \in Nat /\ t * r \in Nat
           /\ s * r + (t - s) * r = t * r
  OBVIOUS

\* A full bucket is a number of tokens.
LEMMA TokensAreNumbers == Full \in Nat /\ Token \in Nat
  BY LimiterAssumption DEF Full, Token

\* What a bucket holds after a refill: never more than the limit.
LEMMA RefillBounded ==
    ASSUME NEW b, b # NoBucket => b.tokens \in Nat /\ b.time \in Nat, NEW t \in Nat
    PROVE  Refilled(b, t) \in Int /\ Refilled(b, t) <= Full
<1>1. Full \in Nat
  BY TokensAreNumbers
<1>2. CASE b = NoBucket
  BY <1>1, <1>2 DEF Refilled
<1>3. CASE b # NoBucket
  <2>1. b.tokens \in Nat /\ t - b.time \in Int
    BY <1>1, <1>3
  <2>2. b.tokens + (t - b.time) * Limit \in Int
    BY <2>1, LimiterAssumption
  <2> QED  BY <1>1, <1>3, <2>2 DEF Refilled, Smaller
<1> QED  BY <1>2, <1>3

\* A check in RAM keeps the account of its process: what it takes out it admits,
\* what it puts in has flowed in since.
LEMMA RamChecked ==
    ASSUME LimiterInv, NEW w \in Workers, check[w].at # "none", CheckMemory(w),
           UNCHANGED <<second, burst>>, {redis, redis'} \subseteq {"up", "down"}, outages' \in 0 .. Outages,
           bucket' = bucket \/ WriteBucket(w)
    PROVE  LimiterInv'
<1> USE LimiterAssumption DEF LimiterInv, LimiterTypeOK, ChecksInOrder, RamBucketLaw
<1> DEFINE t == check[w].time
           tokens == Refilled(ram[w], t)
<1>1. t \in Nat /\ t <= second
  OBVIOUS
<1>2. Full \in Nat /\ Token \in Nat /\ t * Limit \in Nat /\ spent[w] * Token \in Nat
  BY <1>1 DEF Full, Token
<1>3. tokens \in 0 .. Full /\ spent[w] * Token + tokens <= Full + t * Limit
  <2>1. CASE ram[w] = NoBucket
    <3>1. spent[w] * Token = 0
      BY <2>1 DEF Token
    <3> QED  BY <1>2, <2>1, <3>1 DEF Refilled
  <2>2. CASE ram[w] # NoBucket
    <3>1. ram[w] \in [tokens : Nat, time : Nat]
      BY <2>2
    <3>2. ram[w].time <= t
      BY <2>2
    <3>3. /\ (t - ram[w].time) * Limit \in Nat /\ ram[w].time * Limit \in Nat
          /\ ram[w].time * Limit + (t - ram[w].time) * Limit = t * Limit
      BY <1>1, <3>1, <3>2, FlowAdds
    <3>4. tokens \in 0 .. Full /\ tokens <= ram[w].tokens + (t - ram[w].time) * Limit
      BY <1>2, <2>2, <3>1, <3>3 DEF Refilled, Smaller
    <3>5. spent[w] * Token + ram[w].tokens <= Full + ram[w].time * Limit
      BY <2>2
    <3> QED  BY <1>2, <3>1, <3>3, <3>4, <3>5
  <2> QED  BY <2>1, <2>2
<1> HIDE DEF tokens
<1>4. \E left \in 0 .. Full, more \in {0, 1} :
        /\ ram' = [ram EXCEPT ![w] = [tokens |-> left, time |-> t]]
        /\ spent' = [spent EXCEPT ![w] = spent[w] + more]
        /\ (spent[w] + more) * Token + left <= Full + t * Limit
  <2>1. CASE tokens >= Token
    <3>1. (spent[w] + 1) * Token = spent[w] * Token + Token
      BY DEF Token
    <3>2. tokens - Token \in 0 .. Full /\ (spent[w] + 1) * Token + (tokens - Token) <= Full + t * Limit
      BY <1>2, <1>3, <2>1, <3>1
    <3>3. /\ ram' = [ram EXCEPT ![w] = [tokens |-> tokens - Token, time |-> t]]
          /\ spent' = [spent EXCEPT ![w] = spent[w] + 1]
      BY <2>1 DEF CheckMemory, tokens
    <3> QED  BY <3>2, <3>3
  <2>2. CASE ~(tokens >= Token)
    <3>1. /\ ram' = [ram EXCEPT ![w] = [tokens |-> tokens, time |-> t]]
          /\ spent' = [spent EXCEPT ![w] = spent[w] + 0]
      BY <2>2 DEF CheckMemory, tokens
    <3>2. spent[w] + 0 = spent[w]
      OBVIOUS
    <3> QED  BY <1>3, <3>1, <3>2
  <2> QED  BY <2>1, <2>2
<1>5. check' = [check EXCEPT ![w] = NoCheck]
  BY DEF CheckMemory
<1>6. PICK left \in 0 .. Full, more \in {0, 1} :
        /\ ram' = [ram EXCEPT ![w] = [tokens |-> left, time |-> t]]
        /\ spent' = [spent EXCEPT ![w] = spent[w] + more]
        /\ (spent[w] + more) * Token + left <= Full + t * Limit
  BY <1>4
<1>7. [tokens |-> left, time |-> t] # NoBucket
  BY <1>1
<1>8. LimiterTypeOK'
  <2>1. bucket' \in [tokens : 0 .. Full, time : 0 .. LimiterEnd, written : 0 .. LimiterEnd] \union {NoBucket}
    BY DEF WriteBucket
  <2>2. ram' \in [Workers -> [tokens : 0 .. Full, time : 0 .. LimiterEnd] \union {NoBucket}]
    BY <1>1, <1>6
  <2>3. check' \in [Workers -> [at : {"none", "read", "consume"}, time : 0 .. LimiterEnd, tokens : 0 .. Full]]
    BY <1>2, <1>5 DEF NoCheck
  <2>4. spent' \in [Workers -> Nat]
    BY <1>6
  <2> QED  BY <2>1, <2>2, <2>3, <2>4
<1>9. ChecksInOrder'
  BY <1>1, <1>5, <1>6, <1>7 DEF NoCheck
<1>10. RamBucketLaw'
  <2> SUFFICES ASSUME NEW v \in Workers, ram'[v] # NoBucket
               PROVE  spent'[v] * Token + ram'[v].tokens <= Full + ram'[v].time * Limit
    BY DEF Token, Full
  <2>1. CASE v = w
    BY <1>6, <2>1
  <2>2. CASE v # w
    BY <1>6, <2>2
  <2> QED  BY <2>1, <2>2
<1> QED  BY <1>8, <1>9, <1>10

\* There are no buckets at first.
LEMMA LimitsInit == LimiterInit => LimiterInv
  BY LimiterAssumption, TokensAreNumbers DEF LimiterInit, LimiterInv, LimiterTypeOK, ChecksInOrder, RamBucketLaw, NoCheck

\* Every step of a check keeps it.
LEMMA LimitsStep == LimiterInv /\ [LimiterNext]_limiterVars => LimiterInv'
<1> SUFFICES ASSUME LimiterInv, [LimiterNext]_limiterVars
             PROVE  LimiterInv'
  OBVIOUS
<1> USE LimiterAssumption DEF LimiterInv, LimiterTypeOK, ChecksInOrder, RamBucketLaw
<1>1. CASE LimiterTick
  BY <1>1 DEF LimiterTick
<1>2. CASE RedisFails
  BY <1>2 DEF RedisFails
<1>3. CASE RedisReturns
  BY <1>3 DEF RedisReturns
<1>4. CASE ResetRateLimit \/ CleanupExpiredKeys
  BY <1>4 DEF ResetRateLimit, CleanupExpiredKeys
<1>5. ASSUME NEW w \in Workers, CheckStarts(w) PROVE LimiterInv'
  <2> DEFINE started == [NoCheck EXCEPT !.at = "read", !.time = second]
  <2>1. started \in CheckStates /\ started.time = second
    <3>1. NoCheck \in CheckStates
      BY TokensAreNumbers DEF NoCheck, CheckStates
    <3>2. \A q \in CheckStates, c \in 0 .. LimiterEnd :
            LET k == [q EXCEPT !.at = "read", !.time = c]
            IN  k \in CheckStates /\ k.time = c
      BY Zenon DEF CheckStates
    <3> QED  BY <3>1, <3>2
  <2>2. check' = [check EXCEPT ![w] = started]
    BY <1>5 DEF CheckStarts
  <2> HIDE DEF started
  <2>3. check' \in [Workers -> CheckStates]
    BY <2>1, <2>2 DEF CheckStates
  <2> QED  BY <1>5, <2>1, <2>2, <2>3 DEF CheckStarts, CheckStates
<1>6. ASSUME NEW w \in Workers, ReadBucket(w) PROVE LimiterInv'
  <2> DEFINE tokens == Refilled(bucket, check[w].time)
  <2>1. check[w].time \in Nat /\ (bucket # NoBucket => bucket.tokens \in Nat /\ bucket.time \in Nat)
    BY TokensAreNumbers
  <2>2. tokens \in Int /\ tokens <= Full
    BY <2>1, RefillBounded
  <2> HIDE DEF tokens
  <2>3. CASE tokens >= Token
    <3> DEFINE r == [check[w] EXCEPT !.at = "consume", !.tokens = tokens - Token]
    <3>1. check[w] \in CheckStates /\ tokens - Token \in 0 .. Full
      BY <2>2, <2>3, TokensAreNumbers DEF CheckStates
    <3>2. \A q \in CheckStates, n \in 0 .. Full :
            LET k == [q EXCEPT !.at = "consume", !.tokens = n]
            IN  k \in CheckStates /\ k.time = q.time
      BY Zenon DEF CheckStates
    <3>3. r \in CheckStates /\ r.time = check[w].time
      BY <3>1, <3>2
    <3>4. check' = [check EXCEPT ![w] = r]
      BY <1>6, <2>3 DEF ReadBucket, tokens
    <3>5. check[w].at # "none" /\ UNCHANGED <<second, redis, outages, bucket, ram, burst, spent>>
      BY <1>6 DEF ReadBucket
    <3> HIDE DEF r
    <3>6. check' \in [Workers -> CheckStates]
      BY <3>3, <3>4 DEF CheckStates
    <3> QED  BY <3>3, <3>4, <3>5, <3>6 DEF CheckStates
  <2>4. CASE ~(tokens >= Token)
    BY <1>6, <2>2, <2>4, TokensAreNumbers DEF ReadBucket, tokens, NoCheck
  <2> QED  BY <2>3, <2>4
<1>7. ASSUME NEW w \in Workers, ConsumeToken(w) PROVE LimiterInv'
  <2>1. bucket' \in [tokens : 0 .. Full, time : 0 .. LimiterEnd, written : 0 .. LimiterEnd] \union {NoBucket}
    BY <1>7 DEF ConsumeToken, WriteBucket
  <2>2. check' \in [Workers -> CheckStates]
    BY <1>7, TokensAreNumbers DEF ConsumeToken, NoCheck, CheckStates
  <2> QED  BY <1>7, <2>1, <2>2 DEF ConsumeToken, NoCheck, CheckStates
<1>8. ASSUME NEW w \in Workers, RedisDoesNotAnswer(w) PROVE LimiterInv'
  BY <1>8, RamChecked DEF RedisDoesNotAnswer
<1>9. ASSUME NEW w \in Workers, AnswerLost(w) PROVE LimiterInv'
  BY <1>9, RamChecked DEF AnswerLost
<1>10. CASE UNCHANGED limiterVars
  BY <1>10 DEF limiterVars
<1> QED  BY <1>1, <1>2, <1>3, <1>4, <1>5, <1>6, <1>7, <1>8, <1>9, <1>10 DEF LimiterNext

\* However often Redis fails and returns, a process admits by itself no more than
\* a full bucket and what flows into it (RedisRateLimiter._check_rate_limit_memory).
THEOREM RamBucketsBound == LimiterSpec => []RamBucketLaw
<1>1. LimiterInv => RamBucketLaw
  BY DEF LimiterInv
<1> QED  BY <1>1, LimitsInit, LimitsStep, PTL DEF LimiterSpec

-----------------------------------------------------------------------------
\* The row of Pascal's triangle that follows the ones that f has until n
RowAfter(f, n) ==
    [k \in Nat |-> IF k = 0 THEN 1 ELSE IF n = 0 THEN 0 ELSE f[n - 1][k - 1] + f[n - 1][k]]

\* A row needs only the one before.
LEMMA RowNeeds ==
    ASSUME NEW f, NEW g, NEW n \in Nat, n # 0 => f[n - 1] = g[n - 1]
    PROVE  RowAfter(f, n) = RowAfter(g, n)
<1>1. CASE n = 0
  BY <1>1 DEF RowAfter
<1>2. CASE n # 0
  BY <1>2, Zenon DEF RowAfter
<1> QED  BY <1>1, <1>2

\* The triangle, row by row, exists.
LEMMA RowsExist == \E f : f = [n \in Nat |-> RowAfter(f, n)]
<1> DEFINE Solves(f, m) == DOMAIN f = 0 .. m /\ \A n \in 0 .. m : f[n] = RowAfter(f, n)
           T == {m \in Nat : \E f : Solves(f, m)}
           h == [n \in 0 .. 0 |-> [k \in Nat |-> IF k = 0 THEN 1 ELSE 0]]
<1>1. 0 \in T
  <2>1. Solves(h, 0)
    <3>1. DOMAIN h = 0 .. 0 /\ 0 .. 0 = {0} /\ h[0] = [k \in Nat |-> IF k = 0 THEN 1 ELSE 0]
      OBVIOUS
    <3>2. RowAfter(h, 0) = [k \in Nat |-> IF k = 0 THEN 1 ELSE 0]
      BY Zenon DEF RowAfter
    <3> HIDE DEF h
    <3> QED  BY <3>1, <3>2
  <2>2. \E f : Solves(f, 0)
    <3> HIDE DEF Solves, h
    <3> QED  BY <2>1
  <2> HIDE DEF Solves
  <2> QED  BY <2>2
<1>2. ASSUME NEW m \in Nat, m \in T PROVE m + 1 \in T
  <2>1. PICK f : Solves(f, m)
    BY <1>2
  <2> DEFINE x == RowAfter(f, m + 1)
             g == [i \in 0 .. m + 1 |-> IF i = m + 1 THEN x ELSE f[i]]
  <2>2. DOMAIN g = 0 .. m + 1 /\ g[m + 1] = x /\ \A i \in 0 .. m : g[i] = f[i]
    <3>1. m + 1 \in 0 .. m + 1 /\ \A i \in 0 .. m : i \in 0 .. m + 1 /\ i # m + 1
      OBVIOUS
    <3> HIDE DEF x
    <3> QED  BY <3>1
  <2> HIDE DEF g
  <2>3. ASSUME NEW n \in 0 .. m + 1 PROVE g[n] = RowAfter(g, n)
    <3>1. CASE n = m + 1
      <4>1. g[m] = f[m] /\ n - 1 = m /\ n \in Nat
        BY <2>2, <3>1
      <4>2. RowAfter(f, n) = RowAfter(g, n)
        BY <4>1, RowNeeds
      <4> QED  BY <2>2, <3>1, <4>2
    <3>2. CASE n # m + 1
      <4>1. n \in 0 .. m /\ n \in Nat /\ (n # 0 => n - 1 \in 0 .. m)
        BY <3>2
      <4>2. n # 0 => f[n - 1] = g[n - 1]
        BY <2>2, <4>1
      <4>3. RowAfter(f, n) = RowAfter(g, n)
        BY <4>1, <4>2, RowNeeds
      <4> QED  BY <2>1, <2>2, <4>1, <4>3
    <3> QED  BY <3>1, <3>2
  <2>4. Solves(g, m + 1)
    BY <2>2, <2>3
  <2> HIDE DEF Solves
  <2> QED  BY <2>4
<1>3. Nat \subseteq T
  <2> HIDE DEF T
  <2> QED  BY <1>1, <1>2, NumbersInduct
<1> DEFINE S(m) == CHOOSE f : Solves(f, m)
<1>4. ASSUME NEW m \in Nat PROVE Solves(S(m), m)
  <2>1. \E f : Solves(f, m)
    <3> HIDE DEF Solves
    <3> QED  BY <1>3
  <2> HIDE DEF Solves
  <2> QED  BY <2>1
<1> DEFINE U == {i \in Nat : \A m \in Nat : i <= m => S(m)[i] = S(i)[i]}
<1> HIDE DEF S
<1>5. 0 \in U
  <2> SUFFICES ASSUME NEW m \in Nat PROVE S(m)[0] = S(0)[0]
    OBVIOUS
  <2>1. S(m)[0] = RowAfter(S(m), 0) /\ S(0)[0] = RowAfter(S(0), 0)
    BY <1>4
  <2> QED  BY <2>1, RowNeeds
<1>6. ASSUME NEW i \in Nat, i \in U PROVE i + 1 \in U
  <2> SUFFICES ASSUME NEW m \in Nat, i + 1 <= m PROVE S(m)[i + 1] = S(i + 1)[i + 1]
    OBVIOUS
  <2>1. S(m)[i + 1] = RowAfter(S(m), i + 1) /\ S(i + 1)[i + 1] = RowAfter(S(i + 1), i + 1)
    BY <1>4
  <2>2. S(m)[i] = S(i + 1)[i]
    BY <1>6
  <2>3. (i + 1) - 1 = i /\ i + 1 \in Nat
    OBVIOUS
  <2> QED  BY <2>1, <2>2, <2>3, RowNeeds
<1>7. Nat \subseteq U
  <2> HIDE DEF U
  <2> QED  BY <1>5, <1>6, NumbersInduct
<1> DEFINE G == [n \in Nat |-> S(n)[n]]
<1>8. ASSUME NEW n \in Nat PROVE G[n] = RowAfter(G, n)
  <2>1. S(n)[n] = RowAfter(S(n), n)
    BY <1>4
  <2>2. n # 0 => S(n)[n - 1] = G[n - 1]
    <3>1. n # 0 => n - 1 \in U /\ n - 1 <= n /\ n - 1 \in Nat
      BY <1>7
    <3> QED  BY <3>1
  <2> HIDE DEF G
  <2>3. RowAfter(S(n), n) = RowAfter(G, n)
    BY <2>2, RowNeeds
  <2> QED  BY <2>1, <2>3 DEF G
<1>9. G = [n \in Nat |-> G[n]]
  OBVIOUS
<1> HIDE DEF G
<1>10. G = [n \in Nat |-> RowAfter(G, n)]
  BY <1>8, <1>9
<1> QED  BY <1>10

\* What the definition of Binomial says, entry by entry.
LEMMA PascalsTriangle ==
    \A n, k \in Nat :
      Binomial[n][k] = IF k = 0 THEN 1 ELSE IF n = 0 THEN 0 ELSE Binomial[n - 1][k - 1] + Binomial[n - 1][k]
<1> DEFINE Solves(f) == f = [n \in Nat |->
             [k \in Nat |-> IF k = 0 THEN 1 ELSE IF n = 0 THEN 0 ELSE f[n - 1][k - 1] + f[n - 1][k]]]
           b == CHOOSE f : Solves(f)
<1>1. Solves(b)
  <2>1. \E f : Solves(f)
    BY RowsExist, Zenon DEF RowAfter
  <2> HIDE DEF Solves
  <2> QED  BY <2>1
<1>2. Binomial = b
  BY DEF Binomial
<1> HIDE DEF b
<1>3. ASSUME NEW n \in Nat
      PROVE  b[n] = [k \in Nat |-> IF k = 0 THEN 1 ELSE IF n = 0 THEN 0 ELSE b[n - 1][k - 1] + b[n - 1][k]]
  BY <1>1
<1>4. ASSUME NEW n \in Nat, NEW k \in Nat
      PROVE  b[n][k] = IF k = 0 THEN 1 ELSE IF n = 0 THEN 0 ELSE b[n - 1][k - 1] + b[n - 1][k]
  BY <1>3
<1> QED  BY <1>2, <1>4

\* The entries are numbers: none over more than there are, one over all.
LEMMA BinomialCounts ==
    \A n, k \in Nat : /\ Binomial[n][k] \in Nat
                      /\ Binomial[n][0] = 1 /\ Binomial[n][n] = 1
                      /\ k > n => Binomial[n][k] = 0
<1> DEFINE T == {n \in Nat : /\ \A k \in Nat : Binomial[n][k] \in Nat /\ (k > n => Binomial[n][k] = 0)
                             /\ Binomial[n][n] = 1}
<1>1. 0 \in T
  BY PascalsTriangle
<1>2. ASSUME NEW n \in Nat, n \in T PROVE n + 1 \in T
  <2>1. ASSUME NEW k \in Nat
        PROVE  /\ Binomial[n + 1][k] \in Nat
               /\ k > n + 1 => Binomial[n + 1][k] = 0
               /\ k = n + 1 => Binomial[n + 1][k] = 1
    <3>1. CASE k = 0
      BY <3>1, PascalsTriangle
    <3>2. CASE k # 0
      <4>1. Binomial[n + 1][k] = Binomial[n][k - 1] + Binomial[n][k]
        <5>1. n + 1 \in Nat /\ n + 1 # 0 /\ (n + 1) - 1 = n
          OBVIOUS
        <5>2. Binomial[n + 1][k] = Binomial[(n + 1) - 1][k - 1] + Binomial[(n + 1) - 1][k]
          BY <3>2, <5>1, PascalsTriangle
        <5> QED  BY <5>1, <5>2
      <4>2. k - 1 \in Nat
        BY <3>2
      <4> QED  BY <1>2, <4>1, <4>2
    <3> QED  BY <3>1, <3>2
  <2> QED  BY <2>1
<1>3. Nat \subseteq T
  <2> HIDE DEF T
  <2> QED  BY <1>1, <1>2, NumbersInduct
<1>4. \A n \in Nat : Binomial[n][0] = 1
  BY PascalsTriangle
<1> QED  BY <1>3, <1>4

\* The ways down a grid of a by b.
Tracks(a, b) == Binomial[a + b][b]

\* They begin with a step along the one side or along the other.
LEMMA TracksAdd ==
    ASSUME NEW a \in Nat, NEW b \in Nat
    PROVE  /\ Tracks(a, b) \in Nat /\ Tracks(a, 0) = 1 /\ Tracks(0, b) = 1
           /\ Tracks(a + 1, b + 1) = Tracks(a, b + 1) + Tracks(a + 1, b)
<1>1. Tracks(a, b) \in Nat /\ Tracks(a, 0) = 1 /\ Tracks(0, b) = 1
  BY BinomialCounts DEF Tracks
<1>2. Tracks(a + 1, b + 1) = Tracks(a, b + 1) + Tracks(a + 1, b)
  <2> DEFINE n == a + b + 2
             k == b + 1
  <2>1. n \in Nat /\ k \in Nat /\ n # 0 /\ k # 0 /\ (a + 1) + (b + 1) = n /\ n - 1 = (a + 1) + b
        /\ n - 1 = a + (b + 1) /\ k - 1 = b
    OBVIOUS
  <2>2. Binomial[n][k] = Binomial[n - 1][k - 1] + Binomial[n - 1][k]
    <3> HIDE DEF n, k
    <3> QED  BY <2>1, PascalsTriangle
  <2>3. Tracks(a + 1, b + 1) = Binomial[n][k] /\ Tracks(a, b + 1) = Binomial[n - 1][k]
        /\ Tracks(a + 1, b) = Binomial[n - 1][k - 1]
    BY <2>1 DEF Tracks
  <2>4. Binomial[n - 1][k - 1] \in Nat /\ Binomial[n - 1][k] \in Nat
    <3>1. n - 1 \in Nat /\ k - 1 \in Nat
      OBVIOUS
    <3> HIDE DEF n, k
    <3> QED  BY <2>1, <3>1, BinomialCounts
  <2> HIDE DEF n, k
  <2> QED  BY <2>2, <2>3, <2>4
<1> QED  BY <1>1, <1>2

\* How many requests n checks can let through from a tokens to one less.
Fewer(a, n) == IF n = 0 THEN 0 ELSE Tracks(a, n - 1)

\* More checks let more through.
LEMMA FewerGrows ==
    ASSUME NEW a \in Nat, NEW m \in Nat, NEW n \in Nat, m <= n
    PROVE  Fewer(a, m) \in Nat /\ Fewer(a, n) \in Nat /\ Fewer(a, m) <= Fewer(a, n)
<1>1. ASSUME NEW k \in Nat PROVE Fewer(a, k) \in Nat
  BY TracksAdd DEF Fewer
<1>2. ASSUME NEW k \in Nat PROVE Fewer(a, k) <= Fewer(a, k + 1)
  <2>1. Fewer(a, k + 1) = Tracks(a, k)
    BY DEF Fewer
  <2>2. CASE k = 0
    BY <2>1, <2>2, TracksAdd DEF Fewer
  <2>3. CASE k # 0 /\ a = 0
    <3>1. k - 1 \in Nat
      BY <2>3
    <3>2. Fewer(a, k) = Tracks(a, k - 1)
      BY <2>3 DEF Fewer
    <3>3. Tracks(a, k) = 1 /\ Tracks(a, k - 1) = 1
      BY <2>3, <3>1, TracksAdd
    <3> QED  BY <2>1, <3>2, <3>3
  <2>4. CASE k # 0 /\ a # 0
    <3> DEFINE x == a - 1
               y == k - 1
    <3>1. x \in Nat /\ y \in Nat /\ x + 1 = a /\ y + 1 = k
      BY <2>4
    <3> HIDE DEF x, y
    <3>2. Tracks(a, k) = Tracks(x, k) + Tracks(a, y) /\ Tracks(x, k) \in Nat /\ Tracks(a, y) \in Nat
      BY <3>1, TracksAdd
    <3>3. Fewer(a, k) = Tracks(a, y)
      BY <2>4 DEF Fewer, y
    <3> QED  BY <2>1, <3>2, <3>3
  <2> QED  BY <2>2, <2>3, <2>4
<1> DEFINE T == {d \in Nat : Fewer(a, m) <= Fewer(a, m + d)}
<1>3. 0 \in T
  BY <1>1
<1>4. ASSUME NEW d \in Nat, d \in T PROVE d + 1 \in T
  <2>1. m + (d + 1) = (m + d) + 1 /\ m + d \in Nat
    OBVIOUS
  <2>2. Fewer(a, m + d) <= Fewer(a, (m + d) + 1) /\ Fewer(a, m + d) \in Nat /\ Fewer(a, (m + d) + 1) \in Nat
        /\ Fewer(a, m) \in Nat /\ Fewer(a, m) <= Fewer(a, m + d)
    BY <1>1, <1>2, <1>4, <2>1
  <2>3. Fewer(a, m) <= Fewer(a, (m + d) + 1)
    BY <2>2
  <2> QED  BY <2>1, <2>3
<1>5. n - m \in T /\ m + (n - m) = n
  <2>1. Nat \subseteq T
    <3> HIDE DEF T
    <3> QED  BY <1>3, <1>4, NumbersInduct
  <2>2. n - m \in Nat /\ m + (n - m) = n
    OBVIOUS
  <2> HIDE DEF T
  <2> QED  BY <2>1, <2>2
<1> QED  BY <1>1, <1>5

\* What n checks let through down from l tokens.
LEMMA DrainLimit ==
    ASSUME NEW M \in Nat, NEW n \in Nat, NEW s, \A l \in 0 .. M : s[l] \in Nat, s[0] = 0,
           \A l \in Nat : l < M => s[l + 1] <= s[l] + Fewer(l + 1, n)
    PROVE  \A l \in 0 .. M : s[l] + 1 <= Tracks(l, n)
<1> DEFINE T == {l \in Nat : l <= M => s[l] + 1 <= Tracks(l, n)}
<1>1. 0 \in T
  <2>1. Tracks(0, n) = 1
    BY TracksAdd
  <2>2. s[0] + 1 <= Tracks(0, n)
    BY <2>1
  <2> QED  BY <2>2
<1>2. ASSUME NEW l \in Nat, l \in T PROVE l + 1 \in T
  <2> SUFFICES ASSUME l + 1 <= M PROVE s[l + 1] + 1 <= Tracks(l + 1, n)
    OBVIOUS
  <2>1. s[l + 1] <= s[l] + Fewer(l + 1, n) /\ s[l] + 1 <= Tracks(l, n) /\ s[l] \in Nat /\ s[l + 1] \in Nat
    BY <1>2
  <2>2. Tracks(l, n) \in Nat /\ Tracks(l + 1, n) \in Nat /\ Fewer(l + 1, n) \in Nat
    <3>1. Tracks(l, n) \in Nat
      BY TracksAdd
    <3>2. l + 1 \in Nat
      OBVIOUS
    <3>3. Tracks(l + 1, n) \in Nat
      BY <3>2, TracksAdd
    <3>4. Fewer(l + 1, n) \in Nat
      BY <3>2, FewerGrows
    <3> QED  BY <3>1, <3>3, <3>4
  <2>3. Tracks(l, n) + Fewer(l + 1, n) <= Tracks(l + 1, n)
    <3>1. CASE n = 0
      BY <3>1, TracksAdd DEF Fewer
    <3>2. CASE n # 0
      <4> DEFINE k == n - 1
      <4>1. k \in Nat /\ k + 1 = n
        BY <3>2
      <4>2. Fewer(l + 1, n) = Tracks(l + 1, k)
        BY <3>2 DEF Fewer
      <4> HIDE DEF k
      <4>3. Tracks(l + 1, n) = Tracks(l, n) + Tracks(l + 1, k)
        BY <4>1, TracksAdd
      <4> QED  BY <2>2, <4>2, <4>3
    <3> QED  BY <3>1, <3>2
  <2> QED  BY <2>1, <2>2, <2>3
<1>3. Nat \subseteq T
  <2> HIDE DEF T
  <2> QED  BY <1>1, <1>2, NumbersInduct
<1> QED  BY <1>3

\* What a check would leave in the bucket by now
Effective(w) == Smaller(Full, check[w].tokens + (second - check[w].time) * Limit)

\* The checks that can still take a token with the bucket at l tokens or above,
\* and leave it there or below: those that begin or read it this second, and
\* those that have read it when there was less in it.
Overtakers(l) ==
    {w \in Workers : \/ check[w].at = "none"
                     \/ check[w].at = "read" /\ check[w].time = second
                     \/ check[w].at = "consume" /\ Effective(w) < l * Token}

\* How many more were let through since the bucket was last full than since it
\* had l tokens
Room(l) ==
    IF (l + 1) * Token > Refilled(bucket, second) THEN Fewer(l + 1, Cardinality(Overtakers(l))) ELSE 0

\* s[l] bounds what was let through below l tokens.
Drains(s) ==
    /\ s \in [0 .. Limit + 1 -> Nat] /\ s[0] = 0
    /\ \A l \in 0 .. Limit : s[l + 1] <= s[l] + Room(l)
    /\ burst <= s[Limit + 1]

OverspendInv == LimiterInv /\ \E s : Drains(s)

\* The overtakers are counted.
LEMMA OvertakersCounted ==
    /\ \A l : IsFiniteSet(Overtakers(l)) /\ Cardinality(Overtakers(l)) \in Nat
              /\ Cardinality(Overtakers(l)) <= Cardinality(Workers)
    /\ Cardinality(Workers) \in Nat
<1>1. IsFiniteSet(Workers)
  BY LimiterAssumption
<1>2. Cardinality(Workers) \in Nat
  BY <1>1, FS_CardinalityType
<1>3. ASSUME NEW l
      PROVE  IsFiniteSet(Overtakers(l)) /\ Cardinality(Overtakers(l)) \in Nat
             /\ Cardinality(Overtakers(l)) <= Cardinality(Workers)
  <2>1. Overtakers(l) \subseteq Workers
    BY DEF Overtakers
  <2>2. IsFiniteSet(Overtakers(l)) /\ Cardinality(Overtakers(l)) <= Cardinality(Workers)
    BY <1>1, <2>1, FS_Subset
  <2> QED  BY <2>2, FS_CardinalityType
<1> QED  BY <1>2, <1>3

\* The same of the overtakers after a step.
LEMMA OvertakersCountedNext ==
    \A l : IsFiniteSet(Overtakers(l))' /\ (Cardinality(Overtakers(l)) \in Nat)'
<1>1. IsFiniteSet(Workers)
  BY LimiterAssumption
<1>2. ASSUME NEW l
      PROVE  IsFiniteSet(Overtakers(l))' /\ (Cardinality(Overtakers(l)) \in Nat)'
  <2>1. Overtakers(l)' \subseteq Workers
    BY DEF Overtakers
  <2>2. IsFiniteSet(Overtakers(l)')
    BY <1>1, <2>1, FS_Subset
  <2> QED  BY <2>2, FS_CardinalityType
<1> QED  BY <1>2

\* There is room or none.
LEMMA RoomCounts == \A l \in Nat : Room(l) \in Nat /\ (Room(l) \in Nat)'
<1> SUFFICES ASSUME NEW l \in Nat PROVE Room(l) \in Nat /\ (Room(l) \in Nat)'
  OBVIOUS
<1>1. l + 1 \in Nat
  OBVIOUS
<1>2. \A n \in Nat : Fewer(l + 1, n) \in Nat
  BY <1>1, FewerGrows
<1>3. Room(l) \in Nat
  BY <1>2, OvertakersCounted DEF Room
<1>4. (Room(l) \in Nat)'
  BY <1>2, OvertakersCountedNext DEF Room
<1> QED  BY <1>3, <1>4

\* No request is let through since the bucket was full.
LEMMA DrainsBegin ==
    /\ burst = 0 => \E s : Drains(s)
    /\ burst' = 0 => \E s : Drains(s)'
<1> DEFINE s == [l \in 0 .. Limit + 1 |-> 0]
<1>1. s \in [0 .. Limit + 1 -> Nat] /\ \A l \in 0 .. Limit + 1 : s[l] = 0
  OBVIOUS
<1>2. Limit \in Nat /\ 0 \in 0 .. Limit + 1 /\ Limit + 1 \in 0 .. Limit + 1
      /\ \A l \in 0 .. Limit : l \in Nat /\ l \in 0 .. Limit + 1 /\ l + 1 \in 0 .. Limit + 1
  BY LimiterAssumption
<1> HIDE DEF s
<1>3. ASSUME burst = 0 PROVE Drains(s)
  <2>1. \A l \in 0 .. Limit : s[l + 1] <= s[l] + Room(l)
    BY <1>1, <1>2, RoomCounts
  <2> QED  BY <1>1, <1>2, <1>3, <2>1 DEF Drains
<1>4. ASSUME burst' = 0 PROVE Drains(s)'
  <2>1. \A l \in 0 .. Limit : s[l + 1] <= s[l] + Room(l)'
    BY <1>1, <1>2, RoomCounts
  <2> QED  BY <1>1, <1>2, <1>4, <2>1 DEF Drains
<1> QED  BY <1>3, <1>4

\* A step that lets nothing through, and after which no fewer checks can overtake
\* another where that counts
LEMMA NothingDrained ==
    ASSUME NEW s, Drains(s), UNCHANGED <<second, bucket, burst>>,
           \A l \in 0 .. Limit : (l + 1) * Token > Refilled(bucket, second) => Overtakers(l) \subseteq Overtakers(l)'
    PROVE  Drains(s)'
<1>1. ASSUME NEW l \in 0 .. Limit PROVE Room(l) \in Nat /\ Room(l)' \in Nat /\ Room(l) <= Room(l)'
  <2>1. l \in Nat /\ l + 1 \in Nat
    BY LimiterAssumption
  <2>2. (l + 1) * Token > Refilled(bucket', second') <=> (l + 1) * Token > Refilled(bucket, second)
    OBVIOUS
  <2>3. CASE (l + 1) * Token > Refilled(bucket, second)
    <3>1. Overtakers(l) \subseteq Overtakers(l)' /\ IsFiniteSet(Overtakers(l)')
      BY <2>3, OvertakersCountedNext
    <3>2. Cardinality(Overtakers(l)) <= Cardinality(Overtakers(l)')
      BY <3>1, FS_Subset
    <3>3. Cardinality(Overtakers(l)) \in Nat /\ Cardinality(Overtakers(l)') \in Nat
      BY OvertakersCounted, OvertakersCountedNext
    <3>4. Room(l) = Fewer(l + 1, Cardinality(Overtakers(l))) /\ Room(l)' = Fewer(l + 1, Cardinality(Overtakers(l)'))
      BY <2>2, <2>3 DEF Room, Token
    <3> QED  BY <2>1, <3>2, <3>3, <3>4, FewerGrows
  <2>4. CASE ~((l + 1) * Token > Refilled(bucket, second))
    BY <2>2, <2>4 DEF Room, Token
  <2> QED  BY <2>3, <2>4
<1>2. ASSUME NEW l \in 0 .. Limit PROVE s[l + 1] <= s[l] + Room(l)'
  <2>1. l + 1 \in 0 .. Limit + 1 /\ l \in 0 .. Limit + 1
    BY LimiterAssumption
  <2>2. s[l] \in Nat /\ s[l + 1] \in Nat /\ s[l + 1] <= s[l] + Room(l)
    BY <2>1 DEF Drains
  <2> QED  BY <1>1, <2>2
<1> QED  BY <1>2 DEF Drains

\* A number of tokens is between two neighbouring numbers of whole requests.
LEMMA WholeRequests ==
    ASSUME NEW held \in Nat, held <= Full
    PROVE  \E y \in 0 .. Limit : y * Token <= held /\ held < (y + 1) * Token
<1> DEFINE T == {k \in Nat : held < (k + 1) * Token}
<1>0. Limit \in Nat /\ Token \in Nat \ {0} /\ Full = Limit * Token
  BY LimiterAssumption DEF Full, Token
<1>1. Limit \in T
  <2>1. (Limit + 1) * Token = Limit * Token + Token /\ Limit * Token \in Nat
    BY <1>0
  <2> QED  BY <1>0, <2>1
<1>2. PICK y \in T : \A k \in T : y <= k
  BY <1>1, Smallest
<1>3. y \in 0 .. Limit /\ held < (y + 1) * Token
  BY <1>0, <1>1, <1>2
<1>4. y * Token <= held
  <2>1. CASE y = 0
    BY <1>0, <2>1
  <2>2. CASE y # 0
    <3>1. y - 1 \in Nat /\ y - 1 \notin T /\ (y - 1) + 1 = y
      BY <1>2, <1>3, <2>2
    <3>2. y * Token \in Nat
      BY <1>0, <1>3
    <3> QED  BY <3>1, <3>2
  <2> QED  BY <2>1, <2>2
<1> QED  BY <1>3, <1>4

\* What a check that overtakes leaves behind is a number of tokens, and what it
\* would leave by now is what is in the bucket then.
LEMMA LevelWritten ==
    ASSUME LimiterInv, NEW w \in Workers, WriteBucket(w), UNCHANGED second
    PROVE  /\ Effective(w) \in Nat /\ Effective(w) <= Full
           /\ Refilled(bucket, second)' = Effective(w)
<1>1. check[w] \in CheckStates /\ check[w].time <= second /\ second \in 0 .. LimiterEnd
  BY DEF LimiterInv, LimiterTypeOK, ChecksInOrder, CheckStates
<1>2. check[w].tokens \in Nat /\ check[w].time \in Nat /\ second \in Nat /\ Full \in Nat /\ Limit \in Nat
      /\ second - check[w].time \in Nat
  BY <1>1, TokensAreNumbers, LimiterAssumption DEF CheckStates
<1>3. (second - check[w].time) * Limit \in Nat
  BY <1>2
<1>4. bucket' = [tokens |-> check[w].tokens, time |-> check[w].time, written |-> second]
  BY DEF WriteBucket
<1>5. bucket' # NoBucket /\ bucket'.tokens = check[w].tokens /\ bucket'.time = check[w].time
  BY <1>2, <1>4, LimiterAssumption
<1>6. Refilled(bucket, second)' = Effective(w)
  BY <1>5 DEF Refilled, Effective, Smaller, Full
<1>7. Effective(w) \in Nat /\ Effective(w) <= Full
  BY <1>2, <1>3 DEF Effective, Smaller
<1> QED  BY <1>6, <1>7

\* A check that overtakes others: what was let through below the level it leaves
\* may be let through again, but by fewer checks than before, itself no more.
LEMMA CheckOvertakes ==
    ASSUME LimiterInv, NEW s, Drains(s), NEW w \in Workers, WriteBucket(w), UNCHANGED second,
           check[w].at = "consume", check' = [check EXCEPT ![w] = NoCheck],
           burst \in Nat, burst' \in Nat, burst' <= burst + 1
    PROVE  \E q : Drains(q)'
<1>0. Limit \in Nat /\ Token \in Nat \ {0} /\ check \in [Workers -> CheckStates]
  BY LimiterAssumption DEF Token, LimiterInv, LimiterTypeOK, CheckStates
<1> DEFINE held == Effective(w)
<1>1. held \in Nat /\ held <= Full /\ Refilled(bucket, second)' = held
  BY LevelWritten
<1> HIDE DEF held
<1>2. PICK y \in 0 .. Limit : y * Token <= held /\ held < (y + 1) * Token
  BY <1>1, WholeRequests
<1>3. y \in Nat /\ \A l \in 0 .. Limit : l \in Nat /\ l + 1 \in Nat /\ l \in 0 .. Limit + 1 /\ l + 1 \in 0 .. Limit + 1
  BY <1>0
<1>4. ASSUME NEW l \in 0 .. Limit
      PROVE  Overtakers(l)' = Overtakers(l) \union {w}
  <2>1. w \in Overtakers(l)'
    BY <1>0 DEF Overtakers, NoCheck
  <2>2. ASSUME NEW v \in Workers, v # w PROVE v \in Overtakers(l)' <=> v \in Overtakers(l)
    BY <1>0, <2>2 DEF Overtakers, Effective, Token, Full
  <2>3. Overtakers(l) \subseteq Workers /\ Overtakers(l)' \subseteq Workers
    BY DEF Overtakers
  <2> QED  BY <2>1, <2>2, <2>3
<1>5. ASSUME NEW l \in 0 .. Limit, l <= y
      PROVE  Overtakers(l) \subseteq Overtakers(y)
  <2>1. l * Token <= y * Token /\ l * Token \in Nat /\ y * Token \in Nat
    BY <1>0, <1>3, <1>5, TimesKeepsOrder
  <2>2. ASSUME NEW v \in Workers, check[v].at = "consume", Effective(v) < l * Token PROVE Effective(v) < y * Token
    <3>1. Effective(v) \in Int
      <4>1. check[v] \in CheckStates /\ check[v].tokens \in Nat /\ check[v].time \in Nat /\ second \in Nat /\ Full \in Nat
        BY <1>0, TokensAreNumbers, LimiterAssumption DEF CheckStates, LimiterInv, LimiterTypeOK
      <4>2. second - check[v].time \in Int
        BY <4>1
      <4>3. (second - check[v].time) * Limit \in Int
        BY <1>0, <4>2
      <4> QED  BY <4>1, <4>3 DEF Effective, Smaller
    <3> QED  BY <2>1, <2>2, <3>1
  <2> QED  BY <2>2 DEF Overtakers
<1>6. w \notin Overtakers(y)
  <2>1. y * Token \in Nat
    BY <1>0, <1>3
  <2>2. ~(Effective(w) < y * Token)
    BY <1>1, <1>2, <2>1 DEF held
  <2> QED  BY <2>2 DEF Overtakers
<1> DEFINE n == Cardinality(Overtakers(y))
<1>7. n \in Nat /\ Cardinality(Overtakers(y)') = n + 1
  <2>1. IsFiniteSet(Overtakers(y)) /\ n \in Nat
    BY OvertakersCounted
  <2>2. Overtakers(y)' = Overtakers(y) \union {w}
    BY <1>4
  <2> QED  BY <1>6, <2>1, <2>2, FS_AddElement
<1>8. ASSUME NEW l \in 0 .. Limit PROVE Room(l) \in Nat /\ Room(l)' \in Nat /\ s[l] \in Nat /\ s[l + 1] \in Nat
                                        /\ s[l + 1] <= s[l] + Room(l)
  BY <1>3, RoomCounts DEF Drains
<1>9. ASSUME NEW l \in 0 .. Limit, l <= y PROVE Room(l) <= Fewer(l + 1, n)
  <2>1. Cardinality(Overtakers(l)) \in Nat /\ Cardinality(Overtakers(l)) <= n
    BY <1>5, <1>9, OvertakersCounted, FS_Subset
  <2>2. Fewer(l + 1, n) \in Nat /\ Fewer(l + 1, Cardinality(Overtakers(l))) <= Fewer(l + 1, n)
    BY <1>3, <1>7, <2>1, FewerGrows
  <2> QED  BY <2>2 DEF Room
<1>10. s[y + 1] + 1 <= Tracks(y + 1, n)
  <2> DEFINE M == y + 1
  <2>1. M \in Nat /\ \A l \in 0 .. M : l \in 0 .. Limit + 1
    BY <1>0
  <2>2. \A l \in 0 .. M : s[l] \in Nat
    BY <2>1 DEF Drains
  <2>3. ASSUME NEW l \in Nat, l < M PROVE s[l + 1] <= s[l] + Fewer(l + 1, n)
    <3>1. l \in 0 .. Limit /\ l <= y
      BY <1>0, <2>3
    <3>2. Fewer(l + 1, n) \in Nat
      BY <1>3, <1>7, <3>1, FewerGrows
    <3> QED  BY <1>8, <1>9, <3>1, <3>2
  <2>4. s[0] = 0 /\ M \in 0 .. M
    BY <2>1 DEF Drains
  <2> HIDE DEF n, M
  <2>5. \A l \in 0 .. M : s[l] + 1 <= Tracks(l, n)
    BY <1>7, <2>1, <2>2, <2>3, <2>4, DrainLimit
  <2>6. s[M] + 1 <= Tracks(M, n)
    BY <2>4, <2>5
  <2> QED  BY <2>6 DEF M
<1> DEFINE q == [l \in 0 .. Limit + 1 |-> IF l <= y THEN 0 ELSE s[l] + 1]
<1>11. /\ q \in [0 .. Limit + 1 -> Nat] /\ q[0] = 0 /\ q[Limit + 1] = s[Limit + 1] + 1
       /\ \A l \in 0 .. Limit + 1 : q[l] = IF l <= y THEN 0 ELSE s[l] + 1
  <2>1. \A l \in 0 .. Limit + 1 : s[l] \in Nat
    BY DEF Drains
  <2>2. 0 \in 0 .. Limit + 1 /\ 0 <= y /\ Limit + 1 \in 0 .. Limit + 1 /\ ~(Limit + 1 <= y)
    BY <1>0
  <2> QED  BY <2>1, <2>2
<1> HIDE DEF q, n
<1>12. ASSUME NEW l \in 0 .. Limit PROVE q[l + 1] <= q[l] + Room(l)'
  <2>0. q[l] = (IF l <= y THEN 0 ELSE s[l] + 1) /\ q[l + 1] = IF l + 1 <= y THEN 0 ELSE s[l + 1] + 1
    BY <1>3, <1>11
  <2>1. CASE l < y
    <3>1. l <= y /\ l + 1 <= y
      BY <1>3, <2>1
    <3> QED  BY <1>8, <2>0, <3>1
  <2>2. CASE l = y
    <3>1. Room(l)' = Fewer(l + 1, Cardinality(Overtakers(l)'))
      BY <1>1, <1>2, <2>2 DEF Room, Token
    <3>2. Fewer(l + 1, Cardinality(Overtakers(l)')) = Tracks(y + 1, n)
      <4>1. n + 1 # 0 /\ (n + 1) - 1 = n
        BY <1>7
      <4> QED  BY <1>7, <2>2, <4>1 DEF Fewer
    <3>3. ~(y + 1 <= y) /\ y <= y
      BY <1>3
    <3> QED  BY <1>10, <2>0, <2>2, <3>1, <3>2, <3>3, <1>8
  <2>3. CASE l > y
    <3>1. (y + 1) * Token <= (l + 1) * Token /\ (y + 1) * Token \in Nat /\ (l + 1) * Token \in Nat
      <4>1. y + 1 <= l + 1 /\ y + 1 \in Nat /\ l + 1 \in Nat
        BY <1>3, <2>3
      <4> QED  BY <1>0, <4>1, TimesKeepsOrder
    <3>2. (l + 1) * Token > held
      BY <1>1, <1>2, <3>1
    <3>3. Room(l)' = Fewer(l + 1, Cardinality(Overtakers(l)'))
      BY <1>1, <3>2 DEF Room, Token
    <3>4. Cardinality(Overtakers(l)) \in Nat /\ Cardinality(Overtakers(l)') \in Nat
          /\ Cardinality(Overtakers(l)) <= Cardinality(Overtakers(l)')
      BY <1>4, OvertakersCounted, OvertakersCountedNext, FS_Subset
    <3>5. /\ Fewer(l + 1, Cardinality(Overtakers(l))) <= Fewer(l + 1, Cardinality(Overtakers(l)'))
          /\ Fewer(l + 1, Cardinality(Overtakers(l)')) \in Nat
      BY <1>3, <3>4, FewerGrows
    <3>6. Room(l) <= Room(l)'
      BY <3>3, <3>5 DEF Room
    <3>7. ~(l <= y) /\ ~(l + 1 <= y)
      BY <1>3, <2>3
    <3> QED  BY <1>8, <2>0, <3>6, <3>7
  <2> QED  BY <1>3, <2>1, <2>2, <2>3
<1>13. burst' <= q[Limit + 1]
  <2>1. burst <= s[Limit + 1] /\ s[Limit + 1] \in Nat
    <3>1. Limit + 1 \in 0 .. Limit + 1
      BY <1>0
    <3> QED  BY <3>1 DEF Drains
  <2> QED  BY <1>11, <2>1
<1>14. Drains(q)'
  BY <1>11, <1>12, <1>13 DEF Drains
<1> QED  BY <1>14

\* Every step keeps the account of what was let through.
LEMMA OverspendStep == OverspendInv /\ [LimiterNext]_limiterVars => OverspendInv'
<1> SUFFICES ASSUME LimiterInv, NEW s, Drains(s), [LimiterNext]_limiterVars
             PROVE  LimiterInv' /\ \E q : Drains(q)'
  BY DEF OverspendInv
<1>1. LimiterInv'
  BY LimitsStep
<1>2. check \in [Workers -> CheckStates] /\ burst \in Nat
  BY DEF LimiterInv, LimiterTypeOK, CheckStates
<1>3. CASE burst' = 0
  BY <1>1, <1>3, DrainsBegin
<1>4. CASE RedisFails \/ (RedisReturns /\ UNCHANGED <<bucket, burst>>) \/ UNCHANGED limiterVars
  <2>1. UNCHANGED <<second, bucket, burst, check>>
    BY <1>4 DEF RedisFails, RedisReturns, limiterVars
  <2>2. \A l \in 0 .. Limit : Overtakers(l) \subseteq Overtakers(l)'
    BY <2>1 DEF Overtakers, Effective, Token, Full
  <2> QED  BY <1>1, <2>1, <2>2, NothingDrained
<1>5. ASSUME NEW w \in Workers, UNCHANGED <<second, bucket, burst>>, NEW c, check' = [check EXCEPT ![w] = c],
             c.at = "none" \/ (c.at = "read" /\ c.time = second)
      PROVE  \E q : Drains(q)'
  <2>1. check'[w] = c /\ \A v \in Workers \ {w} : check'[v] = check[v]
    BY <1>2, <1>5
  <2>2. \A l \in 0 .. Limit : Overtakers(l) \subseteq Overtakers(l)'
    BY <1>5, <2>1 DEF Overtakers, Effective, Token, Full
  <2>3. Drains(s)'
    BY <1>5, <2>2, NothingDrained
  <2> QED  BY <2>3
<1>6. ASSUME NEW w \in Workers, CheckStarts(w) PROVE \E q : Drains(q)'
  <2> DEFINE c == [NoCheck EXCEPT !.at = "read", !.time = second]
  <2>1. check' = [check EXCEPT ![w] = c] /\ UNCHANGED <<second, bucket, burst>>
    BY <1>6 DEF CheckStarts
  <2>2. c.at = "read" /\ c.time = second
    BY DEF NoCheck
  <2> HIDE DEF c
  <2> QED  BY <1>5, <2>1, <2>2
<1>7. ASSUME NEW w \in Workers, RedisDoesNotAnswer(w) PROVE \E q : Drains(q)'
  <2>1. check' = [check EXCEPT ![w] = NoCheck] /\ UNCHANGED <<second, bucket, burst>>
    BY <1>7 DEF RedisDoesNotAnswer, CheckMemory
  <2>2. NoCheck.at = "none"
    BY DEF NoCheck
  <2> QED  BY <1>5, <2>1, <2>2
<1>8. ASSUME NEW w \in Workers, ConsumeToken(w) \/ AnswerLost(w) PROVE \E q : Drains(q)'
  <2>1. /\ WriteBucket(w) /\ UNCHANGED second /\ check[w].at = "consume" /\ check' = [check EXCEPT ![w] = NoCheck]
        /\ burst' \in Nat /\ burst' <= burst + 1
    BY <1>2, <1>8 DEF ConsumeToken, AnswerLost, CheckMemory
  <2> QED  BY <1>2, <2>1, CheckOvertakes
<1>9. ASSUME NEW w \in Workers, ReadBucket(w) PROVE \E q : Drains(q)'
  <2> DEFINE tokens == Refilled(bucket, check[w].time)
             c == IF tokens >= Token THEN [check[w] EXCEPT !.at = "consume", !.tokens = tokens - Token] ELSE NoCheck
  <2>1. check' = [check EXCEPT ![w] = c] /\ UNCHANGED <<second, bucket, burst>> /\ check[w].at = "read"
    BY <1>9 DEF ReadBucket
  <2>2. CASE ~(tokens >= Token)
    <3>1. c.at = "none"
      BY <2>2 DEF NoCheck
    <3> HIDE DEF c
    <3> QED  BY <1>5, <2>1, <3>1
  <2>3. CASE tokens >= Token
    <3>1. c.at = "consume" /\ c.time = check[w].time /\ c.tokens = tokens - Token
      BY <1>2, <2>3 DEF CheckStates
    <3> HIDE DEF c
    <3>2. check'[w] = c /\ \A v \in Workers \ {w} : check'[v] = check[v]
      BY <1>2, <2>1
    <3>3. /\ check[w].time \in Nat /\ check[w].time <= second /\ second \in Nat
          /\ (bucket # NoBucket => bucket.tokens \in Nat /\ bucket.time \in Nat)
      BY LimiterAssumption, TokensAreNumbers DEF LimiterInv, LimiterTypeOK, ChecksInOrder
    <3>4. tokens \in Int /\ tokens <= Full
      BY <3>3, RefillBounded
    <3>5. ASSUME NEW l \in 0 .. Limit, (l + 1) * Token > Refilled(bucket, second)
          PROVE  Overtakers(l) \subseteq Overtakers(l)'
      <4>1. ASSUME NEW v \in Workers, v # w, v \in Overtakers(l) PROVE v \in Overtakers(l)'
        BY <2>1, <3>2, <4>1 DEF Overtakers, Effective, Token, Full
      <4>2. CASE w \notin Overtakers(l)
        BY <4>1, <4>2 DEF Overtakers
      <4>3. CASE w \in Overtakers(l)
        <5>1. check[w].time = second
          BY <2>1, <4>3 DEF Overtakers
        <5>2. Effective(w)' < l * Token
          <6>1. l * Token \in Nat /\ (l + 1) * Token = l * Token + Token /\ Token \in Nat /\ Limit \in Nat /\ Full \in Nat
            BY LimiterAssumption, TokensAreNumbers
          <6>2. tokens < l * Token + Token
            BY <3>5, <5>1, <6>1
          <6>3. tokens - Token < l * Token /\ tokens - Token <= Full
            BY <3>4, <6>1, <6>2
          <6>4. (second - c.time) * Limit = 0
            BY <3>1, <3>3, <5>1, <6>1
          <6>5. Effective(w)' = Smaller(Full, (tokens - Token) + 0)
            BY <2>1, <3>1, <3>2, <6>4 DEF Effective, Smaller, Full
          <6>6. tokens - Token \in Int /\ (tokens - Token) + 0 = tokens - Token
            BY <3>4, <6>1
          <6> HIDE DEF tokens
          <6>7. Smaller(Full, tokens - Token) = tokens - Token
            BY <6>1, <6>3, <6>6 DEF Smaller
          <6> QED  BY <6>3, <6>5, <6>6, <6>7
        <5>3. w \in Overtakers(l)'
          BY <3>1, <3>2, <5>2 DEF Overtakers, Token
        <5> QED  BY <4>1, <5>3 DEF Overtakers
      <4> QED  BY <4>2, <4>3
    <3>6. Drains(s)'
      BY <2>1, <3>5, NothingDrained
    <3> QED  BY <3>6
  <2> QED  BY <2>2, <2>3
<1>10. LimiterTick \/ ResetRateLimit \/ CleanupExpiredKeys \/ (RedisReturns /\ ~UNCHANGED <<bucket, burst>>) => burst' = 0
  BY DEF LimiterTick, ResetRateLimit, CleanupExpiredKeys, RedisReturns
<1> QED  BY <1>1, <1>3, <1>4, <1>6, <1>7, <1>8, <1>9, <1>10 DEF LimiterNext

\* What is let through is less than the ways down the whole grid.
LEMMA OverspendMeans == OverspendInv => OverspendBounded
<1> SUFFICES ASSUME LimiterInv, NEW s, Drains(s) PROVE OverspendBounded
  BY DEF OverspendInv
<1> DEFINE n == Cardinality(Workers)
           M == Limit + 1
<1>1. n \in Nat /\ M \in Nat /\ Limit \in Nat /\ M \in 0 .. M /\ burst \in Nat
  BY OvertakersCounted, LimiterAssumption DEF LimiterInv, LimiterTypeOK
<1>2. ASSUME NEW l \in Nat, l < M PROVE s[l + 1] <= s[l] + Fewer(l + 1, n)
  <2>1. l \in 0 .. Limit /\ l \in 0 .. Limit + 1 /\ l + 1 \in 0 .. Limit + 1 /\ l + 1 \in Nat
    BY <1>1, <1>2
  <2>2. s[l] \in Nat /\ s[l + 1] \in Nat /\ s[l + 1] <= s[l] + Room(l) /\ Room(l) \in Nat
    BY <2>1, RoomCounts DEF Drains
  <2>3. Cardinality(Overtakers(l)) \in Nat /\ Cardinality(Overtakers(l)) <= n
    BY OvertakersCounted
  <2>4. Fewer(l + 1, n) \in Nat /\ Fewer(l + 1, Cardinality(Overtakers(l))) <= Fewer(l + 1, n)
    BY <1>1, <2>1, <2>3, FewerGrows
  <2>5. Room(l) <= Fewer(l + 1, n)
    BY <2>4 DEF Room
  <2> QED  BY <2>2, <2>4, <2>5
<1>3. s[0] = 0 /\ (\A l \in 0 .. M : s[l] \in Nat) /\ burst <= s[M]
  BY DEF Drains
<1> HIDE DEF n, M
<1>4. \A l \in 0 .. M : s[l] + 1 <= Tracks(l, n)
  BY <1>1, <1>2, <1>3, DrainLimit
<1>5. s[M] + 1 <= Tracks(M, n) /\ s[M] \in Nat /\ Tracks(M, n) \in Nat
  BY <1>1, <1>3, <1>4, TracksAdd
<1>6. burst <= Tracks(M, n) - 1
  BY <1>1, <1>3, <1>5
<1> QED  BY <1>6 DEF OverspendBounded, Tracks, n, M

\* The processes together overspend the bucket they share by no more than the
\* checks that can be overtaken allow, whichever way the reads and the writes of
\* the checks interleave, and a process by itself admits no more than flows into
\* its own bucket (RedisRateLimiter._check_rate_limit_redis and _memory).
THEOREM AdmissionStaysBounded == LimiterSpec => []AdmissionBounded
<1>1. LimiterInit => OverspendInv
  <2>1. LimiterInit => burst = 0
    BY DEF LimiterInit
  <2> QED  BY <2>1, LimitsInit, DrainsBegin DEF OverspendInv
<1>2. LimiterSpec => []OverspendInv
  BY <1>1, OverspendStep, PTL DEF LimiterSpec
<1>3. OverspendInv => AdmissionBounded
  BY OverspendMeans DEF OverspendInv, LimiterInv, AdmissionBounded
<1> QED  BY <1>2, <1>3, PTL

-----------------------------------------------------------------------------
\* Of the stamps, or of the list of x, those of the minute before now.
RecentAt(stamps, now) == {s \in stamps : now - s.time < Minute}
ListAt(dict, x, now) == IF x \in DOMAIN dict THEN RecentAt(dict[x], now) ELSE {}

\* A dictionary of finite lists, by some of the keys.
StampLists(dict, keys) ==
    /\ DOMAIN dict \subseteq keys /\ dict \in [DOMAIN dict -> SUBSET WindowStamps]
    /\ \A x \in DOMAIN dict : IsFiniteSet(dict[x])

\* Nothing of the history of x is of the future, what it has of the minute before
\* now is in the dictionary, and no minute has more of it than the limit.
Observed(dict, x, stamps, limit, now) ==
    /\ IsFiniteSet(stamps) /\ \A s \in stamps : s.time <= now
    /\ RecentAt(stamps, now) \subseteq ListAt(dict, x, now)
    /\ \A t \in 0 .. WindowsEnd : Cardinality(MinuteTo(t, stamps)) <= limit

WindowAt(dict, history, keys, limit, now) ==
    /\ StampLists(dict, keys) /\ history \in [keys -> SUBSET WindowStamps]
    /\ \A x \in keys : Observed(dict, x, history[x], limit, now)

WindowsInv ==
    /\ minuteClock \in 0 .. WindowsEnd /\ served \in 0 .. RequestsMax
    /\ WindowAt(authFailures, failed, Addresses, FailureLimit, minuteClock)
    /\ WindowAt(requests, admitted, GoodKeys, RateLimit, minuteClock)

-----------------------------------------------------------------------------
\* The recent part of a list is a finite set of stamps.
LEMMA ListIsFinite ==
    ASSUME NEW dict, NEW keys, StampLists(dict, keys), NEW x, NEW now
    PROVE  IsFiniteSet(ListAt(dict, x, now)) /\ ListAt(dict, x, now) \subseteq WindowStamps
<1>1. CASE x \in DOMAIN dict
  <2>1. RecentAt(dict[x], now) \subseteq dict[x]
    BY DEF RecentAt
  <2> QED  BY <1>1, <2>1, FS_Subset DEF StampLists, ListAt
<1>2. CASE x \notin DOMAIN dict
  BY <1>2, FS_EmptySet DEF ListAt
<1> QED  BY <1>1, <1>2

\* What pruning takes out of a dictionary had nothing recent.
LEMMA PruningKeepsRecent ==
    ASSUME NEW dict, NEW keys, StampLists(dict, keys)
    PROVE  /\ StampLists(Pruned(dict), keys)
           /\ \A x : ListAt(Pruned(dict), x, minuteClock) = ListAt(dict, x, minuteClock)
           /\ \A x : RecentOf(Pruned(dict), x) = ListAt(dict, x, minuteClock)
<1>1. CASE Cardinality(DOMAIN dict) > TrackedMax
  <2>1. Pruned(dict) = [x \in {y \in DOMAIN dict : Recent(dict[y]) # {}} |-> dict[x]]
    BY <1>1 DEF Pruned
  <2> QED  BY <2>1 DEF StampLists, RecentOf, Recent, ListAt, RecentAt
<1>2. CASE ~(Cardinality(DOMAIN dict) > TrackedMax)
  BY <1>2 DEF Pruned, StampLists, RecentOf, Recent, ListAt, RecentAt
<1> QED  BY <1>1, <1>2

\* An entry that is put changes no other.
LEMMA PutKeepsOthers ==
    ASSUME NEW dict, NEW keys, StampLists(dict, keys), NEW x \in keys,
           NEW stamps \in SUBSET WindowStamps, IsFiniteSet(stamps), NEW now
    PROVE  /\ StampLists(Put(dict, x, stamps), keys)
           /\ Put(dict, x, stamps)[x] = stamps
           /\ ListAt(Put(dict, x, stamps), x, now) = RecentAt(stamps, now)
           /\ \A y : y # x => ListAt(Put(dict, x, stamps), y, now) = ListAt(dict, y, now)
  BY DEF Put, StampLists, ListAt

\* What a visit leaves: its own list cut to the recent stamps, the others
\* without what had nothing recent.
LEMMA VisitKeepsRecent ==
    ASSUME NEW dict, NEW keys, StampLists(dict, keys), NEW x \in keys
    PROVE  LET new == Put(Pruned(dict), x, RecentOf(Pruned(dict), x)) IN
           /\ StampLists(new, keys) /\ new[x] = ListAt(dict, x, minuteClock)
           /\ \A y : ListAt(new, y, minuteClock) = ListAt(dict, y, minuteClock)
<1> DEFINE recent == RecentOf(Pruned(dict), x)
           new == Put(Pruned(dict), x, recent)
<1>1. StampLists(Pruned(dict), keys) /\ recent = ListAt(dict, x, minuteClock)
      /\ \A y : ListAt(Pruned(dict), y, minuteClock) = ListAt(dict, y, minuteClock)
  BY PruningKeepsRecent
<1>2. recent \in SUBSET WindowStamps /\ IsFiniteSet(recent)
  BY <1>1, ListIsFinite
<1>3. RecentAt(recent, minuteClock) = recent
  BY <1>1 DEF ListAt, RecentAt
<1> HIDE DEF recent
<1>4. /\ StampLists(new, keys) /\ new[x] = recent
      /\ ListAt(new, x, minuteClock) = RecentAt(recent, minuteClock)
      /\ \A y : y # x => ListAt(new, y, minuteClock) = ListAt(Pruned(dict), y, minuteClock)
  BY <1>1, <1>2, PutKeepsOthers
<1>5. StampLists(new, keys) /\ new[x] = ListAt(dict, x, minuteClock)
      /\ \A y : ListAt(new, y, minuteClock) = ListAt(dict, y, minuteClock)
  BY <1>1, <1>3, <1>4
<1> QED  BY <1>5 DEF recent

\* With a stamp more.
LEMMA StampKeepsRecent ==
    ASSUME NEW dict, NEW keys, StampLists(dict, keys), NEW x \in keys,
           NEW stamps, stamps = ListAt(dict, x, minuteClock), Stamp \in WindowStamps
    PROVE  LET new == Put(dict, x, stamps \union {Stamp}) IN
           /\ StampLists(new, keys)
           /\ stamps \union {s \in {Stamp} : minuteClock - s.time < Minute} \subseteq ListAt(new, x, minuteClock)
           /\ \A y : y # x => ListAt(new, y, minuteClock) = ListAt(dict, y, minuteClock)
<1> DEFINE more == stamps \union {Stamp}
           new == Put(dict, x, more)
<1>1. IsFiniteSet(stamps) /\ stamps \subseteq WindowStamps
  BY ListIsFinite
<1>2. more \in SUBSET WindowStamps
  BY <1>1
<1>3. IsFiniteSet(more)
  BY <1>1, FS_AddElement
<1>4. /\ RecentAt(stamps, minuteClock) = stamps
      /\ stamps \union {s \in {Stamp} : minuteClock - s.time < Minute} = RecentAt(more, minuteClock)
  BY DEF ListAt, RecentAt
<1> HIDE DEF more
<1>5. /\ StampLists(new, keys) /\ ListAt(new, x, minuteClock) = RecentAt(more, minuteClock)
      /\ \A y : y # x => ListAt(new, y, minuteClock) = ListAt(dict, y, minuteClock)
  BY <1>2, <1>3, PutKeepsOthers
<1> QED  BY <1>4, <1>5 DEF more

-----------------------------------------------------------------------------
\* An observation stays true as time passes.
LEMMA ObservedLater ==
    ASSUME NEW dict, NEW x, NEW stamps \in SUBSET WindowStamps, NEW limit, NEW now \in Nat,
           \A y \in DOMAIN dict : dict[y] \subseteq WindowStamps,
           Observed(dict, x, stamps, limit, now)
    PROVE  Observed(dict, x, stamps, limit, now + 1)
<1>1. \A s \in WindowStamps : s.time \in Nat
  BY WindowsAssumption DEF WindowStamps
<1>2. \A s \in WindowStamps : (now + 1) - s.time < Minute => now - s.time < Minute
  BY <1>1, WindowsAssumption
<1>3. RecentAt(stamps, now + 1) \subseteq ListAt(dict, x, now + 1)
  BY <1>2 DEF Observed, RecentAt, ListAt
<1>4. \A s \in stamps : s.time <= now + 1
  BY <1>1 DEF Observed
<1> QED  BY <1>3, <1>4 DEF Observed

\* A stamp more than the limit allows for is never taken: what the history has of
\* the last minute is in the list that was counted.
LEMMA OneMoreObserved ==
    ASSUME NEW dict, NEW keys, StampLists(dict, keys), NEW x, NEW stamps \in SUBSET WindowStamps,
           NEW limit \in Nat, NEW now \in Nat, NEW s, s.time = now,
           Observed(dict, x, stamps, limit, now), Cardinality(ListAt(dict, x, now)) < limit,
           NEW new, ListAt(dict, x, now) \union {r \in {s} : now - r.time < Minute} \subseteq ListAt(new, x, now)
    PROVE  Observed(new, x, stamps \union {s}, limit, now)
<1> USE WindowsAssumption
<1> DEFINE counted == ListAt(dict, x, now)
           more == stamps \union {s}
<1>1. \A r \in stamps : r.time \in Nat /\ r.time <= now
  BY DEF WindowStamps, Observed
<1>2. IsFiniteSet(more) /\ \A r \in more : r.time <= now
  BY <1>1, FS_AddElement DEF Observed
<1>3. RecentAt(more, now) \subseteq ListAt(new, x, now)
  BY DEF RecentAt, Observed
<1>4. IsFiniteSet(counted) /\ IsFiniteSet(counted \union {s})
      /\ Cardinality(counted) \in Nat /\ Cardinality(counted \union {s}) <= Cardinality(counted) + 1
      /\ Cardinality(counted \union {s}) \in Nat
  <2>1. IsFiniteSet(counted) /\ Cardinality(counted) \in Nat
    BY ListIsFinite, FS_CardinalityType
  <2> HIDE DEF counted
  <2>2. /\ IsFiniteSet(counted \union {s})
        /\ Cardinality(counted \union {s}) = IF s \in counted THEN Cardinality(counted) ELSE Cardinality(counted) + 1
    BY <2>1, FS_AddElement
  <2> QED  BY <2>1, <2>2
<1>5. ASSUME NEW t \in 0 .. WindowsEnd PROVE Cardinality(MinuteTo(t, more)) <= limit
  <2>1. CASE t < now
    <3>1. MinuteTo(t, more) = MinuteTo(t, stamps)
      BY <2>1 DEF MinuteTo
    <3> QED  BY <3>1 DEF Observed
  <2>2. CASE t >= now
    <3>1. \A r \in stamps : t - r.time < Minute => now - r.time < Minute
      BY <1>1, <2>2
    <3>2. MinuteTo(t, more) \subseteq counted \union {s}
      BY <3>1 DEF MinuteTo, RecentAt, Observed
    <3>3. IsFiniteSet(MinuteTo(t, more)) /\ Cardinality(MinuteTo(t, more)) <= Cardinality(counted \union {s})
      BY <1>4, <3>2, FS_Subset
    <3>4. Cardinality(MinuteTo(t, more)) \in Nat
      BY <3>3, FS_CardinalityType
    <3> HIDE DEF counted, more
    <3> QED  BY <1>4, <3>3, <3>4 DEF counted
  <2> QED  BY <2>1, <2>2
<1> HIDE DEF more
<1>6. Observed(new, x, more, limit, now)
  BY <1>2, <1>3, <1>5 DEF Observed
<1> QED  BY <1>6 DEF more

-----------------------------------------------------------------------------
\* A visit that takes no stamp keeps a window.
LEMMA WindowVisited ==
    ASSUME NEW dict, NEW history, NEW keys, NEW limit, WindowAt(dict, history, keys, limit, minuteClock),
           NEW new, StampLists(new, keys),
           \A y : ListAt(new, y, minuteClock) = ListAt(dict, y, minuteClock)
    PROVE  WindowAt(new, history, keys, limit, minuteClock)
  BY DEF WindowAt, Observed

\* So does a visit that takes one within the limit.
LEMMA WindowStamped ==
    ASSUME NEW dict, NEW history, NEW keys, NEW limit \in Nat, minuteClock \in Nat,
           WindowAt(dict, history, keys, limit, minuteClock), NEW x \in keys, Stamp \in WindowStamps,
           NEW between, StampLists(between, keys),
           \A y : ListAt(between, y, minuteClock) = ListAt(dict, y, minuteClock),
           Cardinality(ListAt(dict, x, minuteClock)) < limit
    PROVE  WindowAt(Put(between, x, ListAt(dict, x, minuteClock) \union {Stamp}),
                    [history EXCEPT ![x] = @ \union {Stamp}], keys, limit, minuteClock)
<1> DEFINE list == ListAt(dict, x, minuteClock)
           new == Put(between, x, list \union {Stamp})
           after == [history EXCEPT ![x] = @ \union {Stamp}]
<1>1. /\ StampLists(new, keys)
      /\ list \union {s \in {Stamp} : minuteClock - s.time < Minute} \subseteq ListAt(new, x, minuteClock)
      /\ \A y : y # x => ListAt(new, y, minuteClock) = ListAt(dict, y, minuteClock)
  BY StampKeepsRecent
<1>2. after \in [keys -> SUBSET WindowStamps]
  BY DEF WindowAt
<1>3. Stamp.time = minuteClock
  BY DEF Stamp
<1>4. Observed(new, x, history[x] \union {Stamp}, limit, minuteClock)
  <2>1. StampLists(dict, keys) /\ history[x] \in SUBSET WindowStamps
        /\ Observed(dict, x, history[x], limit, minuteClock)
    BY DEF WindowAt
  <2> HIDE DEF new
  <2> QED  BY <1>1, <1>3, <2>1, OneMoreObserved
<1>5. ASSUME NEW y \in keys PROVE Observed(new, y, after[y], limit, minuteClock)
  <2> HIDE DEF new
  <2>1. CASE y = x
    <3>1. after[y] = history[x] \union {Stamp}
      BY <2>1 DEF WindowAt
    <3> HIDE DEF after
    <3> QED  BY <1>4, <2>1, <3>1
  <2>2. CASE y # x
    <3>1. after[y] = history[y]
      BY <2>2 DEF WindowAt
    <3> HIDE DEF after
    <3> QED  BY <1>1, <2>2, <3>1 DEF WindowAt, Observed
  <2> QED  BY <2>1, <2>2
<1> HIDE DEF new, after
<1>6. WindowAt(new, after, keys, limit, minuteClock)
  BY <1>1, <1>2, <1>5 DEF WindowAt
<1> QED  BY <1>6 DEF new, after

\* Nothing has happened at first.
LEMMA WindowsStart == WindowsInit => WindowsInv
<1> SUFFICES ASSUME WindowsInit PROVE WindowsInv
  OBVIOUS
<1> USE WindowsAssumption DEF WindowsInit
<1>1. \A dict, x, t : RecentAt({}, t) \subseteq ListAt(dict, x, t) /\ MinuteTo(t, {}) = {}
  BY DEF RecentAt, MinuteTo
<1>2. IsFiniteSet({}) /\ Cardinality({}) = 0
  BY FS_EmptySet
<1>3. ASSUME NEW dict, NEW x, NEW limit \in Nat PROVE Observed(dict, x, {}, limit, 0)
  <2>1. \A t \in 0 .. WindowsEnd : Cardinality(MinuteTo(t, {})) <= limit
    <3>1. \A t : MinuteTo(t, {}) = {}
      BY <1>1
    <3>2. 0 <= limit
      OBVIOUS
    <3> QED  BY <1>2, <3>1, <3>2, Zenon
  <2> QED  BY <1>1, <1>2, <2>1 DEF Observed
<1>4. \A keys : StampLists([x \in {} |-> {}], keys)
  BY DEF StampLists
<1>5. WindowAt(authFailures, failed, Addresses, FailureLimit, minuteClock)
  BY <1>3, <1>4 DEF WindowAt
<1>6. WindowAt(requests, admitted, GoodKeys, RateLimit, minuteClock)
  BY <1>3, <1>4 DEF WindowAt
<1> QED  BY <1>5, <1>6 DEF WindowsInv

\* Time and every request keep it.
LEMMA WindowsStep == WindowsInv /\ [WindowsNext]_windowsVars => WindowsInv'
<1> SUFFICES ASSUME WindowsInv, [WindowsNext]_windowsVars
             PROVE  WindowsInv'
  OBVIOUS
<1> USE WindowsAssumption
<1>1. /\ minuteClock \in 0 .. WindowsEnd /\ served \in 0 .. RequestsMax
      /\ minuteClock \in Nat /\ served \in Nat
      /\ WindowAt(authFailures, failed, Addresses, FailureLimit, minuteClock)
      /\ WindowAt(requests, admitted, GoodKeys, RateLimit, minuteClock)
      /\ StampLists(authFailures, Addresses) /\ StampLists(requests, GoodKeys)
  BY DEF WindowsInv, WindowAt
<1>2. CASE WindowsTick
  <2>1. minuteClock' = minuteClock + 1 /\ minuteClock + 1 \in 0 .. WindowsEnd
        /\ UNCHANGED <<served, authFailures, requests, failed, admitted>>
    BY <1>1, <1>2 DEF WindowsTick
  <2>2. ASSUME NEW dict, NEW history, NEW keys, NEW limit, WindowAt(dict, history, keys, limit, minuteClock)
        PROVE  WindowAt(dict, history, keys, limit, minuteClock + 1)
    <3>1. \A y \in DOMAIN dict : dict[y] \subseteq WindowStamps
      BY <2>2 DEF WindowAt, StampLists
    <3>2. ASSUME NEW x \in keys PROVE Observed(dict, x, history[x], limit, minuteClock + 1)
      <4>1. history[x] \in SUBSET WindowStamps /\ Observed(dict, x, history[x], limit, minuteClock)
        BY <2>2 DEF WindowAt
      <4> QED  BY <1>1, <3>1, <4>1, ObservedLater
    <3> QED  BY <2>2, <3>2 DEF WindowAt
  <2>3. WindowAt(authFailures', failed', Addresses, FailureLimit, minuteClock')
    BY <1>1, <2>1, <2>2
  <2>4. WindowAt(requests', admitted', GoodKeys, RateLimit, minuteClock')
    BY <1>1, <2>1, <2>2
  <2> QED  BY <2>1, <2>3, <2>4, <1>1 DEF WindowsInv
<1>3. ASSUME NEW a \in Addresses, Request(a) PROVE Stamp \in WindowStamps /\ served' \in 0 .. RequestsMax /\ UNCHANGED minuteClock
  BY <1>1, <1>3 DEF Request, Stamp, WindowStamps
<1>4. ASSUME NEW a \in Addresses
      PROVE  /\ StampLists(Looked(a), Addresses) /\ Looked(a)[a] = ListAt(authFailures, a, minuteClock)
             /\ \A y : ListAt(Looked(a), y, minuteClock) = ListAt(authFailures, y, minuteClock)
             /\ WindowAt(Looked(a), failed, Addresses, FailureLimit, minuteClock)
  <2>1. /\ StampLists(Looked(a), Addresses) /\ Looked(a)[a] = ListAt(authFailures, a, minuteClock)
        /\ \A y : ListAt(Looked(a), y, minuteClock) = ListAt(authFailures, y, minuteClock)
    BY <1>1, VisitKeepsRecent DEF Looked
  <2> HIDE DEF Looked
  <2> QED  BY <1>1, <2>1, WindowVisited
<1>5. ASSUME NEW a \in Addresses, TooManyFailures(a) PROVE WindowsInv'
  BY <1>1, <1>3, <1>4, <1>5 DEF TooManyFailures, Request, WindowsInv
<1>6. ASSUME NEW a \in Addresses, NEW key, Unauthorized(a, key) PROVE WindowsInv'
  <2>1. Cardinality(ListAt(authFailures, a, minuteClock)) < FailureLimit
    BY <1>1, <1>6, PruningKeepsRecent DEF Unauthorized, BudgetLeft
  <2>2. Stamp \in WindowStamps /\ served' \in 0 .. RequestsMax /\ UNCHANGED <<minuteClock, requests, admitted>>
    BY <1>3, <1>6 DEF Unauthorized
  <2>3. WindowAt(Put(Looked(a), a, Looked(a)[a] \union {Stamp}), [failed EXCEPT ![a] = @ \union {Stamp}],
                 Addresses, FailureLimit, minuteClock)
    <3> HIDE DEF Looked
    <3>1. FailureLimit \in Nat
      OBVIOUS
    <3> QED  BY <1>1, <1>4, <2>1, <2>2, <3>1, WindowStamped
  <2>4. authFailures' = Put(Looked(a), a, Looked(a)[a] \union {Stamp}) /\ failed' = [failed EXCEPT ![a] = @ \union {Stamp}]
    BY <1>6 DEF Unauthorized
  <2>5. WindowAt(authFailures', failed', Addresses, FailureLimit, minuteClock)
    BY <2>3, <2>4
  <2> QED  BY <1>1, <2>2, <2>5 DEF WindowsInv
<1>7. ASSUME NEW a \in Addresses, NEW key, Authorized(a, key)
      PROVE  /\ key \in GoodKeys /\ Stamp \in WindowStamps /\ served' \in 0 .. RequestsMax /\ UNCHANGED minuteClock
             /\ WindowAt(authFailures', failed', Addresses, FailureLimit, minuteClock)
             /\ StampLists(Pruned(requests), GoodKeys) /\ Counted(key) = ListAt(requests, key, minuteClock)
             /\ \A y : ListAt(Pruned(requests), y, minuteClock) = ListAt(requests, y, minuteClock)
  <2>1. key \in GoodKeys /\ authFailures' = Looked(a) /\ failed' = failed /\ Request(a)
    BY <1>7 DEF Authorized
  <2>2. WindowAt(authFailures', failed', Addresses, FailureLimit, minuteClock)
    BY <1>4, <2>1
  <2>3. /\ StampLists(Pruned(requests), GoodKeys) /\ Counted(key) = ListAt(requests, key, minuteClock)
        /\ \A y : ListAt(Pruned(requests), y, minuteClock) = ListAt(requests, y, minuteClock)
    BY <1>1, PruningKeepsRecent DEF Counted
  <2> QED  BY <1>3, <2>1, <2>2, <2>3
<1>8. ASSUME NEW a \in Addresses, NEW key, RateLimited(a, key) PROVE WindowsInv'
  <2>1. Authorized(a, key) /\ requests' = Put(Pruned(requests), key, Counted(key)) /\ admitted' = admitted
    BY <1>8 DEF RateLimited
  <2>2. /\ StampLists(requests', GoodKeys)
        /\ \A y : ListAt(requests', y, minuteClock) = ListAt(requests, y, minuteClock)
    BY <1>1, <1>7, <2>1, VisitKeepsRecent DEF Counted
  <2>3. WindowAt(requests', admitted', GoodKeys, RateLimit, minuteClock)
    BY <1>1, <2>1, <2>2, WindowVisited
  <2> QED  BY <1>1, <1>7, <2>1, <2>3 DEF WindowsInv
<1>9. ASSUME NEW a \in Addresses, NEW key, Admitted(a, key) PROVE WindowsInv'
  <2>1. /\ Authorized(a, key) /\ Cardinality(Counted(key)) < RateLimit
        /\ requests' = Put(Pruned(requests), key, Counted(key) \union {Stamp})
        /\ admitted' = [admitted EXCEPT ![key] = @ \union {Stamp}]
    BY <1>9 DEF Admitted
  <2>2. WindowAt(requests', admitted', GoodKeys, RateLimit, minuteClock)
    <3>1. RateLimit \in Nat
      OBVIOUS
    <3> QED  BY <1>1, <1>7, <2>1, <3>1, WindowStamped
  <2> QED  BY <1>1, <1>7, <2>1, <2>2 DEF WindowsInv
<1>10. CASE UNCHANGED windowsVars
  BY <1>1, <1>10 DEF windowsVars, WindowsInv
<1> QED  BY <1>2, <1>5, <1>6, <1>8, <1>9, <1>10 DEF WindowsNext

\* In no minute more refused keys or admitted requests than the limits allow.
THEOREM WindowsHold == WindowsSpec => []WindowLimits
<1>1. WindowsInv => WindowLimits
  BY DEF WindowsInv, WindowAt, Observed, WindowLimits
<1> QED  BY <1>1, WindowsStart, WindowsStep, PTL DEF WindowsSpec
-----------------------------------------------------------------------------
\* Searches run in a pool: what a caller has reported of a task it reports for
\* good, and a caller that goes leaves none unanswered, unless it gave up.
TaskAnswers == {"result", "error", "timeout"}

ReportsHold ==
    \A a \in DOMAIN reported :
        /\ task[a] \notin {"none", "queued"}
        /\ reported[a] = "result" => task[a] = "ok"
        /\ reported[a] = "error" => task[a] = "failed"
        /\ reported[a] = "timeout" => timedOut

SearchInv ==
    /\ SearchTypeOK /\ ReportsHold
    /\ DOMAIN reported \subseteq Tasks
    /\ caller = "start" => Submitted = {} /\ DOMAIN reported = {}
    /\ caller = "cancel" => timedOut
    /\ caller \in {"leave", "returned"} /\ (kind = "manager" \/ ~timedOut) => Pending = {}
    /\ caller = "returned" /\ ~(kind = "manager" /\ timedOut) => \A a \in Submitted : task[a] \in Ended

\* A caller that has returned has an answer for each of its searches, the right
\* one, or it is the fact checker or parallel_map and its time was up; these, and
\* a manager in time, have waited for every search to end.
ReturnedWhole ==
    caller = "returned" =>
        /\ kind = "manager" \/ ~timedOut => ReportIsComplete
        /\ ~(kind = "manager" /\ timedOut) => \A a \in Submitted : task[a] \in Ended

\* One more answer.
LEMMA ReportAdds ==
    ASSUME SearchTypeOK, DOMAIN reported \subseteq Tasks, NEW a \in Tasks, NEW said \in TaskAnswers,
           Report(a, said)
    PROVE  /\ DOMAIN reported' = DOMAIN reported \union {a} /\ DOMAIN reported' \subseteq Tasks
           /\ \A b \in DOMAIN reported' : reported'[b] = IF b = a THEN said ELSE reported[b]
           /\ \E s \in SUBSET Tasks : reported' \in [s -> TaskAnswers]
<1>1. PICK s \in SUBSET Tasks : reported \in [s -> TaskAnswers]
  BY DEF SearchTypeOK, TaskAnswers
<1>2. reported' = [b \in DOMAIN reported \union {a} |-> IF b = a THEN said ELSE reported[b]]
  BY DEF Report
<1>3. reported' \in [s \union {a} -> TaskAnswers]
  BY <1>1, <1>2
<1> QED  BY <1>1, <1>2, <1>3

\* A pool is never overfull: the tasks that run are as many as before, or fewer,
\* or one more where there was room.
LEMMA PoolHolds ==
    ASSUME NEW S, NEW T, IsFiniteSet(S), Cardinality(S) <= PoolSize, T \subseteq S
    PROVE  Cardinality(T) <= PoolSize
<1>1. IsFiniteSet(T) /\ Cardinality(T) <= Cardinality(S)
  BY FS_Subset
<1> QED  BY <1>1, PoolAssumption, FS_CardinalityType

\* Before it submits anything a caller has nothing to answer for.
LEMMA SearchStart == SearchInit => SearchInv
<1> SUFFICES ASSUME SearchInit PROVE SearchInv
  OBVIOUS
<1>1. Running = {} /\ Submitted = {} /\ DOMAIN reported = {} /\ reported \in [{} -> TaskAnswers]
  BY DEF SearchInit, Running, Submitted
<1>2. Cardinality(Running) <= PoolSize
  BY <1>1, FS_EmptySet, PoolAssumption
<1>3. \E s \in SUBSET Tasks : reported \in [s -> TaskAnswers]
  BY <1>1
<1>4. SearchTypeOK
  BY <1>2, <1>3 DEF SearchInit, SearchTypeOK, TaskAnswers
<1> QED  BY <1>1, <1>4 DEF SearchInit, SearchInv, ReportsHold

\* The steps of the callers and of the pool keep the answers and the limit.
LEMMA SearchStep == SearchInv /\ [SearchNext]_searchVars => SearchInv'
<1> SUFFICES ASSUME SearchInv, [SearchNext]_searchVars PROVE SearchInv'
  OBVIOUS
<1> DEFINE States == {"none", "queued", "running"} \union Ended
<1>0. /\ kind \in Kinds /\ caller \in {"start", "wait", "cancel", "leave", "returned"}
      /\ task \in [Tasks -> States] /\ timedOut \in BOOLEAN
      /\ \E s \in SUBSET Tasks : reported \in [s -> TaskAnswers]
      /\ Cardinality(Running) <= PoolSize
      /\ DOMAIN reported \subseteq Tasks
  BY DEF SearchInv, SearchTypeOK, TaskAnswers
<1>a. IsFiniteSet(Running) /\ Cardinality(Running) \in Nat
  <2>1. Running \subseteq Tasks
    BY DEF Running
  <2> QED  BY <2>1, PoolAssumption, FS_Subset, FS_CardinalityType
<1>1. CASE UNCHANGED searchVars
  BY <1>1 DEF searchVars, SearchInv, SearchTypeOK, ReportsHold, Running, Submitted, Pending
<1>2. CASE Submit
  <2>1. /\ Running' = {} /\ DOMAIN reported = {} /\ reported' = reported /\ kind' = kind /\ timedOut' = timedOut
        /\ caller' = "wait" /\ task' \in [Tasks -> States]
    BY <1>2 DEF Submit, Running, SearchInv
  <2>2. Cardinality(Running') <= PoolSize
    BY <2>1, FS_EmptySet, PoolAssumption
  <2>3. SearchTypeOK'
    BY <1>0, <2>1, <2>2 DEF SearchTypeOK, TaskAnswers
  <2> QED  BY <2>1, <2>3 DEF SearchInv, ReportsHold
<1>3. ASSUME NEW a \in Tasks, StartTask(a) PROVE SearchInv'
  <2>1. /\ task[a] = "queued" /\ task' = [task EXCEPT ![a] = "running"] /\ task' \in [Tasks -> States]
        /\ kind' = kind /\ caller' = caller /\ reported' = reported /\ timedOut' = timedOut
    BY <1>0, <1>3 DEF StartTask
  <2>2. Cardinality(Running) < PoolSize
    BY <1>3, <1>a, PoolAssumption DEF StartTask
  <2>3. Running' = Running \union {a} /\ Submitted' = Submitted
    BY <1>0, <2>1 DEF Running, Submitted
  <2>4. Cardinality(Running') <= PoolSize
    <3>1. Cardinality(Running') \in {Cardinality(Running), Cardinality(Running) + 1}
      BY <1>a, <2>3, FS_AddElement
    <3> QED  BY <1>a, <2>2, <3>1, PoolAssumption
  <2>5. SearchTypeOK'
    BY <1>0, <2>1, <2>4 DEF SearchTypeOK, TaskAnswers
  <2>6. ReportsHold' /\ a \notin DOMAIN reported
    BY <1>0, <2>1 DEF SearchInv, ReportsHold
  <2>7. ~(caller \in {"leave", "returned"} /\ (kind = "manager" \/ ~timedOut)) /\ a \in Pending
    BY <2>1, <2>6 DEF SearchInv, Pending, Submitted
  <2>8. ~(caller = "returned" /\ ~(kind = "manager" /\ timedOut))
    BY <2>1 DEF SearchInv, Submitted, Ended
  <2> QED  BY <1>0, <2>1, <2>3, <2>5, <2>6, <2>7, <2>8 DEF SearchInv, Submitted
<1>4. ASSUME NEW a \in Tasks, EndTask(a) PROVE SearchInv'
  <2>1. PICK end \in {"ok", "failed"} : task' = [task EXCEPT ![a] = end]
    BY <1>4 DEF EndTask
  <2>2. /\ task[a] = "running" /\ task' \in [Tasks -> States]
        /\ kind' = kind /\ caller' = caller /\ reported' = reported /\ timedOut' = timedOut
    BY <1>0, <1>4, <2>1 DEF EndTask, Ended
  <2>3. Running' \subseteq Running /\ Submitted' = Submitted
    BY <1>0, <2>1, <2>2 DEF Running, Submitted
  <2>4. Cardinality(Running') <= PoolSize
    BY <1>0, <1>a, <2>3, PoolHolds
  <2>5. SearchTypeOK'
    BY <1>0, <2>2, <2>4 DEF SearchTypeOK, TaskAnswers
  <2>6. ReportsHold'
    BY <1>0, <2>1, <2>2 DEF SearchInv, ReportsHold
  <2>7. \A b \in Submitted : task[b] \in Ended => task'[b] \in Ended
    BY <1>0, <2>1, <2>2 DEF Submitted, Ended
  <2> QED  BY <1>0, <2>2, <2>3, <2>5, <2>6, <2>7 DEF SearchInv, Pending
<1>5. ASSUME NEW a \in Tasks, Collect(a) PROVE SearchInv'
  <2> DEFINE said == IF task[a] = "ok" THEN "result" ELSE "error"
  <2>1. /\ caller = "wait" /\ task[a] \in {"ok", "failed"} /\ Report(a, said)
        /\ kind' = kind /\ caller' = caller /\ task' = task /\ timedOut' = timedOut
    BY <1>5 DEF Collect
  <2>2. SearchTypeOK /\ said \in TaskAnswers
    BY DEF SearchInv, TaskAnswers
  <2>3. /\ DOMAIN reported' = DOMAIN reported \union {a} /\ DOMAIN reported' \subseteq Tasks
        /\ \A b \in DOMAIN reported' : reported'[b] = IF b = a THEN said ELSE reported[b]
        /\ \E s \in SUBSET Tasks : reported' \in [s -> TaskAnswers]
    BY <1>0, <2>1, <2>2, ReportAdds
  <2>4. SearchTypeOK'
    BY <1>0, <2>1, <2>3 DEF SearchTypeOK, Running, TaskAnswers
  <2>5. ReportsHold'
    BY <2>1, <2>3 DEF SearchInv, ReportsHold
  <2> QED  BY <2>1, <2>3, <2>4, <2>5 DEF SearchInv
<1>6. ASSUME NEW a \in Tasks, Cancel(a) PROVE SearchInv'
  <2>1. /\ caller = "cancel" /\ a \in Pending /\ Report(a, "timeout")
        /\ task' = IF task[a] = "queued" THEN [task EXCEPT ![a] = "cancelled"] ELSE task
        /\ kind' = kind /\ caller' = caller /\ timedOut' = timedOut
    BY <1>6 DEF Cancel
  <2>2. SearchTypeOK /\ "timeout" \in TaskAnswers
    BY DEF SearchInv, TaskAnswers
  <2>3. /\ DOMAIN reported' = DOMAIN reported \union {a} /\ DOMAIN reported' \subseteq Tasks
        /\ \A b \in DOMAIN reported' : reported'[b] = IF b = a THEN "timeout" ELSE reported[b]
        /\ \E s \in SUBSET Tasks : reported' \in [s -> TaskAnswers]
    BY <1>0, <2>1, <2>2, ReportAdds
  <2>4. task' \in [Tasks -> States] /\ Running' = Running
    BY <1>0, <2>1 DEF Running, Ended
  <2>5. SearchTypeOK'
    BY <1>0, <2>1, <2>3, <2>4 DEF SearchTypeOK, TaskAnswers
  <2>6. timedOut /\ task[a] # "none"
    BY <1>0, <2>1 DEF SearchInv, Pending, Submitted
  <2>7. ReportsHold'
    BY <1>0, <2>1, <2>3, <2>6 DEF SearchInv, ReportsHold
  <2> QED  BY <2>1, <2>3, <2>5, <2>7 DEF SearchInv
<1>7. CASE AllCollected \/ AllCancelled
  <2>1. /\ Pending = {} /\ caller' = "leave"
        /\ kind' = kind /\ task' = task /\ reported' = reported /\ timedOut' = timedOut
    BY <1>7 DEF AllCollected, AllCancelled
  <2> QED  BY <1>0, <2>1 DEF SearchInv, SearchTypeOK, ReportsHold, Running, Submitted, Pending
<1>8. CASE Timeout
  <2>1. /\ timedOut' = TRUE /\ caller' = (IF kind = "manager" THEN "cancel" ELSE "leave")
        /\ kind' = kind /\ task' = task /\ reported' = reported
    BY <1>8 DEF Timeout
  <2>2. SearchTypeOK' /\ ReportsHold'
    BY <1>0, <2>1 DEF SearchInv, SearchTypeOK, ReportsHold, Running
  <2> QED  BY <1>0, <2>1, <2>2 DEF SearchInv
<1>9. CASE Leave
  <2>1. /\ caller = "leave" /\ caller' = "returned"
        /\ kind' = kind /\ reported' = reported /\ timedOut' = timedOut
    BY <1>9 DEF Leave
  <2>2. CASE kind = "manager" /\ timedOut
    <3>1. task' = [a \in Tasks |-> IF task[a] = "queued" THEN "cancelled" ELSE task[a]]
      BY <1>9, <2>2 DEF Leave
    <3>2. task' \in [Tasks -> States] /\ Running' = Running /\ Submitted' = Submitted
      BY <1>0, <3>1 DEF Running, Submitted, Ended
    <3>3. SearchTypeOK'
      BY <1>0, <2>1, <3>2 DEF SearchTypeOK, TaskAnswers
    <3>4. ReportsHold'
      BY <1>0, <2>1, <3>1 DEF SearchInv, ReportsHold
    <3> QED  BY <1>0, <2>1, <2>2, <3>2, <3>3, <3>4 DEF SearchInv, Pending
  <2>3. CASE ~(kind = "manager" /\ timedOut)
    <3>1. task' = task /\ \A a \in Submitted : task[a] \in Ended
      BY <1>9, <2>3 DEF Leave
    <3> QED  BY <1>0, <2>1, <3>1 DEF SearchInv, SearchTypeOK, ReportsHold, Running, Submitted, Pending
  <2> QED  BY <2>2, <2>3
<1> QED  BY <1>1, <1>2, <1>3, <1>4, <1>5, <1>6, <1>7, <1>8, <1>9 DEF SearchNext, CallerStep, PoolStep

\* A pool never runs more tasks than it has workers (utils/parallel_search.py).
THEOREM SearchTypesHold == SearchSpec => []SearchTypeOK
<1>1. SearchInv => SearchTypeOK
  BY DEF SearchInv
<1> QED  BY <1>1, SearchStart, SearchStep, PTL DEF SearchSpec

\* When _run_searches, parallel_map or the fact checker's call returns, what it
\* says of its searches is right and complete, whatever hung or came late.
THEOREM SearchReturnsWhole == SearchSpec => []ReturnedWhole
<1>1. SearchInv => ReturnedWhole
  <2> SUFFICES ASSUME SearchInv PROVE ReturnedWhole
    OBVIOUS
  <2>1. ASSUME caller = "returned", kind = "manager" \/ ~timedOut PROVE ReportIsComplete
    <3>1. Submitted \subseteq DOMAIN reported
      BY <2>1 DEF SearchInv, Pending
    <3> QED  BY <3>1 DEF SearchInv, ReportsHold, ReportIsComplete
  <2>2. ASSUME caller = "returned", ~(kind = "manager" /\ timedOut) PROVE \A a \in Submitted : task[a] \in Ended
    BY <2>2 DEF SearchInv
  <2> QED  BY <2>1, <2>2 DEF ReturnedWhole
<1> QED  BY <1>1, SearchStart, SearchStep, PTL DEF SearchSpec
-----------------------------------------------------------------------------
\* The values the API server can have, and what its components tell: the ones
\* whose creation did not fail, but the processor of adaptive queries.
ApiPlaces ==
    [at : {"none", "thread", "lock", "open", "dump", "replace"},
     for : {"none", "/query", "/query-adaptive", "/config"},
     setting : Settings \union {NoClient}, nr : 0 .. UpdatesMax]

QueryLost == answer.status = "unavailable" /\ answer.path = "/query" => lost \cap {"agent", "multihop"} # {}

ApiInv ==
    /\ ApiTypeOK
    /\ \A c \in Clients : request[c].at \in {"lock", "open", "dump", "replace"} => request[c].setting \in Settings
    /\ \A c \in Clients : request[c].at = "thread" => request[c].for \in {"/query", "/query-adaptive"}
    /\ server = "up" => runtime = Assigned(lost)
    /\ server = "down" => runtime = {}
    /\ QueryLost

\* A configuration, and one with a setting changed.
LEMMA ConfigChanged ==
    ASSUME NEW f \in Configs, NEW s \in Settings, NEW n \in 0 .. UpdatesMax
    PROVE  [f EXCEPT ![s] = n] \in Configs
<1>1. CASE f \in [Settings -> 0 .. UpdatesMax]
  BY <1>1 DEF Configs
<1>2. CASE f = Partial
  <2>1. [f EXCEPT ![s] = n] = Partial
    BY <1>2 DEF Partial
  <2> QED  BY <2>1 DEF Configs
<1> QED  BY <1>1, <1>2 DEF Configs

\* At first the server is down.
LEMMA ApiBegins == ApiInit => ApiInv
  BY ApiAssumption DEF ApiInit, ApiInv, ApiTypeOK, QueryLost, Configs, Original, NoRequest, NoAnswer, Statuses, Paths

\* An answer to a client whose request is over.
LEMMA AnswerTyped ==
    ASSUME ApiInv, NEW c \in Clients, NEW path \in Paths, NEW status \in Statuses \ {"unavailable"},
           Answers(c, path, status), UNCHANGED <<config, configFile, configTmp, configLock, updates, kills, kept>>
    PROVE  ApiInv'
<1> DEFINE now == [status |-> status, path |-> path]
<1>1. /\ answer' = now /\ request' = [request EXCEPT ![c] = NoRequest]
      /\ server' = server /\ lost' = lost /\ runtime' = runtime
  BY DEF Answers
<1>2. now \in [status : Statuses, path : Paths] /\ now.status = status
  OBVIOUS
<1>3. NoRequest \in ApiPlaces /\ NoRequest.at = "none"
  BY ApiAssumption DEF NoRequest, ApiPlaces
<1>4. request \in [Clients -> ApiPlaces]
  BY DEF ApiInv, ApiTypeOK, ApiPlaces
<1> HIDE DEF now
<1>5. request' \in [Clients -> ApiPlaces] /\ \A d \in Clients : request'[d] = request[d] \/ request'[d] = NoRequest
  BY <1>1, <1>3, <1>4
<1>6. ApiTypeOK'
  BY <1>1, <1>2, <1>5 DEF ApiInv, ApiTypeOK, ApiPlaces
<1>7. QueryLost'
  BY <1>1, <1>2 DEF QueryLost
<1>8. \A d \in Clients :
         /\ request'[d].at \in {"lock", "open", "dump", "replace"} => request'[d].setting \in Settings
         /\ request'[d].at = "thread" => request'[d].for \in {"/query", "/query-adaptive"}
  BY <1>3, <1>5 DEF ApiInv
<1> QED  BY <1>1, <1>6, <1>7, <1>8 DEF ApiInv

\* A request that goes on.
LEMMA RequestTyped ==
    ASSUME ApiInv, NEW c \in Clients, NEW place \in ApiPlaces, request' = [request EXCEPT ![c] = place],
           place.at \in {"lock", "open", "dump", "replace"} => place.setting \in Settings,
           place.at = "thread" => place.for \in {"/query", "/query-adaptive"},
           UNCHANGED <<server, lost, runtime, answer, configFile, kills, kept>>,
           config' \in Configs, configTmp' \in Configs, configLock' \in Clients \union {NoClient},
           updates' \in 0 .. UpdatesMax
    PROVE  ApiInv'
<1>1. request \in [Clients -> ApiPlaces]
  BY DEF ApiInv, ApiTypeOK, ApiPlaces
<1>2. request' \in [Clients -> ApiPlaces] /\ \A d \in Clients : request'[d] = IF d = c THEN place ELSE request[d]
  BY <1>1
<1>3. ApiTypeOK'
  BY <1>2 DEF ApiInv, ApiTypeOK, ApiPlaces
<1>4. \A d \in Clients :
         /\ request'[d].at \in {"lock", "open", "dump", "replace"} => request'[d].setting \in Settings
         /\ request'[d].at = "thread" => request'[d].for \in {"/query", "/query-adaptive"}
  BY <1>2 DEF ApiInv
<1> QED  BY <1>3, <1>4 DEF ApiInv, QueryLost

\* The steps keep to these values.
LEMMA ApiStays == ApiInv /\ [ApiNext]_apiVars => ApiInv'
<1> SUFFICES ASSUME ApiInv, [ApiNext]_apiVars PROVE ApiInv'
  OBVIOUS
<1> USE ApiAssumption
<1>0. /\ config \in Configs /\ configTmp \in Configs /\ configFile \in Configs /\ Partial \in Configs
      /\ Original \in Configs /\ configLock \in Clients \union {NoClient} /\ updates \in 0 .. UpdatesMax
      /\ request \in [Clients -> ApiPlaces]
  BY DEF ApiInv, ApiTypeOK, Configs, Original, ApiPlaces
<1>1. CASE Startup
  <2>1. PICK f \in SUBSET MayFail : lost' = f /\ runtime' = Assigned(f)
    BY <1>1 DEF Startup
  <2>2. Assigned(f) \subseteq Components
    BY DEF Assigned, Components
  <2>3. config' \in Configs
    BY <1>0, <1>1 DEF Startup
  <2>4. answer' \in [status : Statuses, path : Paths] /\ QueryLost'
    BY <1>1 DEF Startup, NoAnswer, Statuses, Paths, QueryLost
  <2> QED  BY <1>1, <2>1, <2>2, <2>3, <2>4 DEF Startup, ApiInv, ApiTypeOK, configFiles, book
<1>2. CASE Shutdown
  BY <1>2 DEF Shutdown, ApiInv, ApiTypeOK, QueryLost, configFiles, book
<1>3. CASE KillServer
  <2>1. /\ request' \in [Clients -> ApiPlaces] /\ kills' \in 0 .. KillsMax
        /\ \A c \in Clients : request'[c].at = "none"
    BY <1>3 DEF KillServer, ApiInv, ApiTypeOK, NoRequest, ApiPlaces
  <2> QED  BY <1>3, <2>1 DEF KillServer, ApiInv, ApiTypeOK, QueryLost, ApiPlaces, configFiles
<1>4. ASSUME NEW c \in Clients, ApiStep(c) PROVE ApiInv'
  <2>1. CASE Refused(c) \/ Health(c) \/ Read(c)
    <3>1. PICK path \in Paths, status \in Statuses \ {"unavailable"} : Answers(c, path, status)
      BY <2>1 DEF Refused, Health, Read, Paths, Statuses
    <3> QED  BY <2>1, <3>1, AnswerTyped DEF Refused, Health, Read, configFiles, book
  <2>2. CASE QueryDone(c)
    <3>1. PICK status \in {"ok", "error"} : Answers(c, request[c].for, status)
      BY <2>2 DEF QueryDone
    <3>2. request[c].for \in Paths /\ status \in Statuses \ {"unavailable"}
      BY <2>2 DEF QueryDone, ApiInv, Paths, Statuses
    <3> QED  BY <2>2, <3>1, <3>2, AnswerTyped DEF QueryDone, configFiles, book
  <2>3. CASE Query(c) \/ QueryAdaptive(c)
    <3>1. server = "up" /\ runtime = Assigned(lost)
          /\ UNCHANGED <<config, configFile, configTmp, configLock, updates, kills, kept>>
      BY <2>3 DEF Query, QueryAdaptive, ApiInv, configFiles, book
    <3>2. ASSUME NEW path \in {"/query", "/query-adaptive"}, Working(c, "thread", path) PROVE ApiInv'
      <4> DEFINE place == [NoRequest EXCEPT !.at = "thread", !.for = path]
      <4>1. request' = [request EXCEPT ![c] = place] /\ UNCHANGED <<server, lost, runtime, answer>>
        BY <3>2 DEF Working
      <4>2. NoRequest \in ApiPlaces
        BY DEF NoRequest, ApiPlaces
      <4>3. place \in ApiPlaces
        BY <4>2 DEF ApiPlaces
      <4>4. place.at = "thread" /\ place.for = path
        BY <4>2 DEF ApiPlaces
      <4> HIDE DEF place
      <4> QED  BY <1>0, <3>1, <4>1, <4>3, <4>4, RequestTyped
    <3>3. ASSUME NEW path \in {"/query", "/query-adaptive"}, Answers(c, path, "unavailable"),
                 path = "/query" => lost \cap {"agent", "multihop"} # {}
          PROVE  ApiInv'
      <4>1. /\ answer' = [status |-> "unavailable", path |-> path] /\ request' = [request EXCEPT ![c] = NoRequest]
            /\ server' = server /\ lost' = lost /\ runtime' = runtime
        BY <3>3 DEF Answers
      <4>2. answer' \in [status : Statuses, path : Paths] /\ QueryLost'
        BY <3>3, <4>1 DEF Statuses, Paths, QueryLost
      <4>3. NoRequest \in ApiPlaces /\ NoRequest.at = "none"
        BY DEF NoRequest, ApiPlaces
      <4>4. request' \in [Clients -> ApiPlaces] /\ \A d \in Clients : request'[d] = request[d] \/ request'[d] = NoRequest
        BY <1>0, <4>1, <4>3
      <4>5. ApiTypeOK'
        BY <3>1, <4>1, <4>2, <4>4 DEF ApiInv, ApiTypeOK, ApiPlaces
      <4> QED  BY <4>1, <4>2, <4>3, <4>4, <4>5 DEF ApiInv
    <3>4. CASE Query(c)
      <4>1. PICK agent \in {"agent", "multihop_agent"} :
               IF agent \in runtime THEN Working(c, "thread", "/query") ELSE Answers(c, "/query", "unavailable")
        BY <3>4 DEF Query
      <4>2. agent \notin runtime => lost \cap {"agent", "multihop"} # {}
        BY <3>1 DEF Assigned
      <4> QED  BY <3>2, <3>3, <4>1, <4>2
    <3>5. CASE QueryAdaptive(c)
      BY <3>2, <3>3, <3>5 DEF QueryAdaptive
    <3> QED  BY <2>3, <3>4, <3>5
  <2>4. CASE Update(c)
    <3>1. UNCHANGED <<config, configFile, configTmp, configLock, updates, kills, kept>>
      BY <2>4 DEF Update, configFiles, book
    <3>2. CASE Answers(c, "/config", "refused")
      <4>1. "/config" \in Paths /\ "refused" \in Statuses \ {"unavailable"}
        BY DEF Paths, Statuses
      <4> QED  BY <3>1, <3>2, <4>1, AnswerTyped
    <3>3. ASSUME NEW s \in Settings, UNCHANGED <<server, lost, runtime, answer>>,
                 request' = [request EXCEPT ![c] = [at |-> "lock", for |-> "/config", setting |-> s, nr |-> 0]]
          PROVE  ApiInv'
      <4> DEFINE place == [at |-> "lock", for |-> "/config", setting |-> s, nr |-> 0]
      <4>1. place \in ApiPlaces /\ place.at = "lock" /\ place.setting = s
        BY DEF ApiPlaces
      <4>2. request' = [request EXCEPT ![c] = place]
        BY <3>3
      <4> HIDE DEF place
      <4> QED  BY <1>0, <3>1, <3>3, <4>1, <4>2, RequestTyped
    <3> QED  BY <2>4, <3>2, <3>3 DEF Update
  <2>5. CASE TakeLock(c)
    <3> DEFINE place == [request[c] EXCEPT !.at = "open", !.nr = updates + 1]
    <3>1. /\ request[c].at = "lock" /\ updates < UpdatesMax /\ updates' = updates + 1 /\ configLock' = c
          /\ config' = [config EXCEPT ![request[c].setting] = updates + 1]
          /\ request' = [request EXCEPT ![c] = place]
          /\ UNCHANGED <<server, lost, runtime, answer, configFile, configTmp, kills, kept>>
      BY <2>5 DEF TakeLock, Assign, configFiles
    <3>2. request[c].setting \in Settings /\ updates + 1 \in 0 .. UpdatesMax
      BY <1>0, <3>1 DEF ApiInv
    <3>3. place \in ApiPlaces /\ place.at = "open" /\ place.setting = request[c].setting
      BY <1>0, <3>2 DEF ApiPlaces
    <3> HIDE DEF place
    <3>4. config' \in Configs
      BY <1>0, <3>1, <3>2, ConfigChanged
    <3> QED  BY <1>0, <3>1, <3>2, <3>3, <3>4, RequestTyped
  <2>6. CASE OpenTmpFile(c) \/ DumpConfig(c)
    <3>1. PICK at \in {"dump", "replace"} : request' = [request EXCEPT ![c].at = at]
      BY <2>6 DEF OpenTmpFile, DumpConfig
    <3> DEFINE place == [request[c] EXCEPT !.at = at]
    <3>2. request[c].at \in {"open", "dump"} /\ request' = [request EXCEPT ![c] = place]
      BY <2>6, <3>1 DEF OpenTmpFile, DumpConfig
    <3>3. place \in ApiPlaces /\ place.at = at /\ place.setting \in Settings
      BY <1>0, <3>2 DEF ApiPlaces, ApiInv
    <3>4. /\ UNCHANGED <<server, lost, runtime, answer, config, configFile, configLock, updates, kills, kept>>
          /\ configTmp' \in Configs
      BY <1>0, <2>6 DEF OpenTmpFile, DumpConfig, book
    <3> HIDE DEF place
    <3> QED  BY <1>0, <3>2, <3>3, <3>4, RequestTyped
  <2>7. CASE ReplaceConfig(c)
    <3>1. request[c].setting \in Settings /\ request[c].nr \in 0 .. UpdatesMax
      BY <1>0, <2>7 DEF ReplaceConfig, ApiInv, ApiPlaces
    <3>2. kept' \in [Settings -> 0 .. UpdatesMax] /\ configFile' \in Configs /\ configTmp' \in Configs
          /\ configLock' \in Clients \union {NoClient}
      BY <1>0, <2>7, <3>1 DEF ReplaceConfig, Unlock, ApiInv, ApiTypeOK
    <3>3. /\ answer' = [status |-> "ok", path |-> "/config"] /\ request' = [request EXCEPT ![c] = NoRequest]
          /\ UNCHANGED <<server, lost, runtime, config, updates, kills>>
      BY <2>7 DEF ReplaceConfig, Answers
    <3>4. answer' \in [status : Statuses, path : Paths] /\ QueryLost'
      BY <3>3 DEF Statuses, Paths, QueryLost
    <3>5. NoRequest \in ApiPlaces /\ NoRequest.at = "none"
      BY DEF NoRequest, ApiPlaces
    <3>6. request' \in [Clients -> ApiPlaces] /\ \A d \in Clients : request'[d] = request[d] \/ request'[d] = NoRequest
      BY <1>0, <3>3, <3>5
    <3>7. ApiTypeOK'
      BY <3>2, <3>3, <3>4, <3>6 DEF ApiInv, ApiTypeOK, ApiPlaces
    <3> QED  BY <3>3, <3>4, <3>5, <3>6, <3>7 DEF ApiInv
  <2>8. CASE UpdateFails(c)
    <3>1. /\ answer' = [status |-> "error", path |-> "/config"] /\ request' = [request EXCEPT ![c] = NoRequest]
          /\ UNCHANGED <<server, lost, runtime, config, configFile, configTmp, updates, kills, kept>>
          /\ configLock' \in Clients \union {NoClient}
      BY <1>0, <2>8 DEF UpdateFails, Unlock, Answers, configFiles, book
    <3>2. answer' \in [status : Statuses, path : Paths] /\ QueryLost'
      BY <3>1 DEF Statuses, Paths, QueryLost
    <3>3. NoRequest \in ApiPlaces /\ NoRequest.at = "none"
      BY DEF NoRequest, ApiPlaces
    <3>4. request' \in [Clients -> ApiPlaces] /\ \A d \in Clients : request'[d] = request[d] \/ request'[d] = NoRequest
      BY <1>0, <3>1, <3>3
    <3>5. ApiTypeOK'
      BY <3>1, <3>2, <3>4 DEF ApiInv, ApiTypeOK, ApiPlaces
    <3> QED  BY <3>1, <3>2, <3>3, <3>4, <3>5 DEF ApiInv
  <2> QED  BY <1>4, <2>1, <2>2, <2>3, <2>4, <2>5, <2>6, <2>7, <2>8 DEF ApiStep
<1>5. CASE UNCHANGED apiVars
  BY <1>5 DEF apiVars, ApiInv, ApiTypeOK, QueryLost, configFiles, book
<1> QED  BY <1>1, <1>2, <1>3, <1>4, <1>5 DEF ApiNext

\* Every reachable state of the server is well typed (app.py).
THEOREM ApiTypesHold == ApiSpec => []ApiTypeOK
<1>1. ApiInv => ApiTypeOK
  BY DEF ApiInv
<1> QED  BY <1>1, ApiBegins, ApiStays, PTL DEF ApiSpec

\* /query answers 503 only when an agent could not be created at startup, and
\* /query-adaptive always: no startup assigns its processor (startup_event).
THEOREM QueriesUnavailable == ApiSpec => [](QueryLost /\ "adaptive_query_processor" \notin runtime)
<1>1. ApiInv => QueryLost /\ "adaptive_query_processor" \notin runtime
  BY DEF ApiInv, ApiTypeOK, Assigned
<1> QED  BY <1>1, ApiBegins, ApiStays, PTL DEF ApiSpec
-----------------------------------------------------------------------------
\* The rest of what is known of the keys.
KeyRest ==
    /\ keyRedis \in {"up", "down"} /\ faults \in 0 .. Failures
    /\ byId \subseteq ApiKeys /\ expired \subseteq ApiKeys /\ excused \subseteq ApiKeys

\* It is what the steps keep it to be.
LEMMA KeyRestStep == KeyInv /\ KeyRest /\ [CredentialsNext]_credentialsVars => KeyRest'
<1> SUFFICES ASSUME KeyInv, KeyRest, [CredentialsNext]_credentialsVars
             PROVE  KeyRest'
  OBVIOUS
<1> USE CredentialsAssumption DEF KeyRest
<1>0. \A p \in Processes : call[p].at # "none" => call[p].key \in ApiKeys
  BY DEF KeyInv, StoreTypes
<1>1. CASE KeyRedisFails
  BY <1>1 DEF KeyRedisFails, StoresUnchanged
<1>2. CASE KeyRedisReturns
  BY <1>2 DEF KeyRedisReturns, StoresUnchanged, HistoryUnchanged
<1>3. ASSUME NEW k \in ApiKeys, Expires(k) PROVE KeyRest'
  BY <1>3 DEF Expires, StoresUnchanged, HistoryUnchanged
<1>4. ASSUME NEW p \in Processes, Begins(p) \/ Validates(p) \/ Touches(p) \/ FetchesToRevoke(p) \/ CountsKeys(p)
      PROVE  KeyRest'
  BY <1>4 DEF Begins, Validates, Touches, FetchesToRevoke, CountsKeys, StoresUnchanged, HistoryUnchanged
<1>5. ASSUME NEW p \in Processes, StoresInRedis(p) \/ StoresInFile(p) PROVE KeyRest'
  <2>1. call[p].key \in ApiKeys /\ UNCHANGED <<keyRedis, faults, byId, expired>>
    BY <1>0, <1>5 DEF StoresInRedis, StoresInFile
  <2> QED  BY <1>5, <2>1 DEF StoresInRedis, StoresInFile, RevocationNoted, HistoryUnchanged
<1>6. ASSUME NEW p \in Processes, IndexesInRedis(p) PROVE KeyRest'
  BY <1>0, <1>6 DEF IndexesInRedis, HistoryUnchanged
<1>7. CASE UNCHANGED credentialsVars
  BY <1>7 DEF credentialsVars
<1> QED  BY <1>1, <1>2, <1>3, <1>4, <1>5, <1>6, <1>7 DEF CredentialsNext

\* Every reachable state of the keys is well typed (utils/api_key_manager.py).
THEOREM KeyTypesHold == CredentialsSpec => []CredentialsTypeOK
<1>1. CredentialsInit => KeyRest
  BY CredentialsAssumption DEF CredentialsInit, KeyRest
<1>2. KeyInv /\ KeyRest => CredentialsTypeOK
  BY DEF KeyInv, KeyRest, CallTypes, StoreTypes, CredentialsTypeOK
<1> QED  BY <1>1, <1>2, KeysInit, KeysStep, KeyRestStep, PTL DEF CredentialsSpec
-----------------------------------------------------------------------------
\* The rest of what is known of the arena's commands.
ArenaRest == disturbed \subseteq Runs /\ crashes \in 0 .. Crashes

\* It is what the steps keep it to be.
LEMMA ArenaRestStep == IndexInv /\ ArenaRest /\ [ArenaNext]_arenaVars => ArenaRest'
<1> SUFFICES ASSUME IndexInv, ArenaRest, [ArenaNext]_arenaVars
             PROVE  disturbed' \subseteq Runs /\ crashes' \in 0 .. Crashes
  BY DEF ArenaRest
<1> USE DEF ArenaRest
<1>1. \A c \in Commands : Settling(c) \subseteq Runs
  BY DEF IndexInv, RunInv, RunTypes, Settling
<1>2. Crashes \in Nat
  BY ArenaAssumption
<1>3. ASSUME NEW c \in Commands, ArenaStep(c), disturbed' = disturbed \union Overlapping'
      PROVE  disturbed' \subseteq Runs /\ crashes' \in 0 .. Crashes
  <2>1. crashes' = crashes
    BY <1>3 DEF ArenaStep, StartRun, WritePart, SyncDirectory, RenameRun, SyncParent, MarkComplete, AppendIndex,
                StartDelete, Unlink, StartRebuild, Scan, DumpIndex, ReplaceIndex
  <2>2. Overlapping' \subseteq Runs
    BY DEF Overlapping
  <2> QED  BY <1>3, <2>1, <2>2
<1>4. ASSUME NEW c \in Commands, Killed(c) PROVE disturbed' \subseteq Runs /\ crashes' \in 0 .. Crashes
  BY <1>1, <1>2, <1>4 DEF Killed
<1>5. CASE PowerFails
  <2>1. UNION {Settling(c) : c \in Commands} \subseteq Runs
    BY <1>1
  <2>2. {r \in Runs : r \notin settled \/ files[r] # durable[r]} \subseteq Runs
    OBVIOUS
  <2>3. crashes < Crashes /\ crashes' = crashes + 1
        /\ disturbed' = disturbed \union (UNION {Settling(c) : c \in Commands})
                                  \union {r \in Runs : r \notin settled \/ files[r] # durable[r]}
    BY <1>5 DEF PowerFails
  <2> QED  BY <1>2, <2>1, <2>2, <2>3
<1>6. CASE UNCHANGED arenaVars
  BY <1>6 DEF arenaVars
<1> QED  BY <1>3, <1>4, <1>5, <1>6 DEF ArenaNext

\* Every reachable state of runs and index is well typed (arena/store.py).
THEOREM ArenaTypesHold == ArenaSpec => []ArenaTypeOK
<1>1. ArenaInit => ArenaRest
  BY ArenaAssumption DEF ArenaInit, ArenaRest
<1>2. IndexInv /\ ArenaRest => ArenaTypeOK
  BY DEF ArenaRest, IndexInv, IndexTypes, RunInv, RunTypes, ArenaTypeOK
<1> QED  BY <1>1, <1>2, IndexStart, IndexStep, ArenaRestStep, PTL DEF ArenaSpec

-----------------------------------------------------------------------------
\* The plugins of one program.
THEOREM PluginTypesHold == PluginSpec => []PluginTypeOK
<1> DEFINE Programs == program \in {"manager", "api"}
<1>1. PluginInit => Programs
  BY DEF PluginInit
<1>2. Programs /\ [PluginNext]_pluginVars => Programs'
  BY DEF PluginNext, pluginVars
<1>3. PluginInv /\ Programs => PluginTypeOK
  BY DEF PluginInv, SoundStates, LoadedStates, PluginTypeOK
<1> HIDE DEF Programs
<1> QED  BY <1>1, <1>2, <1>3, PluginsInit, PluginsStep, PTL DEF PluginSpec

-----------------------------------------------------------------------------
\* A configuration stays one when it is adjusted, forced to a model, or edited.
LEMMA ConfigurationsClosed ==
    ASSUME NEW c \in Configurations, forced \in Models \union {NoModel}
    PROVE  /\ Adjusted(c) \in Configurations /\ Forced(c) \in Configurations
           /\ \A m \in Models : [c EXCEPT !.model = m] \in Configurations
           /\ \A p \in {"ollama", "cloud"}, m \in Models :
                [c EXCEPT !.provider = p, !.model = m] \in Configurations
<1>1. Adjusted(c) \in Configurations
  BY CommandLineAssumption DEF Adjusted, Configurations
<1>2. Forced(c) \in Configurations
  BY DEF Forced, Configurations
<1> QED  BY <1>1, <1>2 DEF Configurations

\* What is saved is a configuration.
LEMMA SavesTyped ==
    ASSUME NEW file, NEW c \in Configurations, saved \in Configurations, Saves(file, c)
    PROVE  saved' \in Configurations /\ apart' \in BOOLEAN
  BY DEF Saves

\* The steps of the program keep to its values.
LEMMA ProgramTypesStep == CommandLineTypeOK /\ [CommandLineNext]_commandLineVars => CommandLineTypeOK'
<1> SUFFICES ASSUME CommandLineTypeOK, [CommandLineNext]_commandLineVars
             PROVE  CommandLineTypeOK'
  OBVIOUS
<1> USE CommandLineAssumption DEF launch, Goes
<1>0. /\ named \in Files /\ forced \in Models \union {NoModel}
      /\ saved \in Configurations /\ settings \in Configurations /\ reread \in Configurations
      /\ restarts \in 0 .. RestartsMax /\ edits \in 0 .. EditsMax /\ apart \in BOOLEAN
  BY DEF CommandLineTypeOK
<1>a. ASSUME NEW n \in 0 .. RestartsMax + 1
      PROVE  AllOf(n) \in [{"search", "multihop", "asks", "hops"} -> 0 .. RestartsMax + 1]
  BY DEF AllOf
<1>1. CASE LoadsAndAdjusts
  <2>1. Adjusted(saved) \in Configurations /\ Forced(Adjusted(saved)) \in Configurations
    BY <1>0, ConfigurationsClosed
  <2>2. saved' \in Configurations /\ apart' \in BOOLEAN /\ settings' \in Configurations
    BY <1>0, <1>1, <2>1, SavesTyped DEF LoadsAndAdjusts
  <2> QED  BY <1>1, <2>2 DEF LoadsAndAdjusts, CommandLineTypeOK
<1>2. CASE ChecksStart \/ GoesOnWithoutServer \/ KeepsTalking \/ Leaves
  BY <1>2 DEF ChecksStart, GoesOnWithoutServer, KeepsTalking, Leaves, CommandLineTypeOK
<1>3. CASE ConfiguresProvider
  <2>1. PICK provider \in {"ollama", "cloud"}, model \in Models :
           LET c == Adjusted([settings EXCEPT !.provider = provider, !.model = model]) IN
           settings' = c /\ Saves("config.json", c)
    BY <1>3 DEF ConfiguresProvider
  <2>2. settings' \in Configurations /\ Saves("config.json", settings')
    BY <1>0, <2>1, ConfigurationsClosed
  <2>3. saved' \in Configurations /\ apart' \in BOOLEAN
    BY <1>0, <2>2, SavesTyped
  <2> QED  BY <1>3, <2>2, <2>3 DEF ConfiguresProvider, CommandLineTypeOK
<1>5. CASE VerifiesModel
  <2>1. CASE UNCHANGED <<saved, settings, apart>>
    BY <1>5, <2>1 DEF VerifiesModel, CommandLineTypeOK
  <2>2. ASSUME NEW model \in Installed, settings' = [settings EXCEPT !.model = model], Saves(named, settings')
        PROVE  CommandLineTypeOK'
    <3>1. settings' \in Configurations
      BY <1>0, <2>2, ConfigurationsClosed
    <3>2. saved' \in Configurations /\ apart' \in BOOLEAN
      BY <1>0, <2>2, <3>1, SavesTyped
    <3> QED  BY <1>5, <3>1, <3>2 DEF VerifiesModel, CommandLineTypeOK
  <2> QED  BY <1>5, <2>1, <2>2 DEF VerifiesModel
<1>6. CASE CreatesAgents
  <2>1. 1 \in 0 .. RestartsMax + 1
    OBVIOUS
  <2> QED  BY <1>6, <1>a, <2>1 DEF CreatesAgents, CommandLineTypeOK
<1>7. CASE EditsSettings \/ OthersWrite
  <2>1. /\ edits' \in 0 .. EditsMax /\ apart' = TRUE /\ saved' \in Configurations /\ settings' \in Configurations
        /\ prompt' \in {"save?", prompt}
        /\ UNCHANGED <<named, forced, reread, agents, restarts>>
    BY <1>0, <1>7 DEF EditsSettings, OthersWrite
  <2> QED  BY <2>1 DEF CommandLineTypeOK
<1>8. CASE SavesSettings
  <2>1. saved' \in Configurations /\ apart' \in BOOLEAN
    BY <1>0, <1>8, SavesTyped DEF SavesSettings
  <2> QED  BY <1>8, <2>1 DEF SavesSettings, CommandLineTypeOK
<1>10. CASE Reloads
  <2>1. reread' \in Configurations
    BY <1>0, <1>10, ConfigurationsClosed DEF Reloads
  <2>2. restarts' \in 0 .. RestartsMax
    BY <1>0, <1>10 DEF Reloads
  <2> QED  BY <1>10, <2>1, <2>2 DEF Reloads, CommandLineTypeOK
<1>11. CASE Restarts
  <2>1. restarts + 1 \in 0 .. RestartsMax + 1
    BY <1>0
  <2>2. /\ agents' = AllOf(restarts + 1) \/ agents' = agents
        /\ settings' \in Configurations /\ apart' \in BOOLEAN
    BY <1>0, <1>11 DEF Restarts
  <2>3. agents' \in [{"search", "multihop", "asks", "hops"} -> 0 .. RestartsMax + 1]
    BY <1>a, <2>1, <2>2 DEF CommandLineTypeOK
  <2> QED  BY <1>11, <2>2, <2>3 DEF Restarts, CommandLineTypeOK
<1>12. CASE RestartsHalf
  <2>1. PICK multihop \in {0, restarts + 1} :
           agents' = [search |-> restarts + 1, multihop |-> multihop, asks |-> 0, hops |-> 0]
    BY <1>12 DEF RestartsHalf
  <2>2. restarts + 1 \in 0 .. RestartsMax + 1 /\ 0 \in 0 .. RestartsMax + 1
    BY <1>0
  <2>3. agents' \in [{"search", "multihop", "asks", "hops"} -> 0 .. RestartsMax + 1]
    BY <2>1, <2>2
  <2> QED  BY <1>12, <2>3 DEF RestartsHalf, CommandLineTypeOK
<1>15. CASE UNCHANGED commandLineVars
  BY <1>15 DEF commandLineVars, CommandLineTypeOK
<1> QED
  BY <1>1, <1>2, <1>3, <1>5, <1>6, <1>7, <1>8, <1>10, <1>11, <1>12, <1>15 DEF CommandLineNext

\* The program before it has read its file.
LEMMA ProgramTyped == CommandLineInit => CommandLineTypeOK
<1> SUFFICES ASSUME CommandLineInit PROVE CommandLineTypeOK
  OBVIOUS
<1>1. AllOf(0) \in [{"search", "multihop", "asks", "hops"} -> 0 .. RestartsMax + 1]
  BY CommandLineAssumption DEF AllOf
<1>2. /\ named \in Files /\ forced \in Models \union {NoModel}
      /\ saved \in Configurations /\ settings \in Configurations /\ reread \in Configurations
      /\ prompt = "start" /\ apart = FALSE
  BY DEF CommandLineInit
<1>3. edits \in 0 .. EditsMax /\ restarts \in 0 .. RestartsMax
  BY CommandLineAssumption DEF CommandLineInit
<1>4. agents \in [{"search", "multihop", "asks", "hops"} -> 0 .. RestartsMax + 1]
  BY <1>1 DEF CommandLineInit
<1> QED  BY <1>2, <1>3, <1>4 DEF CommandLineTypeOK

\* Every reachable state of the interactive program is well typed (main.py).
THEOREM ProgramTypesHold == CommandLineSpec => []CommandLineTypeOK
  BY ProgramTyped, ProgramTypesStep, PTL DEF CommandLineSpec
-----------------------------------------------------------------------------
\* The services side by side: what each of them keeps by itself.
ServicesInv ==
    /\ TypeInv
    /\ LimiterInv
    /\ WindowsInv
    /\ KeyInv /\ KeyRest
    /\ IndexInv /\ ArenaRest
    /\ PluginInv /\ program \in {"manager", "api"}
    /\ FetchInv
    /\ SearchInv
    /\ ApiInv
    /\ CommandLineTypeOK

\* They start as they do alone.
LEMMA ServicesStart == MCServicesInit => ServicesInv
<1> SUFFICES ASSUME MCServicesInit PROVE ServicesInv
  OBVIOUS
<1>1. /\ Init /\ LimiterInit /\ WindowsInit /\ CredentialsInit /\ ArenaInit /\ PluginInit
      /\ SearchInit /\ FetchInit /\ ApiInit /\ CommandLineInit
  BY DEF MCServicesInit
<1>2. KeyRest /\ ArenaRest /\ program \in {"manager", "api"}
  BY <1>1, CredentialsAssumption, ArenaAssumption DEF CredentialsInit, KeyRest, ArenaInit, ArenaRest, PluginInit
<1> QED
  BY <1>1, <1>2, InitTypes, LimitsInit, WindowsStart, KeysInit, IndexStart, PluginsInit, FetchingInit, SearchStart,
     ApiBegins, ProgramTyped DEF ServicesInv

\* One of them takes a step, the others none.
LEMMA ServicesStep == ServicesInv /\ [MCServicesNext]_MCServicesVars => ServicesInv'
<1> SUFFICES ASSUME ServicesInv, [MCServicesNext]_MCServicesVars PROVE ServicesInv'
  OBVIOUS
<1>1. /\ [Next]_vars /\ [LimiterNext]_limiterVars /\ [WindowsNext]_windowsVars
      /\ [CredentialsNext]_credentialsVars /\ [ArenaNext]_arenaVars /\ [PluginNext]_pluginVars
      /\ [FetchNext]_fetchVars /\ [SearchNext]_searchVars /\ [ApiNext]_apiVars
      /\ [CommandLineNext]_commandLineVars
  BY DEF MCServicesNext, MCServicesVars, Still
<1>2. program' \in {"manager", "api"}
  BY <1>1 DEF ServicesInv, PluginNext, pluginVars
<1> QED
  BY <1>1, <1>2, NextTypes, LimitsStep, WindowsStep, KeysStep, KeyRestStep, IndexStep, ArenaRestStep, PluginsStep,
     FetchingStep, SearchStep, ApiStays, ProgramTypesStep DEF ServicesInv

\* Every reachable state of every service is well typed, for all values of the
\* constants.
THEOREM ServicesTyped == MCServicesSpec => []ServicesTypeOK
<1>1. ServicesInv => ServicesTypeOK
  BY DEF ServicesInv, ServicesTypeOK, TypeInv, LimiterInv, WindowsInv, WindowAt, StampLists, WindowsTypeOK, KeyInv,
         KeyRest, CallTypes, StoreTypes, CredentialsTypeOK, IndexInv, IndexTypes, RunInv, RunTypes, ArenaRest,
         ArenaTypeOK, PluginInv, SoundStates, LoadedStates, PluginTypeOK, FetchInv, SearchInv, ApiInv
<1> QED  BY <1>1, ServicesStart, ServicesStep, PTL DEF MCServicesSpec
=============================================================================
