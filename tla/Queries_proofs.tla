---------------------------- MODULE Queries_proofs ----------------------------
(***************************************************************************)
(* What holds of the parts that serve a query for any number of processes, *)
(* threads, principals and sites, and any bounds on failures: the roles    *)
(* and tokens while Redis answers, what the OSINT analyses send out and    *)
(* write to the audit log, what a reply may call deleted, the documents    *)
(* that are kept, the prompts that are built and when the client leaves    *)
(* them whole, the pace of the calls of the model, the wanted sites in an  *)
(* answer; and the types of all the parts together, those of the monitors  *)
(* included.                                                               *)
(***************************************************************************)
EXTENDS MCQueries, Monitors_proofs, Integers, FiniteSetTheorems, Lists_proofs, TLAPS

AccessTypes ==
    /\ storeUp \in BOOLEAN /\ accessClock \in Nat /\ tokens \in Nat
    /\ roleStore \in [Principals -> Roles \union {NoRole}]
    /\ tokenStore \in [Principals -> [nr : Nat, until : Nat] \union {NoToken}]
    /\ backend \in [Servers -> {"off", "redis", "memory"}]
    /\ memoryRoles \in [Servers -> [Principals -> Roles \union {NoRole}]]
    /\ checked \in [Servers -> [at : {"none", "role", "act", "meta"}, for : Principals,
                                on : Principals, role : Roles \union {NoRole}]]
    /\ latest \in [Principals -> Roles] /\ missed \subseteq Principals
    /\ newest \in [Principals -> Nat]

\* Redis has the role and the token that it was told last.
StoreIsLatest ==
    \A k \in Principals :
        /\ latest[k] = IF roleStore[k] # NoRole THEN roleStore[k] ELSE DefaultRole
        /\ tokenStore[k] # NoToken => tokenStore[k].nr = newest[k]

\* The dictionary of a process that uses Redis has only what Redis missed; a
\* process that is off has neither roles nor a request.
MemoryIsMissed ==
    \A s \in Servers :
        /\ backend[s] # "memory" => \A k \in Principals \ missed : memoryRoles[s][k] = NoRole
        /\ backend[s] = "off" => checked[s].at = "none" /\ \A k \in Principals : memoryRoles[s][k] = NoRole

AccessInv == AccessTypes /\ StoreIsLatest /\ MemoryIsMissed

\* No process runs at first, and Redis is empty.
LEMMA AccessBegins == AccessInit => AccessInv
  BY AccessAssumption
  DEF AccessInit, AccessInv, AccessTypes, StoreIsLatest, MemoryIsMissed, NoCheckedCall, Roles, DefaultRole

\* A role is stored in Redis: the other stores are left as they are.
LEMMA StoredIsLatest ==
    ASSUME AccessInv, NEW s \in Servers, NEW k \in Principals, NEW role \in Roles, Stored(s, k, role),
           \/ UNCHANGED backend /\ backend[s] # "off"
           \/ backend[s] = "off" /\ backend' = [backend EXCEPT ![s] = "redis"],
           UNCHANGED <<accessClock, storeUp, tokenStore, tokens, newest>>
    PROVE  AccessInv'
<1> USE AccessAssumption DEF AccessInv, AccessTypes, Stored
<1>1. AccessTypes'
  OBVIOUS
<1>2. StoreIsLatest'
  BY DEF StoreIsLatest
<1>3. MemoryIsMissed'
  BY DEF MemoryIsMissed
<1> QED  BY <1>1, <1>2, <1>3

\* Every step of a process, of Redis and of the clock keeps it.
LEMMA AccessSteps == AccessInv /\ [AccessNext]_accessVars => AccessInv'
<1> SUFFICES ASSUME AccessInv, [AccessNext]_accessVars
             PROVE  AccessInv'
  OBVIOUS
<1> USE AccessAssumption DEF AccessInv, AccessTypes, redisStores, accessHistory
<1>1. CASE StoreFails \/ StoreReturns \/ AccessTick
  <2>1. /\ storeUp' \in BOOLEAN /\ accessClock' \in Nat
        /\ UNCHANGED <<roleStore, tokenStore, backend, memoryRoles, checked, tokens, latest, missed, newest>>
    <3>1. CASE StoreFails \/ StoreReturns
      BY <3>1 DEF StoreFails, StoreReturns
    <3>2. CASE AccessTick
      BY <3>2 DEF AccessTick
    <3> QED  BY <1>1, <3>1, <3>2
  <2> QED  BY <2>1 DEF StoreIsLatest, MemoryIsMissed
<1>2. ASSUME NEW s \in Servers, StartServer(s) PROVE AccessInv'
  <2>1. CASE storeUp
    <3>1. Stored(s, Bootstrap, "admin") /\ backend[s] = "off" /\ backend' = [backend EXCEPT ![s] = "redis"]
      BY <1>2, <2>1 DEF StartServer
    <3>2. UNCHANGED <<accessClock, storeUp, tokenStore, tokens, newest>> /\ "admin" \in Roles
      BY <1>2 DEF StartServer, Roles
    <3> HIDE DEF AccessInv
    <3> QED  BY <3>1, <3>2, StoredIsLatest
  <2>2. CASE ~storeUp
    <3>1. /\ backend' = [backend EXCEPT ![s] = "memory"]
          /\ memoryRoles' = [memoryRoles EXCEPT ![s][Bootstrap] = "admin"]
          /\ UNCHANGED <<accessClock, storeUp, tokenStore, tokens, newest, roleStore, latest, missed, checked>>
      BY <1>2, <2>2 DEF StartServer
    <3> QED  BY <3>1 DEF StoreIsLatest, MemoryIsMissed, Roles
  <2> QED  BY <2>1, <2>2
<1>3. ASSUME NEW s \in Servers, StopServer(s) PROVE AccessInv'
  BY <1>3 DEF StopServer, StoreIsLatest, MemoryIsMissed, NoCheckedCall
<1>4. ASSUME NEW s \in Servers, GenerateToken(s) PROVE AccessInv'
  <2>1. PICK k \in Principals :
             \/ /\ tokenStore' = [tokenStore EXCEPT ![k] = [nr |-> tokens + 1, until |-> accessClock + TokenExpiry]]
                /\ newest' = [newest EXCEPT ![k] = tokens + 1]
             \/ UNCHANGED <<tokenStore, newest>>
    BY <1>4 DEF GenerateToken
  <2>2. tokens' = tokens + 1 /\ UNCHANGED <<accessClock, storeUp, roleStore, backend, memoryRoles, checked, latest, missed>>
    BY <1>4 DEF GenerateToken
  <2>3. AccessTypes' /\ MemoryIsMissed'
    <3>1. tokenStore' \in [Principals -> [nr : Nat, until : Nat] \union {NoToken}] /\ newest' \in [Principals -> Nat]
      <4> DEFINE token == [nr |-> tokens + 1, until |-> accessClock + TokenExpiry]
      <4>1. token \in [nr : Nat, until : Nat] /\ tokens + 1 \in Nat
        OBVIOUS
      <4> HIDE DEF token
      <4> QED  BY <2>1, <4>1 DEF token
    <3>2. AccessTypes'
      BY <2>2, <3>1
    <3>3. MemoryIsMissed'
      BY <2>2 DEF MemoryIsMissed
    <3> QED  BY <3>2, <3>3
  <2>4. StoreIsLatest'
    BY <2>1, <2>2 DEF StoreIsLatest
  <2> QED  BY <2>3, <2>4
<1>5. ASSUME NEW s \in Servers, PassesCsrf(s) \/ PassesRole(s) PROVE AccessInv'
  <2>1. /\ backend[s] # "off"
        /\ UNCHANGED <<accessClock, storeUp, redisStores, backend, memoryRoles, tokens, accessHistory>>
    BY <1>5 DEF PassesCsrf, PassesRole, MemoryIsMissed
  <2>2. \E call \in [at : {"none", "role", "act", "meta"}, for : Principals, on : Principals, role : Roles \union {NoRole}] :
            checked' = [checked EXCEPT ![s] = call]
    BY <1>5 DEF PassesCsrf, PassesRole, NoCheckedCall
  <2> QED  BY <2>1, <2>2 DEF StoreIsLatest, MemoryIsMissed
<1>6. ASSUME NEW s \in Servers, Assigns(s) PROVE AccessInv'
  <2>1. PICK k \in Principals, role \in Roles : SetRole(s, k, role)
    BY <1>6 DEF Assigns
  <2>2. /\ UNCHANGED <<accessClock, storeUp, tokenStore, backend, tokens, newest>> /\ backend[s] # "off"
    BY <1>6 DEF Assigns, MemoryIsMissed
  <2>3. CASE Reached(s)
    <3>1. Stored(s, k, role)
      BY <2>1, <2>3 DEF SetRole
    <3> HIDE DEF AccessInv
    <3> QED  BY <2>2, <3>1, StoredIsLatest
  <2>4. CASE ~Reached(s)
    <3>1. /\ memoryRoles' = [memoryRoles EXCEPT ![s][k] = role]
          /\ missed' = (IF backend[s] = "redis" THEN missed \union {k} ELSE missed)
          /\ checked' = [checked EXCEPT ![s] = NoCheckedCall]
          /\ UNCHANGED <<roleStore, latest>>
      BY <2>1, <2>4 DEF SetRole, InMemory
    <3>2. AccessTypes' /\ StoreIsLatest'
      BY <2>2, <3>1 DEF StoreIsLatest, NoCheckedCall
    <3>3. MemoryIsMissed'
      BY <2>2, <3>1 DEF MemoryIsMissed, NoCheckedCall
    <3> QED  BY <3>2, <3>3
  <2> QED  BY <2>3, <2>4
<1>7. ASSUME NEW s \in Servers, SetMetadata(s) PROVE AccessInv'
  <2>1. /\ UNCHANGED <<accessClock, storeUp, redisStores, backend, tokens, latest, newest>> /\ backend[s] # "off"
        /\ checked' = [checked EXCEPT ![s] = NoCheckedCall]
    BY <1>7 DEF SetMetadata, MemoryIsMissed
  <2>2. CASE UNCHANGED <<memoryRoles, missed>>
    BY <2>1, <2>2 DEF StoreIsLatest, MemoryIsMissed, NoCheckedCall
  <2>3. CASE InMemory(s, checked[s].on, checked[s].role)
    <3>1. /\ memoryRoles' = [memoryRoles EXCEPT ![s][checked[s].on] = checked[s].role]
          /\ missed' = (IF backend[s] = "redis" THEN missed \union {checked[s].on} ELSE missed)
      BY <2>3 DEF InMemory
    <3>2. AccessTypes' /\ StoreIsLatest'
      BY <2>1, <3>1 DEF StoreIsLatest, NoCheckedCall
    <3>3. MemoryIsMissed'
      BY <2>1, <3>1 DEF MemoryIsMissed, NoCheckedCall
    <3> QED  BY <3>2, <3>3
  <2> QED  BY <1>7, <2>2, <2>3 DEF SetMetadata
<1>8. ASSUME NEW s \in Servers, Revokes(s) PROVE AccessInv'
  <2>1. PICK k \in Principals :
             /\ IF Reached(s) THEN roleStore' = [roleStore EXCEPT ![k] = NoRole] /\ latest' = [latest EXCEPT ![k] = DefaultRole]
                ELSE UNCHANGED <<roleStore, latest>>
             /\ memoryRoles' = IF Reached(s) /\ roleStore[k] # NoRole THEN memoryRoles
                               ELSE [memoryRoles EXCEPT ![s][k] = NoRole]
             /\ missed' = IF backend[s] = "redis" /\ ~storeUp THEN missed \union {k} ELSE missed
    BY <1>8 DEF Revokes
  <2>2. /\ UNCHANGED <<accessClock, storeUp, tokenStore, backend, tokens, newest>> /\ backend[s] # "off"
        /\ checked' = [checked EXCEPT ![s] = NoCheckedCall]
    BY <1>8 DEF Revokes, MemoryIsMissed
  <2>3. AccessTypes'
    BY <2>1, <2>2 DEF NoCheckedCall, Roles, DefaultRole
  <2>4. StoreIsLatest'
    BY <2>1, <2>2 DEF StoreIsLatest
  <2>5. MemoryIsMissed'
    BY <2>1, <2>2 DEF MemoryIsMissed, NoCheckedCall
  <2> QED  BY <2>3, <2>4, <2>5
<1>9. CASE UNCHANGED accessVars
  BY <1>9 DEF accessVars, StoreIsLatest, MemoryIsMissed
<1> QED  BY <1>1, <1>2, <1>3, <1>4, <1>5, <1>6, <1>7, <1>8, <1>9 DEF AccessNext

\* While Redis answers, the processes that use it take the latest role and the
\* newest token for what they are (RBACManager.get_role,
\* CSRFManager.validate_token), for any number of processes and failures.
THEOREM AccessStaysLatest == AccessSpec => []AccessIsLatest
<1>1. AccessInv => AccessIsLatest
  BY DEF AccessInv, StoreIsLatest, MemoryIsMissed, AccessIsLatest, RoleOf, ValidTokens, Live, Reached
<1> QED  BY <1>1, AccessBegins, AccessSteps, PTL DEF AccessSpec

\* The tokens, wherever they are kept, and what is counted, within the bounds.
CountsBounded ==
    /\ accessClock \in 0 .. AccessEnd /\ failuresLeft \in 0 .. StoreFailures
    /\ tokens \in 0 .. TokensMax /\ changes \in 0 .. ChangesMax
TokensTyped ==
    /\ tokenStore \in [Principals -> CsrfTokens \union {NoToken}]
    /\ memoryTokens \in [Servers -> [Principals -> CsrfTokens \union {NoToken}]]
    /\ newest \in [Principals -> 0 .. TokensMax]
AccessBounded == CountsBounded /\ TokensTyped

\* Nothing is counted at first, and there are no tokens.
LEMMA BoundedBegins == AccessInit => AccessBounded
  BY AccessAssumption DEF AccessInit, AccessBounded, CountsBounded, TokensTyped

\* Only the endpoint of the tokens makes one, which ends within its time.
LEMMA BoundedSteps == AccessBounded /\ [AccessNext]_accessVars => AccessBounded'
<1> SUFFICES ASSUME AccessBounded, [AccessNext]_accessVars PROVE AccessBounded'
  OBVIOUS
<1> USE AccessAssumption DEF AccessBounded, redisStores, accessHistory
<1>1. ASSUME UNCHANGED <<tokenStore, memoryTokens, newest>> PROVE TokensTyped'
  BY <1>1 DEF TokensTyped, CsrfTokens
<1>2. CASE StoreFails \/ StoreReturns \/ AccessTick
  <2>1. UNCHANGED <<tokenStore, memoryTokens, newest>>
    BY <1>2 DEF StoreFails, StoreReturns, AccessTick
  <2>2. CountsBounded'
    BY <1>2 DEF CountsBounded, StoreFails, StoreReturns, AccessTick
  <2> QED  BY <2>1, <2>2, <1>1
<1>3. ASSUME NEW s \in Servers, StartServer(s) \/ PassesCsrf(s) \/ PassesRole(s) \/ Assigns(s) \/ SetMetadata(s) \/ Revokes(s)
      PROVE  AccessBounded'
  <2>1. UNCHANGED <<tokenStore, memoryTokens, newest, accessClock, failuresLeft, tokens>>
    BY <1>3 DEF StartServer, PassesCsrf, PassesRole, Assigns, SetMetadata, Revokes
  <2>2. changes' = changes \/ (changes < ChangesMax /\ changes' = changes + 1)
    BY <1>3 DEF StartServer, PassesCsrf, PassesRole, Assigns, SetMetadata, Revokes
  <2>3. CountsBounded'
    BY <2>1, <2>2 DEF CountsBounded
  <2> QED  BY <2>1, <2>3, <1>1
<1>4. ASSUME NEW s \in Servers, StopServer(s) PROVE AccessBounded'
  BY <1>4 DEF StopServer, CountsBounded, TokensTyped
<1>5. ASSUME NEW s \in Servers, GenerateToken(s) PROVE AccessBounded'
  <2> DEFINE token == [nr |-> tokens + 1, until |-> accessClock + TokenExpiry]
  <2>1. PICK k \in Principals :
             \/ /\ tokenStore' = [tokenStore EXCEPT ![k] = token]
                /\ newest' = [newest EXCEPT ![k] = tokens + 1] /\ UNCHANGED memoryTokens
             \/ memoryTokens' = [memoryTokens EXCEPT ![s][k] = token] /\ UNCHANGED <<tokenStore, newest>>
    BY <1>5 DEF GenerateToken
  <2>2. /\ tokens < TokensMax /\ tokens' = tokens + 1 /\ UNCHANGED <<accessClock, failuresLeft, changes>>
    BY <1>5 DEF GenerateToken
  <2>3. CountsBounded'
    BY <2>2 DEF CountsBounded
  <2>4. token \in CsrfTokens /\ tokens + 1 \in 0 .. TokensMax
    BY <2>2 DEF CountsBounded, CsrfTokens
  <2> HIDE DEF token
  <2>5. TokensTyped'
    BY <2>1, <2>4 DEF TokensTyped
  <2> QED  BY <2>3, <2>5
<1>6. CASE UNCHANGED accessVars
  BY <1>6, <1>1 DEF accessVars, CountsBounded
<1> QED  BY <1>2, <1>3, <1>4, <1>5, <1>6 DEF AccessNext

-----------------------------------------------------------------------------
\* What a thread has at hand: of a robots.txt it has read, what is in it, or
\* that it could not be read.
Fields == {"at", "todo", "old", "address", "place", "round", "found", "robots"}
Rests(r) == r.at \in {"idle", "stage"}
Holds(r) ==
    /\ DOMAIN r = Fields
    /\ r.at \in {"idle", "stage", "set", "resolve", "restore"}
    /\ r.place \in Sites
    /\ DOMAIN r.robots = Sites /\ \A s \in Sites : r.robots[s] \in {"unknown", "none", rules[s]}

LookupTypes ==
    /\ DOMAIN analyst = Analysts /\ \A t \in Analysts : Holds(analyst[t])
    /\ torWanted \in BOOLEAN /\ torActive \in BOOLEAN /\ overlapped \in BOOLEAN

\* Nothing runs before the startup has its answer, the program serves with
\* Tor when that was wanted, and no thread is inside a block then.
TorFirst ==
    /\ startup \in {"verifies", "serves"} /\ torWanted => torActive
    /\ \A t \in Analysts : analyst[t].at # "idle" => startup = "serves"
    /\ \A t \in Analysts : ~Rests(analyst[t]) => ~torActive

\* A block that is alone has the original default to put back.
BlockAlone ==
    ~overlapped =>
        /\ \A t, u \in Analysts : ~Rests(analyst[t]) /\ ~Rests(analyst[u]) => t = u
        /\ \A t \in Analysts : ~Rests(analyst[t]) =>
             analyst[t].old = "none" /\ (analyst[t].at = "set" => socketDefault = "none")
        /\ (\A t \in Analysts : Rests(analyst[t])) => socketDefault = "none"

LookupInv == LookupTypes /\ TorFirst /\ BlockAlone /\ RequestsAllowed

\* A thread at rest holds nothing.
LEMMA RestingHolds == Holds(Resting) /\ Resting.at = "idle"
  BY LookupsAssumption DEF Holds, Fields, Resting, Sites

\* Every way out of a stage leads to a thread at rest or in its next stage.
LEMMA StagesHold ==
    ASSUME LookupInv, NEW t \in Analysts, NEW address
    PROVE  Holds(Rest(t, address)) /\ Rests(Rest(t, address))
<1> DEFINE remain == SelectSeq(Tail(analyst[t].todo), LAMBDA s : address \/ s \notin NeedsAddress)
           next == [Resting EXCEPT !.at = "stage", !.todo = remain, !.address = address]
<1>1. Rest(t, address) = Resting \/ Rest(t, address) = next
  BY Zenon DEF Rest
<1> HIDE DEF remain
<1>2. /\ next.at = "stage" /\ next.place = Resting.place /\ next.robots = Resting.robots
      /\ DOMAIN next = DOMAIN Resting
  BY RestingHolds DEF Holds, Fields
<1>3. Holds(next) /\ Rests(next) /\ Rests(Resting)
  BY <1>2, RestingHolds DEF Holds, Rests
<1> QED  BY <1>1, <1>3, RestingHolds

\* The program begins without Tor, and no thread has work.
LEMMA LookupsBegin == LookupsInit => LookupInv
<1> SUFFICES ASSUME LookupsInit PROVE LookupInv
  OBVIOUS
<1>1. analyst = [t \in Analysts |-> Resting] /\ Holds(Resting) /\ Resting.at = "idle" /\ Resting.old = "none"
  BY RestingHolds DEF LookupsInit, Resting
<1>2. LookupTypes
  BY <1>1 DEF LookupTypes, LookupsInit
<1>3. TorFirst /\ BlockAlone
  BY <1>1 DEF TorFirst, BlockAlone, LookupsInit, Rests
<1>4. RequestsAllowed
  BY DEF LookupsInit, RequestsAllowed, NoRequest
<1> QED  BY <1>2, <1>3, <1>4 DEF LookupInv

\* A thread takes a step that begins and ends outside of the blocks.
LEMMA StepOutside ==
    ASSUME LookupInv, NEW t \in Analysts, NEW next, Holds(next), Rests(next), Rests(analyst[t]),
           analyst' = [analyst EXCEPT ![t] = next], startup = "serves",
           UNCHANGED <<torVars, rules, socketDefault, overlapped>>, RequestsAllowed'
    PROVE  LookupInv'
<1> USE DEF LookupInv, LookupTypes, torVars
<1>1. analyst'[t] = next /\ \A u \in Analysts \ {t} : analyst'[u] = analyst[u]
  OBVIOUS
<1>2. LookupTypes'
  BY <1>1 DEF Holds
<1>3. TorFirst'
  BY <1>1 DEF TorFirst, Rests
<1>4. BlockAlone'
  BY <1>1 DEF BlockAlone, Rests
<1> QED  BY <1>2, <1>3, <1>4

\* A thread takes a step that begins or ends inside a block.
LEMMA StepInside ==
    ASSUME LookupInv, NEW t \in Analysts, NEW next, Holds(next), ~torActive,
           analyst' = [analyst EXCEPT ![t] = next], startup = "serves",
           UNCHANGED <<torVars, rules>>, overlapped' \in BOOLEAN, RequestsAllowed', BlockAlone'
    PROVE  LookupInv'
<1> USE DEF LookupInv, LookupTypes, torVars
<1>1. analyst'[t] = next /\ \A u \in Analysts \ {t} : analyst'[u] = analyst[u]
  OBVIOUS
<1>2. LookupTypes'
  BY <1>1 DEF Holds
<1>3. TorFirst'
  BY <1>1 DEF TorFirst, Rests
<1> QED  BY <1>2, <1>3

\* Every step of the startup and of a thread keeps it.
LEMMA LookupsSteps == LookupInv /\ [LookupsNext]_lookupVars => LookupInv'
<1> SUFFICES ASSUME LookupInv, [LookupsNext]_lookupVars
             PROVE  LookupInv'
  OBVIOUS
<1>1. ASSUME ConfigurationFails \/ WithoutTor \/ Activate \/ Verified \/ CheckFails,
             UNCHANGED <<socketDefault, analyst, rules, sent, overlapped, lookups>>
      PROVE  LookupInv'
  <2>1. startup \in {"begins", "verifies"} /\ torWanted' = torWanted /\ torActive' \in BOOLEAN
    BY <1>1 DEF ConfigurationFails, WithoutTor, Activate, Verified, CheckFails, LookupInv, LookupTypes
  <2>2. startup' \in {"verifies", "serves"} /\ torWanted => torActive'
    BY <1>1 DEF ConfigurationFails, WithoutTor, Activate, Verified, CheckFails, LookupInv, TorFirst
  <2>3. \A t \in Analysts : analyst[t].at = "idle"
    BY <2>1 DEF LookupInv, TorFirst
  <2>4. LookupTypes'
    BY <1>1, <2>1 DEF LookupInv, LookupTypes, Holds
  <2>5. TorFirst' /\ BlockAlone' /\ RequestsAllowed'
    BY <1>1, <2>1, <2>2, <2>3 DEF LookupInv, TorFirst, BlockAlone, RequestsAllowed, Rests
  <2> QED  BY <2>4, <2>5 DEF LookupInv
<1>2. ASSUME NEW t \in Analysts, UNCHANGED <<torVars, rules>>,
             Analyse(t) \/ AsksWeb(t) \/ SkipsRaw(t) \/ AsksRaw(t)
             \/ ReadsRobots(t) \/ Forbidden(t) \/ ProbesProfile(t)
      PROVE  LookupInv'
  <2>1. /\ startup = "serves" /\ Rests(analyst[t]) /\ Holds(analyst[t])
        /\ (torWanted => torActive) /\ RequestsAllowed
        /\ torWanted \in BOOLEAN /\ torActive \in BOOLEAN
    BY <1>2 DEF LookupInv, LookupTypes, TorFirst, Rests, AnalystAt, Analyse, AsksWeb, SkipsRaw, AsksRaw,
                ReadsRobots, Forbidden, ProbesProfile
  <2>2. UNCHANGED <<torVars, rules, socketDefault, overlapped>>
    BY <1>2 DEF Analyse, AsksWeb, SkipsRaw, AsksRaw, ReadsRobots, Forbidden, ProbesProfile
  <2>3. RequestsAllowed'
    <3>1. CASE UNCHANGED sent
      BY <2>1, <2>2, <3>1 DEF RequestsAllowed, torVars
    <3>2. CASE AsksWeb(t) \/ AsksRaw(t) \/ ReadsRobots(t)
      <4>1. sent'.site = 0 /\ sent'.tor = torActive /\ (sent'.raw => ~torActive)
        BY <3>2 DEF AsksWeb, AsksRaw, ReadsRobots, Request
      <4> QED  BY <2>1, <2>2, <4>1 DEF RequestsAllowed, torVars
    <3>3. CASE ProbesProfile(t)
      <4>1. /\ sent' = [raw |-> FALSE, tor |-> torActive, site |-> Site(t),
                        unread |-> analyst[t].robots[Site(t)] = "none"]
            /\ analyst[t].robots[Site(t)] \in {"allow", "none"}
        BY <3>3 DEF ProbesProfile, Request
      <4>2. Site(t) \in Sites /\ analyst[t].robots[Site(t)] \in {"unknown", "none", rules[Site(t)]}
        BY <2>1 DEF Holds, Site
      <4>3. /\ sent'.raw = FALSE /\ sent'.tor = torActive /\ sent'.site = Site(t)
            /\ sent'.unread = (analyst[t].robots[Site(t)] = "none")
        BY <4>1
      <4>4. rules[Site(t)] # "deny" \/ analyst[t].robots[Site(t)] = "none"
        BY <4>1, <4>2
      <4> QED  BY <2>1, <2>2, <4>3, <4>4 DEF RequestsAllowed, torVars
    <3> QED  BY <1>2, <3>1, <3>2, <3>3 DEF Analyse, SkipsRaw, Forbidden
  <2>4. \/ UNCHANGED analyst
        \/ \E next : Holds(next) /\ Rests(next) /\ analyst' = [analyst EXCEPT ![t] = next]
    <3>1. \A a : Holds(Rest(t, a)) /\ Rests(Rest(t, a))
      BY StagesHold
    <3>2. Holds(Resting) /\ Rests(Resting)
      BY RestingHolds DEF Rests
    <3>3. CASE Analyse(t)
      <4>1. \/ UNCHANGED analyst
            \/ \E kind \in Analyses :
                 analyst' = [analyst EXCEPT ![t] =
                   [Resting EXCEPT !.at = "stage", !.todo = Stages[kind], !.address = TRUE]]
        BY <3>3 DEF Analyse, Becomes
      <4>2. ASSUME NEW kind \in Analyses
            PROVE  LET next == [Resting EXCEPT !.at = "stage", !.todo = Stages[kind], !.address = TRUE]
                   IN  Holds(next) /\ Rests(next)
        <5> DEFINE next == [Resting EXCEPT !.at = "stage", !.todo = Stages[kind], !.address = TRUE]
        <5>1. /\ next.at = "stage" /\ next.place = Resting.place /\ next.robots = Resting.robots
              /\ DOMAIN next = DOMAIN Resting
          BY <3>2 DEF Holds, Fields
        <5> QED  BY <3>2, <5>1 DEF Holds, Rests
      <4> QED  BY <4>1, <4>2
    <3>4. CASE AsksWeb(t) \/ SkipsRaw(t) \/ AsksRaw(t)
      BY <3>1, <3>2, <3>4 DEF AsksWeb, SkipsRaw, AsksRaw, StageDone, Becomes
    <3>5. CASE ReadsRobots(t)
      <4>1. PICK heard \in {rules[Site(t)], "none"} :
                 analyst' = [analyst EXCEPT ![t] = [analyst[t] EXCEPT !.robots[Site(t)] = heard]]
        BY <3>5 DEF ReadsRobots, Becomes
      <4> DEFINE next == [analyst[t] EXCEPT !.robots[Site(t)] = heard]
      <4>2. /\ next.at = analyst[t].at /\ next.place = analyst[t].place /\ DOMAIN next = Fields
            /\ next.robots = [analyst[t].robots EXCEPT ![Site(t)] = heard]
        BY <2>1 DEF Holds, Fields
      <4>3. Holds(next) /\ Rests(next)
        BY <2>1, <4>2 DEF Holds, Rests, Site
      <4> QED  BY <4>1, <4>3
    <3>6. ASSUME NEW found, NextSite(t, found)
          PROVE  \E next : Holds(next) /\ Rests(next) /\ analyst' = [analyst EXCEPT ![t] = next]
      <4> DEFINE on == [analyst[t] EXCEPT !.place = @ + 1, !.found = found]
                 again == [analyst[t] EXCEPT !.place = 1, !.round = 2, !.found = found]
      <4>1. \/ analyst[t].place < Platforms /\ analyst' = [analyst EXCEPT ![t] = on]
            \/ analyst' = [analyst EXCEPT ![t] = again]
            \/ analyst' = [analyst EXCEPT ![t] = Rest(t, analyst[t].address)]
        BY <3>6 DEF NextSite, Becomes, StageDone
      <4>2. /\ on.at = analyst[t].at /\ on.place = analyst[t].place + 1
            /\ on.robots = analyst[t].robots /\ DOMAIN on = Fields
        BY <2>1 DEF Holds, Fields
      <4>3. /\ again.at = analyst[t].at /\ again.place = 1
            /\ again.robots = analyst[t].robots /\ DOMAIN again = Fields
        BY <2>1 DEF Holds, Fields
      <4> HIDE DEF on, again
      <4>4. Holds(again) /\ Rests(again) /\ (analyst[t].place < Platforms => Holds(on) /\ Rests(on))
        BY <2>1, <4>2, <4>3, LookupsAssumption DEF Holds, Rests, Sites
      <4> QED  BY <3>1, <4>1, <4>4
    <3>7. CASE Forbidden(t) \/ ProbesProfile(t)
      BY <3>6, <3>7 DEF Forbidden, ProbesProfile
    <3> QED  BY <1>2, <3>3, <3>4, <3>5, <3>7
  <2>5. CASE UNCHANGED analyst
    BY <2>2, <2>3, <2>5 DEF LookupInv, LookupTypes, TorFirst, BlockAlone, torVars, Holds
  <2> QED  BY <2>1, <2>2, <2>3, <2>4, <2>5, StepOutside
<1>3. ASSUME NEW t \in Analysts, UNCHANGED <<torVars, rules>>,
             ReadsDefault(t) \/ SetsDefault(t) \/ Resolves(t) \/ RestoresDefault(t)
      PROVE  LookupInv'
  <2>1. /\ startup = "serves" /\ ~torActive /\ Holds(analyst[t]) /\ RequestsAllowed
        /\ (torWanted => torActive) /\ overlapped \in BOOLEAN /\ BlockAlone
        /\ DOMAIN analyst = Analysts
    BY <1>3 DEF LookupInv, LookupTypes, TorFirst, Rests, AnalystAt, ReadsDefault, SetsDefault, Resolves, RestoresDefault
  <2>2. RequestsAllowed' /\ overlapped' \in BOOLEAN
    <3>1. CASE UNCHANGED sent
      BY <1>3, <2>1, <3>1 DEF RequestsAllowed, torVars, ReadsDefault, SetsDefault, Resolves, RestoresDefault
    <3>2. CASE Resolves(t)
      <4>1. sent'.site = 0 /\ UNCHANGED overlapped
        BY <3>2 DEF Resolves, Request
      <4> QED  BY <1>3, <2>1, <4>1 DEF RequestsAllowed, torVars
    <3> QED  BY <1>3, <3>1, <3>2 DEF ReadsDefault, SetsDefault, RestoresDefault
  <2>3. ASSUME NEW next, Holds(next), analyst' = [analyst EXCEPT ![t] = next], BlockAlone'
        PROVE  LookupInv'
    BY <1>3, <2>1, <2>2, <2>3, StepInside
  <2>4. ASSUME NEW next, analyst' = [analyst EXCEPT ![t] = next]
        PROVE  analyst'[t] = next /\ \A u \in Analysts \ {t} : analyst'[u] = analyst[u]
    BY <2>1, <2>4
  <2>5. CASE ReadsDefault(t)
    <3> DEFINE next == [analyst[t] EXCEPT !.at = "set", !.old = socketDefault]
    <3>1. analyst' = [analyst EXCEPT ![t] = next] /\ Rests(analyst[t]) /\ UNCHANGED socketDefault
      BY <2>5 DEF ReadsDefault, Becomes, AnalystAt, Rests
    <3>2. /\ next.at = "set" /\ next.old = socketDefault /\ next.place = analyst[t].place
          /\ next.robots = analyst[t].robots /\ DOMAIN next = Fields
      BY <2>1 DEF Holds, Fields
    <3>3. Holds(next)
      BY <2>1, <3>2 DEF Holds
    <3>4. ~overlapped' => ~overlapped /\ \A u \in Analysts \ {t} : Rests(analyst[u])
      BY <2>1, <2>5 DEF ReadsDefault, InsideBlock, Rests, LookupInv, LookupTypes, Holds
    <3> HIDE DEF next
    <3>5. BlockAlone'
      BY <2>1, <2>4, <3>1, <3>2, <3>4 DEF BlockAlone, Rests
    <3> QED  BY <2>3, <3>1, <3>3, <3>5
  <2>6. CASE SetsDefault(t)
    <3> DEFINE next == [analyst[t] EXCEPT !.at = "resolve"]
    <3>1. analyst' = [analyst EXCEPT ![t] = next] /\ analyst[t].at = "set" /\ UNCHANGED overlapped
      BY <2>6 DEF SetsDefault, Becomes, AnalystAt
    <3>2. /\ next.at = "resolve" /\ next.old = analyst[t].old /\ next.place = analyst[t].place
          /\ next.robots = analyst[t].robots /\ DOMAIN next = Fields
      BY <2>1 DEF Holds, Fields
    <3>3. Holds(next)
      BY <2>1, <3>2 DEF Holds
    <3> HIDE DEF next
    <3>4. BlockAlone'
      BY <2>1, <2>4, <3>1, <3>2 DEF BlockAlone, Rests
    <3> QED  BY <2>3, <3>1, <3>3, <3>4
  <2>7. CASE Resolves(t)
    <3>1. PICK known \in BOOLEAN :
               analyst' = [analyst EXCEPT ![t] =
                 [analyst[t] EXCEPT !.at = "restore",
                                    !.address = IF Stage(t) = "a" THEN known ELSE analyst[t].address]]
      BY <2>7 DEF Resolves, Becomes
    <3> DEFINE known_ == IF Stage(t) = "a" THEN known ELSE analyst[t].address
               next == [analyst[t] EXCEPT !.at = "restore", !.address = known_]
    <3> HIDE DEF known_
    <3>2. /\ next.at = "restore" /\ next.old = analyst[t].old /\ next.place = analyst[t].place
          /\ next.robots = analyst[t].robots /\ DOMAIN next = Fields
      BY <2>1 DEF Holds, Fields
    <3>3. Holds(next)
      BY <2>1, <3>2 DEF Holds
    <3>4. analyst' = [analyst EXCEPT ![t] = next]
      BY <3>1 DEF known_
    <3> HIDE DEF next
    <3>5. analyst[t].at = "resolve" /\ UNCHANGED <<socketDefault, overlapped>>
      BY <2>7 DEF Resolves, AnalystAt
    <3>6. BlockAlone'
      BY <2>1, <2>4, <3>2, <3>4, <3>5 DEF BlockAlone, Rests
    <3> QED  BY <2>3, <3>3, <3>4, <3>6
  <2>8. CASE RestoresDefault(t)
    <3> DEFINE next == Rest(t, analyst[t].address)
    <3>1. /\ analyst' = [analyst EXCEPT ![t] = next] /\ analyst[t].at = "restore"
          /\ socketDefault' = analyst[t].old /\ UNCHANGED overlapped
      BY <2>8 DEF RestoresDefault, StageDone, Becomes, AnalystAt
    <3>2. Holds(next) /\ Rests(next)
      BY StagesHold
    <3> HIDE DEF next
    <3>3. BlockAlone'
      BY <2>1, <2>4, <3>1, <3>2 DEF BlockAlone, Rests
    <3> QED  BY <2>3, <3>1, <3>2, <3>3
  <2> QED  BY <1>3, <2>5, <2>6, <2>7, <2>8
<1>4. CASE UNCHANGED lookupVars
  BY <1>4 DEF lookupVars, LookupInv, LookupTypes, TorFirst, BlockAlone, RequestsAllowed, Holds
<1> QED  BY <1>1, <1>2, <1>3, <1>4 DEF LookupsNext

\* With Tor wanted nothing goes out but through Tor, and no profile page is
\* asked for against a robots.txt that was read (tor_mode.initialize_tor_mode,
\* SocialIntelligence), for any number of threads and sites.
THEOREM RequestsStayAllowed == LookupsSpec => []RequestsAllowed
<1>1. LookupInv => RequestsAllowed
  BY DEF LookupInv
<1> QED  BY <1>1, LookupsBegin, LookupsSteps, PTL DEF LookupsSpec

\* The default time-out of the sockets comes back as long as no two blocks
\* were open at a time: only overlapping blocks break what the docstring of
\* _socket_timeout promises.
THEOREM BlocksRestore == LookupsSpec => []AloneRestores
<1>1. LookupInv => AloneRestores
  BY DEF LookupInv, LookupTypes, BlockAlone, AloneRestores, InsideBlock, Rests, Holds
<1> QED  BY <1>1, LookupsBegin, LookupsSteps, PTL DEF LookupsSpec

\* The profiles counted are of the sites before this one, or of all of them when
\* the variations of the name are tried.
TimeOuts == {"none", "five"}
Walks(r) ==
    /\ r.old \in TimeOuts /\ r.round \in {1, 2} /\ r.found \in Nat
    /\ r.found <= (IF r.round = 1 THEN r.place - 1 ELSE Platforms)

WalksTyped ==
    /\ startup \in {"begins", "verifies", "serves", "refused"} /\ proxies \in {"own", "tor"}
    /\ socketDefault \in TimeOuts
    /\ \A t \in Analysts : Walks(analyst[t])

WalkInv == LookupInv /\ WalksTyped

\* A thread at rest has counted nothing, nor has one that begins its next stage.
LEMMA WalkBegins ==
    ASSUME NEW todo, NEW address
    PROVE  Walks(Resting) /\ Walks([Resting EXCEPT !.at = "stage", !.todo = todo, !.address = address])
<1> DEFINE next == [Resting EXCEPT !.at = "stage", !.todo = todo, !.address = address]
<1>1. Resting.old = "none" /\ Resting.round = 1 /\ Resting.found = 0 /\ Resting.place = 1
  BY DEF Resting
<1>2. next.old = "none" /\ next.round = 1 /\ next.found = 0 /\ next.place = 1
  BY DEF Resting
<1> HIDE DEF next
<1>3. Walks(Resting)
  BY <1>1 DEF Walks, TimeOuts
<1>4. Walks(next)
  BY <1>2 DEF Walks, TimeOuts
<1> QED  BY <1>3, <1>4 DEF next

LEMMA WalkRests ==
    ASSUME NEW t \in Analysts, NEW address
    PROVE  Walks(Rest(t, address))
<1> DEFINE remain == SelectSeq(Tail(analyst[t].todo), LAMBDA s : address \/ s \notin NeedsAddress)
           next == [Resting EXCEPT !.at = "stage", !.todo = remain, !.address = address]
<1>1. Rest(t, address) = Resting \/ Rest(t, address) = next
  BY Zenon DEF Rest
<1> HIDE DEF remain
<1>2. Walks(Resting) /\ Walks(next)
  BY WalkBegins
<1> HIDE DEF next
<1> QED  BY <1>1, <1>2

\* The next site, or the first one again
LEMMA WalkGoesOn ==
    ASSUME WalkInv, NEW t \in Analysts, NEW known \in {0, 1},
           NextSite(t, analyst[t].found + (IF analyst[t].round = 1 THEN known ELSE 0))
    PROVE  \E next : Walks(next) /\ analyst' = [analyst EXCEPT ![t] = next]
<1> DEFINE r == analyst[t]
           found == r.found + (IF r.round = 1 THEN known ELSE 0)
           on == [r EXCEPT !.place = @ + 1, !.found = found]
           again == [r EXCEPT !.place = 1, !.round = 2, !.found = found]
<1>1. /\ Walks(r) /\ r.place \in 1 .. Platforms /\ Platforms \in Nat
      /\ DOMAIN r = {"at", "todo", "old", "address", "place", "round", "found", "robots"}
  BY LookupsAssumption DEF WalkInv, WalksTyped, LookupInv, LookupTypes, Holds, Sites, Fields
<1>2. \/ r.place < Platforms /\ analyst' = [analyst EXCEPT ![t] = on]
      \/ r.place >= Platforms /\ r.round = 1 /\ analyst' = [analyst EXCEPT ![t] = again]
      \/ analyst' = [analyst EXCEPT ![t] = Rest(t, r.address)]
  BY <1>1 DEF NextSite, Becomes, StageDone
<1>3. /\ on.old = r.old /\ on.place = r.place + 1 /\ on.found = found /\ on.round = r.round
      /\ again.old = r.old /\ again.place = 1 /\ again.found = found /\ again.round = 2
  BY <1>1
<1>4. found \in Nat /\ (r.round = 1 => found <= r.place) /\ (r.round = 2 => found <= Platforms)
  <2>1. CASE r.round = 1
    <3>1. found = r.found + known /\ r.found \in Nat /\ r.found <= r.place - 1
      BY <1>1, <2>1 DEF Walks
    <3> QED  BY <1>1, <2>1, <3>1
  <2>2. CASE r.round = 2
    <3>1. found = r.found + 0 /\ r.found \in Nat /\ r.found <= Platforms
      BY <1>1, <2>2 DEF Walks
    <3> QED  BY <1>1, <2>2, <3>1
  <2> QED  BY <1>1, <2>1, <2>2 DEF Walks
<1> HIDE DEF on, again, found
<1>5. r.place < Platforms => Walks(on)
  BY <1>1, <1>3, <1>4 DEF Walks
<1>6. r.place >= Platforms /\ r.round = 1 => Walks(again)
  BY <1>1, <1>3, <1>4 DEF Walks
<1> QED  BY <1>2, <1>5, <1>6, WalkRests

\* Every thread goes from place to place so.
LEMMA WalkSteps == WalkInv /\ [LookupsNext]_lookupVars => WalkInv'
<1> SUFFICES ASSUME WalkInv, [LookupsNext]_lookupVars PROVE WalksTyped'
  BY LookupsSteps DEF WalkInv
<1>1. /\ WalksTyped /\ DOMAIN analyst = Analysts
      /\ \A t \in Analysts : DOMAIN analyst[t] = {"at", "todo", "old", "address", "place", "round", "found", "robots"}
  BY DEF WalkInv, LookupInv, LookupTypes, Holds, Fields
<1>2. ASSUME UNCHANGED analyst, UNCHANGED socketDefault,
             startup' \in {"begins", "verifies", "serves", "refused"} /\ proxies' \in {"own", "tor"}
      PROVE  WalksTyped'
  BY <1>1, <1>2 DEF WalksTyped, Walks
<1>3. ASSUME ConfigurationFails \/ WithoutTor \/ Activate \/ Verified \/ CheckFails,
             UNCHANGED <<socketDefault, analyst, rules, sent, overlapped, lookups>>
      PROVE  WalksTyped'
  <2>1. startup' \in {"begins", "verifies", "serves", "refused"} /\ proxies' \in {"own", "tor"}
    BY <1>1, <1>3 DEF ConfigurationFails, WithoutTor, Activate, Verified, CheckFails, WalksTyped
  <2> QED  BY <1>2, <1>3, <2>1
<1>4. ASSUME NEW t \in Analysts, UNCHANGED torVars, socketDefault' \in TimeOuts,
             NEW next, Walks(next), analyst' = [analyst EXCEPT ![t] = next]
      PROVE  WalksTyped'
  BY <1>1, <1>4 DEF WalksTyped, Walks, torVars
<1>5. ASSUME NEW t \in Analysts, UNCHANGED torVars,
             Analyse(t) \/ AsksWeb(t) \/ SkipsRaw(t) \/ AsksRaw(t)
             \/ ReadsDefault(t) \/ SetsDefault(t) \/ Resolves(t) \/ RestoresDefault(t)
             \/ ReadsRobots(t) \/ Forbidden(t) \/ ProbesProfile(t)
      PROVE  WalksTyped'
  <2> DEFINE r == analyst[t]
  <2>1. /\ Walks(r) /\ socketDefault \in TimeOuts
        /\ DOMAIN r = {"at", "todo", "old", "address", "place", "round", "found", "robots"}
    BY <1>1 DEF WalksTyped
  <2>2. socketDefault' \in TimeOuts
    <3>1. socketDefault' \in {socketDefault, "five", r.old}
      BY <1>5 DEF Analyse, AsksWeb, SkipsRaw, AsksRaw, ReadsDefault, SetsDefault, Resolves, RestoresDefault,
                  ReadsRobots, Forbidden, ProbesProfile
    <3> QED  BY <2>1, <3>1 DEF Walks, TimeOuts
  <2>3. CASE Analyse(t)
    <3>1. CASE UNCHANGED analyst
      BY <1>1, <1>2, <1>5, <2>3, <3>1 DEF Analyse, torVars, WalksTyped
    <3>2. ASSUME NEW kind \in Analyses,
                 Becomes(t, [Resting EXCEPT !.at = "stage", !.todo = Stages[kind], !.address = TRUE])
          PROVE  WalksTyped'
      <4> DEFINE next == [Resting EXCEPT !.at = "stage", !.todo = Stages[kind], !.address = TRUE]
      <4>1. analyst' = [analyst EXCEPT ![t] = next]
        BY <3>2 DEF Becomes
      <4>2. Walks(next)
        BY WalkBegins
      <4> HIDE DEF next
      <4> QED  BY <1>4, <1>5, <2>2, <4>1, <4>2
    <3> QED  BY <2>3, <3>1, <3>2 DEF Analyse
  <2>4. CASE AsksWeb(t) \/ SkipsRaw(t) \/ AsksRaw(t) \/ RestoresDefault(t)
    <3>1. \/ analyst' = [analyst EXCEPT ![t] = Resting]
          \/ \E address : analyst' = [analyst EXCEPT ![t] = Rest(t, address)]
      BY <2>4 DEF AsksWeb, SkipsRaw, AsksRaw, RestoresDefault, StageDone, Becomes
    <3> QED  BY <1>4, <1>5, <2>2, <3>1, WalkRests, WalkBegins
  <2>5. CASE ReadsDefault(t)
    <3> DEFINE next == [r EXCEPT !.at = "set", !.old = socketDefault]
    <3>1. analyst' = [analyst EXCEPT ![t] = next]
      BY <2>5 DEF ReadsDefault, Becomes
    <3>2. next.old = socketDefault /\ next.place = r.place /\ next.found = r.found /\ next.round = r.round
      BY <2>1
    <3> HIDE DEF next
    <3>3. Walks(next)
      BY <2>1, <3>2 DEF Walks
    <3> QED  BY <1>4, <1>5, <2>2, <3>1, <3>3
  <2>6. CASE SetsDefault(t)
    <3> DEFINE next == [r EXCEPT !.at = "resolve"]
    <3>1. analyst' = [analyst EXCEPT ![t] = next]
      BY <2>6 DEF SetsDefault, Becomes
    <3>2. next.old = r.old /\ next.place = r.place /\ next.found = r.found /\ next.round = r.round
      BY <2>1
    <3> HIDE DEF next
    <3>3. Walks(next)
      BY <2>1, <3>2 DEF Walks
    <3> QED  BY <1>4, <1>5, <2>2, <3>1, <3>3
  <2>7. CASE Resolves(t)
    <3>1. PICK known \in BOOLEAN :
               analyst' = [analyst EXCEPT ![t] =
                 [r EXCEPT !.at = "restore", !.address = IF Stage(t) = "a" THEN known ELSE r.address]]
      BY <2>7 DEF Resolves, Becomes
    <3> DEFINE found == IF Stage(t) = "a" THEN known ELSE r.address
               next == [r EXCEPT !.at = "restore", !.address = found]
    <3> HIDE DEF found
    <3>2. next.old = r.old /\ next.place = r.place /\ next.found = r.found /\ next.round = r.round
      BY <2>1
    <3>3. analyst' = [analyst EXCEPT ![t] = next]
      BY <3>1 DEF found
    <3> HIDE DEF next
    <3>4. Walks(next)
      BY <2>1, <3>2 DEF Walks
    <3> QED  BY <1>4, <1>5, <2>2, <3>3, <3>4
  <2>8. CASE ReadsRobots(t)
    <3>1. PICK heard : analyst' = [analyst EXCEPT ![t] = [r EXCEPT !.robots[Site(t)] = heard]]
      BY <2>8 DEF ReadsRobots, Becomes
    <3> DEFINE next == [r EXCEPT !.robots[Site(t)] = heard]
    <3>2. next.old = r.old /\ next.place = r.place /\ next.found = r.found /\ next.round = r.round
      BY <2>1
    <3> HIDE DEF next
    <3>3. Walks(next)
      BY <2>1, <3>2 DEF Walks
    <3>4. analyst' = [analyst EXCEPT ![t] = next]
      BY <3>1 DEF next
    <3> QED  BY <1>4, <1>5, <2>2, <3>3, <3>4
  <2>9. CASE Forbidden(t) \/ ProbesProfile(t)
    <3>1. \E known \in {0, 1} : NextSite(t, r.found + (IF r.round = 1 THEN known ELSE 0))
      <4>1. CASE Forbidden(t)
        <5>1. NextSite(t, r.found) /\ r.found \in Nat
          BY <2>1, <4>1 DEF Forbidden, Walks
        <5>2. r.found + (IF r.round = 1 THEN 0 ELSE 0) = r.found
          BY <5>1
        <5> QED  BY <5>1, <5>2
      <4>2. CASE ProbesProfile(t)
        BY <4>2 DEF ProbesProfile
      <4> QED  BY <2>9, <4>1, <4>2
    <3> QED  BY <1>4, <1>5, <2>2, <3>1, WalkGoesOn
  <2> QED  BY <1>5, <2>3, <2>4, <2>5, <2>6, <2>7, <2>8, <2>9
<1>6. CASE UNCHANGED lookupVars
  BY <1>1, <1>2, <1>6 DEF lookupVars, torVars, WalksTyped
<1> QED  BY <1>3, <1>5, <1>6 DEF LookupsNext

\* The analyses begin so, and it is what their types say.
LEMMA WalkStarts == LookupsInit => WalkInv
<1>1. LookupsInit => WalksTyped
  BY WalkBegins DEF LookupsInit, WalksTyped, TimeOuts
<1> QED  BY <1>1, LookupsBegin DEF WalkInv

LEMMA WalkMeans == WalkInv => LookupsTypeOK
<1> SUFFICES ASSUME WalkInv PROVE LookupsTypeOK
  OBVIOUS
<1>1. \A t \in Analysts : /\ Walks(analyst[t]) /\ analyst[t].place \in 1 .. Platforms /\ Platforms \in Nat
                          /\ torActive \in BOOLEAN
  BY LookupsAssumption DEF WalkInv, WalksTyped, LookupInv, LookupTypes, Holds, Sites
<1>2. ASSUME NEW t \in Analysts PROVE analyst[t].place \in 1 .. Platforms /\ analyst[t].found <= Platforms
  <2> DEFINE r == analyst[t]
  <2>1. r.place \in 1 .. Platforms /\ Platforms \in Nat /\ r.found \in Nat
    BY <1>1 DEF Walks
  <2>2. r.found <= r.place - 1 \/ r.found <= Platforms
    BY <1>1 DEF Walks
  <2> HIDE DEF r
  <2>3. r.found <= Platforms
    BY <2>1, <2>2
  <2> QED  BY <2>1, <2>3 DEF r
<1> QED  BY <1>2 DEF LookupsTypeOK, WalkInv, WalksTyped, LookupInv, LookupTypes, TimeOuts

-----------------------------------------------------------------------------
RagFields == {"at", "left", "all", "cut"}

RagTypes ==
    /\ DOMAIN ragCall = RagUsers
    /\ \A t \in RagUsers : DOMAIN ragCall[t] = RagFields
    /\ \A t \in RagUsers : ragCall[t].at = "add" => ragCall[t].left \in Seq(Documents)

\* What an undisturbed call has taken from its texts is in the collection.
Progress(call) ==
    call.at = "add" /\ ~call.cut => call.all \subseteq stored \union ToSet(call.left)

RagInv ==
    /\ RagTypes
    /\ ~fallback => kept \subseteq stored /\ \A t \in RagUsers : Progress(ragCall[t])

\* A batch and the texts after it are all the texts that are left.
LEMMA Batches ==
    ASSUME NEW s \in Seq(Documents)
    PROVE  /\ Others(s) \in Seq(Documents)
           /\ ToSet(s) \subseteq ToSet(Firsts(s)) \union ToSet(Others(s))
           /\ ToSet(<<>>) = {}
<1> DEFINE n == IF Len(s) < BatchSize THEN Len(s) ELSE BatchSize
<1>1. n \in Nat /\ n <= Len(s) /\ Len(s) \in Nat
  BY RagAssumption
<1>2. Firsts(s) = SubSeq(s, 1, n) /\ Len(Firsts(s)) = n
  BY <1>1 DEF Firsts
<1>3. Others(s) = SubSeq(s, n + 1, Len(s))
  BY <1>2 DEF Others
<1> HIDE DEF n
<1>4. Others(s) \in Seq(Documents) /\ Len(Others(s)) = Len(s) - n
  BY <1>1, <1>3
<1>5. ASSUME NEW i \in 1 .. Len(s) PROVE s[i] \in ToSet(Firsts(s)) \union ToSet(Others(s))
  <2>1. CASE i <= n
    <3>1. Firsts(s)[i] = s[i] /\ i \in DOMAIN Firsts(s)
      BY <1>1, <1>2, <2>1
    <3> QED  BY <3>1 DEF ToSet
  <2>2. CASE ~(i <= n)
    <3>1. Others(s)[i - n] = s[i] /\ i - n \in DOMAIN Others(s)
      BY <1>1, <1>3, <1>4, <2>2
    <3> QED  BY <3>1 DEF ToSet
  <2> QED  BY <2>1, <2>2
<1>6. DOMAIN s = 1 .. Len(s)
  OBVIOUS
<1> QED  BY <1>4, <1>5, <1>6 DEF ToSet

\* A process starts with an empty history.
LEMMA RagBegins == RagInit => RagInv
  BY DEF RagInit, RagInv, RagTypes, RagFields, NoRagCall, Progress

\* One thread goes on, and nothing is taken from the collection.
LEMMA OneCallGoes ==
    ASSUME RagInv, NEW t \in RagUsers, NEW next, ragCall' = [ragCall EXCEPT ![t] = next],
           DOMAIN next = RagFields, next.at = "add" => next.left \in Seq(Documents),
           ~fallback' =>
               /\ ~fallback /\ stored \subseteq stored' /\ kept' \subseteq stored'
               /\ next.at = "add" /\ ~next.cut => next.all \subseteq stored' \union ToSet(next.left)
    PROVE  RagInv'
<1> USE DEF RagInv, RagTypes
<1>1. ragCall'[t] = next /\ \A u \in RagUsers \ {t} : ragCall'[u] = ragCall[u]
  OBVIOUS
<1>2. RagTypes'
  BY <1>1
<1>3. ASSUME ~fallback' PROVE kept' \subseteq stored' /\ \A u \in RagUsers : Progress(ragCall[u])'
  BY <1>1, <1>3 DEF Progress
<1> QED  BY <1>2, <1>3

\* Every step of a thread, and every start, keeps it.
LEMMA RagSteps == RagInv /\ [RagNext]_ragVars => RagInv'
<1> SUFFICES ASSUME RagInv, [RagNext]_ragVars
             PROVE  RagInv'
  OBVIOUS
<1>1. /\ DOMAIN NoRagCall = RagFields /\ NoRagCall.at = "idle"
      /\ (~fallback => kept \subseteq stored) /\ DOMAIN ragCall = RagUsers
      /\ \A t \in RagUsers : DOMAIN ragCall[t] = RagFields
  BY DEF NoRagCall, RagFields, RagInv, RagTypes
<1>2. ASSUME NEW t \in RagUsers, NEW call, Begins(t, call), DOMAIN call = RagFields,
             call.at = "add" => call.left \in Seq(Documents) /\ call.all = ToSet(call.left)
      PROVE  RagInv'
  <2>1. CASE fallback
    BY <1>2, <2>1 DEF Begins, RagInv, RagTypes
  <2>2. CASE ~fallback
    BY <1>1, <1>2, <2>2, OneCallGoes DEF Begins
  <2> QED  BY <2>1, <2>2
<1>3. ASSUME NEW t \in RagUsers, Add(t) PROVE RagInv'
  <2>1. PICK texts \in BoundedSeq(Documents, DocsMax) :
             Begins(t, [at |-> "add", left |-> texts, all |-> ToSet(texts), cut |-> FALSE])
    BY <1>3 DEF Add
  <2>2. texts \in Seq(Documents)
    BY DEF BoundedSeq, SeqOf
  <2>3. DOMAIN [at |-> "add", left |-> texts, all |-> ToSet(texts), cut |-> FALSE] = RagFields
    BY DEF RagFields
  <2> QED  BY <1>2, <2>1, <2>2, <2>3
<1>4. ASSUME NEW t \in RagUsers, SearchesDocuments(t) \/ Delete(t) \/ Clear(t) PROVE RagInv'
  <2>1. PICK at \in {"search", "delete", "clear"} : Begins(t, [NoRagCall EXCEPT !.at = at])
    BY <1>4 DEF SearchesDocuments, Delete, Clear
  <2>2. DOMAIN [NoRagCall EXCEPT !.at = at] = RagFields /\ [NoRagCall EXCEPT !.at = at].at = at
    BY DEF NoRagCall, RagFields
  <2> QED  BY <1>2, <2>1, <2>2
<1>5. ASSUME NEW t \in RagUsers, AddsBatch(t) PROVE RagInv'
  <2> DEFINE call == ragCall[t]
  <2>1. call.at = "add" /\ call.left \in Seq(Documents) /\ DOMAIN call = RagFields
    BY <1>5 DEF AddsBatch, RagInv, RagTypes
  <2>2. CASE /\ stored' = stored \union ToSet(Firsts(call.left)) /\ UNCHANGED fallback
             /\ IF Others(call.left) = <<>> THEN RagReports(t)
                ELSE ragCall' = [ragCall EXCEPT ![t].left = Others(@)] /\ UNCHANGED kept
    <3>1. ASSUME ~fallback, ~call.cut
          PROVE  call.all \subseteq stored' \union ToSet(Others(call.left))
      BY <2>1, <2>2, <3>1, Batches DEF RagInv, Progress
    <3>2. CASE Others(call.left) = <<>>
      <4>1. /\ ragCall' = [ragCall EXCEPT ![t] = NoRagCall]
            /\ kept' = IF call.cut THEN kept ELSE kept \union call.all
        BY <2>2, <3>2 DEF RagReports
      <4>2. ~fallback => kept' \subseteq stored'
        BY <1>1, <2>1, <2>2, <3>1, <3>2, <4>1, Batches
      <4> QED  BY <1>1, <2>2, <4>1, <4>2, OneCallGoes
    <3>3. CASE Others(call.left) # <<>>
      <4> DEFINE next == [call EXCEPT !.left = Others(call.left)]
      <4>1. ragCall' = [ragCall EXCEPT ![t] = next] /\ UNCHANGED kept
        BY <2>2, <3>3
      <4>2. /\ DOMAIN next = RagFields /\ next.at = call.at /\ next.all = call.all
            /\ next.cut = call.cut /\ next.left = Others(call.left)
        BY <2>1 DEF RagFields
      <4>3. next.left \in Seq(Documents)
        BY <2>1, <4>2, Batches
      <4> HIDE DEF next
      <4> QED  BY <1>1, <2>2, <3>1, <4>1, <4>2, <4>3, OneCallGoes
    <3> QED  BY <3>2, <3>3
  <2>3. CASE fallback' = TRUE /\ RagReports(t)
    BY <1>1, <2>3, OneCallGoes DEF RagReports
  <2> QED  BY <1>5, <2>2, <2>3 DEF AddsBatch
<1>6. ASSUME NEW t \in RagUsers, Finds(t) \/ Creates(t) PROVE RagInv'
  <2>1. /\ ragCall' = [ragCall EXCEPT ![t] = NoRagCall] /\ UNCHANGED <<stored, kept>>
        /\ fallback' = TRUE \/ UNCHANGED fallback
    BY <1>6 DEF Finds, Creates
  <2>2. ~fallback' => ~fallback
    BY <2>1
  <2> QED  BY <1>1, <2>1, <2>2, OneCallGoes
<1>7. ASSUME NEW t \in RagUsers, Deletes(t) \/ Clears(t) PROVE RagInv'
  <2>1. CASE RemoveFails(t)
    BY <1>1, <2>1, OneCallGoes DEF RemoveFails
  <2>2. ASSUME NEW docs \in SUBSET Documents, Removes(t, docs), UNCHANGED fallback PROVE RagInv'
    <3>1. /\ stored' = stored \ docs /\ kept' = kept \ docs /\ DOMAIN ragCall' = RagUsers
      BY <2>2 DEF Removes
    <3>2. DOMAIN ragCall'[t] = RagFields /\ ragCall'[t].at # "add"
      BY <2>2 DEF Removes, NoRagCall, RagFields
    <3>3. ASSUME NEW u \in RagUsers \ {t}
          PROVE  /\ DOMAIN ragCall'[u] = RagFields
                 /\ ragCall'[u].at = ragCall[u].at /\ ragCall'[u].left = ragCall[u].left
                 /\ ragCall'[u].all = ragCall[u].all
                 /\ ragCall[u].at = "add" /\ ~ragCall'[u].cut =>
                      ~ragCall[u].cut /\ ragCall[u].all \cap docs = {}
      <4>1. ragCall'[u] = [ragCall[u] EXCEPT !.cut =
                             ragCall[u].cut \/ (ragCall[u].at = "add" /\ ragCall[u].all \cap docs # {})]
        BY <2>2 DEF Removes
      <4>2. DOMAIN ragCall[u] = RagFields
        BY <1>1
      <4> QED  BY <4>1, <4>2 DEF RagFields
    <3>4. RagTypes'
      BY <3>1, <3>2, <3>3 DEF RagInv, RagTypes
    <3>5. ASSUME ~fallback' PROVE kept' \subseteq stored' /\ \A u \in RagUsers : Progress(ragCall[u])'
      <4>1. ~fallback /\ kept \subseteq stored /\ \A u \in RagUsers : Progress(ragCall[u])
        BY <2>2, <3>5 DEF RagInv
      <4>2. ASSUME NEW u \in RagUsers PROVE Progress(ragCall[u])'
        <5>1. CASE u = t
          BY <3>2, <5>1 DEF Progress
        <5>2. CASE u # t
          BY <3>1, <3>3, <4>1, <5>2 DEF Progress
        <5> QED  BY <5>1, <5>2
      <4> QED  BY <3>1, <4>1, <4>2
    <3> QED  BY <3>4, <3>5 DEF RagInv
  <2> QED  BY <1>7, <2>1, <2>2 DEF Deletes, Clears
<1>8. CASE RagRestart
  BY <1>1, <1>8 DEF RagRestart, RagInv, RagTypes, Progress
<1>9. CASE UNCHANGED ragVars
  BY <1>9 DEF ragVars, RagInv, RagTypes, Progress
<1> QED  BY <1>3, <1>4, <1>5, <1>6, <1>7, <1>8, <1>9 DEF RagNext

\* Outside of the fallback mode the collection has every document whose
\* addition was reported, however the calls of the threads interleave
\* (RAGManager.add_documents, delete_documents, clear_collection).
THEOREM DocumentsStay == RagSpec => []KeptWhileOn
<1>1. RagInv => KeptWhileOn
  BY DEF RagInv, KeptWhileOn
<1> QED  BY <1>1, RagBegins, RagSteps, PTL DEF RagSpec

\* What a call is, and what the collection has.
RagCall == [at : {"idle", "add", "search", "delete", "clear", "create"}, left : BoundedSeq(Documents, DocsMax),
            all : SUBSET Documents, cut : BOOLEAN]
RagShapes ==
    /\ stored \subseteq Documents /\ kept \subseteq Documents
    /\ collection \in {"there", "gone"} /\ fallback \in BOOLEAN
    /\ ragCall \in [RagUsers -> RagCall]
    /\ ragCalls \in 0 .. CallsMax /\ ragStartsLeft \in 0 .. RagStarts

\* The texts of a call, its batches and what follows them are documents.
LEMMA TextsCut ==
    /\ <<>> \in BoundedSeq(Documents, DocsMax)
    /\ \A s \in BoundedSeq(Documents, DocsMax) :
         /\ ToSet(s) \subseteq Documents /\ ToSet(Firsts(s)) \subseteq Documents
         /\ Others(s) \in BoundedSeq(Documents, DocsMax)
<1>1. BoundedSeq(Documents, DocsMax) = {s \in Seq(Documents) : Len(s) <= DocsMax}
  <2>1. ASSUME NEW s \in Seq(Documents), Len(s) <= DocsMax PROVE s \in BoundedSeq(Documents, DocsMax)
    <3>1. s \in [1 .. Len(s) -> Documents] /\ Len(s) \in 0 .. DocsMax
      BY <2>1, RagAssumption
    <3> QED  BY <3>1 DEF BoundedSeq, SeqOf
  <2>2. ASSUME NEW s \in BoundedSeq(Documents, DocsMax) PROVE s \in Seq(Documents) /\ Len(s) <= DocsMax
    <3>1. PICK m \in 0 .. DocsMax : s \in [1 .. m -> Documents]
      BY DEF BoundedSeq, SeqOf
    <3>2. s \in Seq(Documents) /\ Len(s) = m
      BY <3>1, RagAssumption
    <3> QED  BY <3>1, <3>2, RagAssumption
  <2> QED  BY <2>1, <2>2
<1>2. ASSUME NEW s \in Seq(Documents), Len(s) <= DocsMax
      PROVE  /\ ToSet(s) \subseteq Documents /\ ToSet(Firsts(s)) \subseteq Documents
             /\ Others(s) \in Seq(Documents) /\ Len(Others(s)) <= DocsMax
  <2> DEFINE n == IF Len(s) < BatchSize THEN Len(s) ELSE BatchSize
  <2>1. n \in Nat /\ n <= Len(s) /\ Len(s) \in Nat
    BY RagAssumption
  <2>2. Firsts(s) = SubSeq(s, 1, n)
    BY <2>1 DEF Firsts
  <2> HIDE DEF n
  <2>3. Firsts(s) \in Seq(Documents) /\ Len(Firsts(s)) = n
    BY <2>1, <2>2
  <2>4. Others(s) = SubSeq(s, n + 1, Len(s))
    BY <2>3 DEF Others
  <2>5. Others(s) \in Seq(Documents) /\ Len(Others(s)) = Len(s) - n
    BY <2>1, <2>4
  <2>6. Len(Others(s)) <= DocsMax
    BY <1>2, <2>1, <2>5, RagAssumption
  <2> QED  BY <2>3, <2>5, <2>6 DEF ToSet
<1>3. <<>> \in Seq(Documents) /\ Len(<<>>) <= DocsMax
  BY RagAssumption
<1> QED  BY <1>1, <1>2, <1>3

\* A thread at rest.
LEMMA RestingCall == NoRagCall \in RagCall
  BY TextsCut DEF NoRagCall, RagCall

\* The process starts so.
LEMMA ShapesBegin == RagInit => RagShapes
  BY RestingCall, RagAssumption DEF RagInit, RagShapes

\* Every call and every start keeps it.
LEMMA ShapesStay == RagShapes /\ [RagNext]_ragVars => RagShapes'
<1> SUFFICES ASSUME RagShapes, [RagNext]_ragVars PROVE RagShapes'
  OBVIOUS
<1> USE DEF RagShapes, ragCounts
<1>1. ASSUME NEW t \in RagUsers, NEW call \in RagCall, Begins(t, call) PROVE RagShapes'
  <2>1. ragCalls' \in 0 .. CallsMax
    BY <1>1, RagAssumption DEF Begins
  <2>2. ragCall' \in [RagUsers -> RagCall]
    BY <1>1 DEF Begins
  <2> QED  BY <1>1, <2>1, <2>2 DEF Begins
<1>2. ASSUME NEW t \in RagUsers, Add(t) PROVE RagShapes'
  <2>1. PICK texts \in BoundedSeq(Documents, DocsMax) :
             Begins(t, [at |-> "add", left |-> texts, all |-> ToSet(texts), cut |-> FALSE])
    BY <1>2 DEF Add
  <2>2. [at |-> "add", left |-> texts, all |-> ToSet(texts), cut |-> FALSE] \in RagCall
    BY TextsCut DEF RagCall
  <2> QED  BY <1>1, <2>1, <2>2
<1>3. ASSUME NEW t \in RagUsers, SearchesDocuments(t) \/ Delete(t) \/ Clear(t) PROVE RagShapes'
  <2>1. PICK at \in {"search", "delete", "clear"} : Begins(t, [NoRagCall EXCEPT !.at = at])
    BY <1>3 DEF SearchesDocuments, Delete, Clear
  <2>2. [NoRagCall EXCEPT !.at = at] \in RagCall
    BY RestingCall DEF RagCall
  <2> QED  BY <1>1, <2>1, <2>2
<1>4. ASSUME NEW t \in RagUsers, RagReports(t)
      PROVE  ragCall' \in [RagUsers -> RagCall] /\ kept' \subseteq Documents
  <2>1. ragCall[t].all \subseteq Documents
    BY DEF RagCall
  <2> QED  BY <1>4, <2>1, RestingCall DEF RagReports
<1>5. ASSUME NEW t \in RagUsers, AddsBatch(t) PROVE RagShapes'
  <2> DEFINE call == ragCall[t]
             next == [call EXCEPT !.left = Others(call.left)]
  <2>1. call \in RagCall /\ call.left \in BoundedSeq(Documents, DocsMax)
    BY DEF RagCall
  <2>2. ToSet(Firsts(call.left)) \subseteq Documents /\ Others(call.left) \in BoundedSeq(Documents, DocsMax)
    BY <2>1, TextsCut
  <2>3. next \in RagCall
    BY <2>1, <2>2 DEF RagCall
  <2>4. UNCHANGED <<collection, ragCounts>> /\ stored' \subseteq Documents /\ fallback' \in BOOLEAN
    BY <1>5, <2>2 DEF AddsBatch
  <2>5. RagReports(t) \/ (ragCall' = [ragCall EXCEPT ![t] = next] /\ UNCHANGED kept)
    BY <1>5 DEF AddsBatch
  <2> HIDE DEF next, call
  <2>6. ragCall' \in [RagUsers -> RagCall] /\ kept' \subseteq Documents
    BY <1>4, <2>3, <2>5
  <2> QED  BY <2>4, <2>6
<1>6. ASSUME NEW t \in RagUsers, Finds(t) \/ Creates(t) PROVE RagShapes'
  <2>1. /\ ragCall' = [ragCall EXCEPT ![t] = NoRagCall] /\ UNCHANGED <<stored, kept, ragCounts>>
        /\ fallback' \in BOOLEAN /\ collection' \in {"there", "gone"}
    BY <1>6 DEF Finds, Creates
  <2> QED  BY <2>1, RestingCall
<1>7. ASSUME NEW t \in RagUsers, NEW docs \in SUBSET Documents, Removes(t, docs)
      PROVE  ragCall' \in [RagUsers -> RagCall] /\ stored' \subseteq Documents /\ kept' \subseteq Documents
  <2>1. [NoRagCall EXCEPT !.at = IF docs = Documents THEN "create" ELSE "idle"] \in RagCall
    BY RestingCall DEF RagCall
  <2>2. ASSUME NEW u \in RagUsers
        PROVE  [ragCall[u] EXCEPT !.cut = @ \/ (ragCall[u].at = "add" /\ ragCall[u].all \cap docs # {})] \in RagCall
    <3> DEFINE cut == ragCall[u].cut \/ (ragCall[u].at = "add" /\ ragCall[u].all \cap docs # {})
    <3>1. ragCall[u] \in RagCall /\ cut \in BOOLEAN
      BY Zenon DEF RagCall
    <3> HIDE DEF cut
    <3>2. [ragCall[u] EXCEPT !.cut = cut] \in RagCall
      BY <3>1 DEF RagCall
    <3> QED  BY <3>2 DEF cut
  <2>3. ragCall' \in [RagUsers -> RagCall]
    BY <1>7, <2>1, <2>2, Zenon DEF Removes
  <2> QED  BY <1>7, <2>3 DEF Removes
<1>8. ASSUME NEW t \in RagUsers, RemoveFails(t)
      PROVE  ragCall' \in [RagUsers -> RagCall] /\ fallback' \in BOOLEAN /\ UNCHANGED <<stored, collection, kept>>
  BY <1>8, RestingCall DEF RemoveFails
<1>9. ASSUME NEW t \in RagUsers, Deletes(t) \/ Clears(t) PROVE RagShapes'
  <2>1. UNCHANGED ragCounts
    BY <1>9 DEF Deletes, Clears
  <2>2. CASE RemoveFails(t)
    BY <1>8, <2>1, <2>2
  <2>3. CASE ~RemoveFails(t)
    <3>1. /\ \E docs \in SUBSET Documents : Removes(t, docs)
          /\ fallback' = fallback /\ collection' \in {"there", "gone"}
      BY <1>9, <2>3 DEF Deletes, Clears
    <3> QED  BY <1>7, <2>1, <3>1
  <2> QED  BY <2>2, <2>3
<1>10. CASE RagRestart
  <2>1. /\ ragCall' = [t \in RagUsers |-> NoRagCall] /\ kept' = {} /\ UNCHANGED <<stored, ragCalls>>
        /\ fallback' \in BOOLEAN /\ collection' \in {"there", "gone"}
    BY <1>10 DEF RagRestart
  <2>2. ragStartsLeft' \in 0 .. RagStarts
    BY <1>10, RagAssumption DEF RagRestart
  <2> QED  BY <2>1, <2>2, RestingCall
<1>11. CASE UNCHANGED ragVars
  BY <1>11 DEF ragVars
<1> QED  BY <1>2, <1>3, <1>5, <1>6, <1>9, <1>10, <1>11 DEF RagNext

LEMMA ShapesMean == RagShapes => RagTypeOK
<1> SUFFICES ASSUME RagShapes PROVE RagTypeOK
  OBVIOUS
<1>1. ASSUME NEW t \in RagUsers
      PROVE  /\ ragCall[t].at \in {"idle", "add", "search", "delete", "clear", "create"}
             /\ ragCall[t].left \in BoundedSeq(Documents, DocsMax)
             /\ ragCall[t].all \subseteq Documents /\ ragCall[t].cut \in BOOLEAN
  <2>1. ragCall[t] \in RagCall
    BY DEF RagShapes
  <2> QED  BY <2>1 DEF RagCall
<1> QED  BY <1>1, Zenon DEF RagShapes, RagTypeOK

-----------------------------------------------------------------------------
\* The lengths are numbers, and a built prompt fits.
BudgetInv ==
    /\ ContextBudgetTypeOK
    /\ ask \in [system : Nat, query : Nat, limit : Nat]
    /\ sections \in Seq(Nat)
    /\ BuiltPromptFits

\* Tokens are estimated from below: four characters each, and up to three more.
LEMMA TokensCount ==
    ASSUME NEW chars \in Nat
    PROVE  /\ Tokens(chars) \in Nat
           /\ 4 * Tokens(chars) <= chars /\ chars <= 4 * Tokens(chars) + 3
  BY DEF Tokens, CharsPerToken

\* The budgets are numbers.
LEMMA BudgetsAreNumbers ==
    ASSUME NEW w \in Nat, NEW c \in Nat
    PROVE  SafeMaxTokens(w, c) \in Nat /\ Reserve(w, c) \in Nat /\ PromptBudget(w, c) \in Nat
<1> USE DEF Least, Most, Above
<1>1. SafeMaxTokens(w, c) \in Nat
  BY DEF SafeMaxTokens
<1>2. w \div 5 \in Nat /\ w \div 4 \in Nat
  OBVIOUS
<1>3. Reserve(w, c) \in Nat
  BY <1>1, <1>2 DEF Reserve
<1> HIDE DEF SafeMaxTokens, Reserve
<1>4. PromptBudget(w, c) \in Nat
  BY <1>2, <1>3 DEF PromptBudget
<1> QED  BY <1>1, <1>3, <1>4

\* A text that is cut has at most as many tokens as it was cut to; one that fits
\* is not cut.
LEMMA CutsFit ==
    ASSUME NEW chars \in Nat, NEW limit \in Nat, NEW cut \in Truncations(chars, limit)
    PROVE  /\ cut \in Nat /\ Tokens(cut) <= limit
           /\ Tokens(chars) <= limit => cut = chars
<1>1. CASE Tokens(chars) <= limit
  BY <1>1 DEF Truncations
<1>2. CASE ~(Tokens(chars) <= limit)
  <2>1. PICK n \in {limit * 4, Least(limit * 4, (limit * 4) \div 2 + 1)} : cut = n + 3
    BY <1>2 DEF Truncations, CharsPerToken, Ellipsis
  <2>2. n \in Nat /\ n <= limit * 4
    BY <2>1 DEF Least
  <2> QED  BY <1>2, <2>1, <2>2, TokensCount
<1> QED  BY <1>1, <1>2

\* The labels fit into what is allowed for them.
LEMMA LabelsFit ==
    ASSUME NEW s \in Nat, NEW q \in Nat, NEW c \in Nat, NEW budget \in Nat,
           \/ c = 0
           \/ c >= ContextLabel /\ Tokens(s) + Tokens(q) + Overhead + Tokens(c - ContextLabel) <= budget,
           Tokens(s) + Tokens(q) + Overhead <= budget
    PROVE  Tokens(s + c + QuestionLabel + q) <= budget
<1> DEFINE whole == s + c + QuestionLabel + q
<1> USE DEF ContextLabel, QuestionLabel, Overhead
<1>1. /\ Tokens(s) \in Nat /\ s <= 4 * Tokens(s) + 3
      /\ Tokens(q) \in Nat /\ q <= 4 * Tokens(q) + 3
  BY TokensCount
<1>2. Tokens(whole) \in Nat /\ 4 * Tokens(whole) <= whole
  <2>1. whole \in Nat
    OBVIOUS
  <2> HIDE DEF whole
  <2> QED  BY <2>1, TokensCount
<1>3. CASE c = 0
  BY <1>1, <1>2, <1>3
<1>4. CASE c >= ContextLabel /\ Tokens(s) + Tokens(q) + Overhead + Tokens(c - ContextLabel) <= budget
  <2>1. c - ContextLabel \in Nat
    BY <1>4
  <2>2. Tokens(c - ContextLabel) \in Nat /\ c - ContextLabel <= 4 * Tokens(c - ContextLabel) + 3
    BY <2>1, TokensCount
  <2> QED  BY <1>1, <1>2, <1>4, <2>1, <2>2
<1> QED  BY <1>3, <1>4

\* An agent begins without a prompt.
LEMMA BudgetStart == ContextBudgetInit => BudgetInv
  BY DEF ContextBudgetInit, BudgetInv, ContextBudgetTypeOK, BuiltPromptFits

\* Every step from the settings to the sent prompt keeps it.
LEMMA BudgetStep == BudgetInv /\ [ContextBudgetNext]_budgetVars => BudgetInv'
<1> SUFFICES ASSUME BudgetInv, [ContextBudgetNext]_budgetVars
             PROVE  BudgetInv'
  OBVIOUS
<1> DEFINE budget == PromptBudget(window, configured)
<1>1. /\ window \in Nat /\ configured \in Nat /\ budget \in Nat
      /\ SafeMaxTokens(window, configured) \in Nat
      /\ ContentLengths \subseteq Nat /\ SystemLengths \subseteq Nat /\ QueryLengths \subseteq Nat
      /\ ContextLimits \subseteq Nat
  <2>1. window \in Nat /\ configured \in Nat
    BY ContextBudgetAssumption DEF BudgetInv, ContextBudgetTypeOK
  <2> QED  BY <2>1, BudgetsAreNumbers, ContextBudgetAssumption
<1> USE DEF BudgetInv, ContextBudgetTypeOK
<1>2. CASE AsksModel
  <2>1. PICK s \in SystemLengths, q \in QueryLengths, l \in ContextLimits :
          /\ ask' = [system |-> s, query |-> q, limit |-> l]
          /\ remaining' = Least(l, budget)
    BY <1>2 DEF AsksModel
  <2>2. PICK a \in ContentLengths, b \in ContentLengths : sections' \in {<<>>, <<a>>, <<a, b>>}
    BY <1>2 DEF AsksModel
  <2>3. sections' \in Seq(Nat)
    <3>1. a \in Nat /\ b \in Nat
      BY <1>1
    <3>2. <<>> \in Seq(Nat) /\ <<a>> \in Seq(Nat) /\ <<a, b>> \in Seq(Nat)
      BY <3>1
    <3> QED  BY <2>2, <3>2
  <2>4. remaining' \in Nat /\ ask' \in [system : Nat, query : Nat, limit : Nat]
    BY <1>1, <2>1 DEF Least
  <2> QED  BY <1>2, <2>3, <2>4 DEF AsksModel, BuiltPromptFits
<1>3. CASE PacksWhole
  <2>1. Head(sections) \in Nat /\ Tail(sections) \in Seq(Nat)
    BY <1>3 DEF PacksWhole
  <2>2. Tokens(Head(sections)) \in Nat
    BY <2>1, TokensCount
  <2> DEFINE h == Head(sections)
             t == Tokens(h)
  <2>3. /\ context' = context + Separator + SectionLabel + h
        /\ remaining' = remaining - t - SectionOverhead /\ t + SectionOverhead <= remaining
        /\ sections' = Tail(sections) /\ UNCHANGED <<stage, window, configured, ask, prompt>>
        /\ stage = "sections"
    BY <1>3 DEF PacksWhole
  <2>4. h \in Nat /\ t \in Nat
    BY <2>1, <2>2
  <2> HIDE DEF h, t
  <2>5. context' \in Nat
    BY <2>3, <2>4, ContextBudgetAssumption DEF Separator, SectionLabel
  <2>6. remaining' \in Nat
    BY <2>3, <2>4 DEF SectionOverhead
  <2> QED  BY <2>1, <2>3, <2>5, <2>6 DEF BuiltPromptFits
<1>4. CASE PacksCut
  <2>1. Head(sections) \in Nat /\ Tail(sections) \in Seq(Nat) /\ remaining - SectionOverhead \in Nat
    BY <1>4 DEF PacksCut, SectionOverhead
  <2>2. PICK cut \in Truncations(Head(sections), remaining - SectionOverhead) :
          context' = context + Separator + SectionLabel + Truncated + cut
    BY <1>4 DEF PacksCut
  <2>3. cut \in Nat
    BY <2>1, CutsFit
  <2>4. context' \in Nat
    BY <2>2, <2>3, ContextBudgetAssumption DEF Separator, SectionLabel, Truncated
  <2> QED  BY <1>4, <2>1, <2>4 DEF PacksCut, BuiltPromptFits
<1>5. CASE PackingEnds
  BY <1>5 DEF PackingEnds, BuiltPromptFits
<1>6. CASE BuildsPrompt
  <2> DEFINE left == ContextAvailable(ask)
             fixed == Tokens(ask.system) + Tokens(ask.query) + Overhead
  <2>1. fixed \in Nat /\ ask.system \in Nat /\ ask.query \in Nat
    <3>1. ask.system \in Nat /\ ask.query \in Nat
      OBVIOUS
    <3>2. Tokens(ask.system) \in Nat /\ Tokens(ask.query) \in Nat
      BY <3>1, TokensCount
    <3> QED  BY <3>1, <3>2 DEF Overhead
  <2>2. left \in Nat /\ (left > 0 => fixed + left <= budget)
    <3>1. Above(budget, fixed) \in Nat /\ (Above(budget, fixed) > 0 => fixed + Above(budget, fixed) <= budget)
      BY <1>1, <2>1 DEF Above, Most
    <3>2. left = Capped(Above(budget, fixed), ask.limit)
      BY DEF ContextAvailable
    <3> HIDE DEF fixed, budget, left
    <3>3. left \in Nat /\ left <= Above(budget, fixed)
      BY <3>1, <3>2 DEF Capped, Least
    <3> QED  BY <3>1, <3>3, <2>1, <1>1
  <2>3. PICK piece \in IF context > 0 /\ left > 0 THEN {ContextLabel + c : c \in Truncations(context, left)} ELSE {0} :
          \E chars \in Truncations(ask.system + piece + QuestionLabel + ask.query, budget) :
            prompt' = [chars |-> chars, question |-> ask.system + piece + QuestionLabel + ask.query]
    BY <1>6 DEF BuildsPrompt
  <2> DEFINE whole == ask.system + piece + QuestionLabel + ask.query
  <2>4. /\ piece \in Nat
        /\ \/ piece = 0
           \/ piece >= ContextLabel /\ fixed + Tokens(piece - ContextLabel) <= budget
    <3>1. CASE context > 0 /\ left > 0
      <4>1. PICK c \in Truncations(context, left) : piece = ContextLabel + c
        BY <2>3, <3>1
      <4>2. c \in Nat /\ Tokens(c) <= left
        BY <2>2, <4>1, CutsFit
      <4>3. Tokens(c) \in Nat /\ piece - ContextLabel = c /\ piece \in Nat /\ piece >= ContextLabel
        BY <4>1, <4>2, TokensCount DEF ContextLabel
      <4> HIDE DEF left, fixed, budget
      <4> QED  BY <1>1, <2>1, <2>2, <3>1, <4>2, <4>3
    <3>2. CASE ~(context > 0 /\ left > 0)
      BY <2>3, <3>2
    <3> QED  BY <3>1, <3>2
  <2>5. whole \in Nat
    BY <2>1, <2>4 DEF QuestionLabel
  <2>6. PICK chars \in Truncations(whole, budget) : prompt' = [chars |-> chars, question |-> whole]
    BY <2>3
  <2>7. chars \in Nat /\ Tokens(chars) <= budget /\ (Tokens(whole) <= budget => chars = whole)
    BY <1>1, <2>5, CutsFit
  <2>8. fixed <= budget => Tokens(whole) <= budget
    BY <1>1, <2>1, <2>4, LabelsFit
  <2>9. /\ stage' = "check" /\ UNCHANGED <<window, configured, ask, sections, remaining, context>>
        /\ prompt'.chars = chars /\ prompt'.question = whole
    BY <1>6, <2>6 DEF BuildsPrompt
  <2> HIDE DEF whole
  <2>10. BuiltPromptFits'
    BY <2>7, <2>8, <2>9 DEF BuiltPromptFits, Fits
  <2> QED  BY <2>5, <2>7, <2>9, <2>10
<1>7. CASE ChecksPrompt
  <2>1. Above(window, SafeMaxTokens(window, configured)) * CharsPerToken \in Nat
    BY <1>1 DEF Above, Most, CharsPerToken
  <2>2. prompt'.chars \in Nat /\ prompt'.question \in Nat
    BY <1>7, <2>1 DEF ChecksPrompt
  <2> QED  BY <1>7, <2>2 DEF ChecksPrompt, BuiltPromptFits
<1>8. CASE NextQuestion
  BY <1>8 DEF NextQuestion, BuiltPromptFits
<1>9. CASE UNCHANGED budgetVars
  BY <1>9 DEF budgetVars, BuiltPromptFits, Fits
<1> QED  BY <1>2, <1>3, <1>4, <1>5, <1>6, <1>7, <1>8, <1>9 DEF ContextBudgetNext

\* Whatever the window, the limits and the lengths are, the prompt that
\* ContextManager builds is within its budget, and keeps the question when that
\* fits.
THEOREM BuiltPromptsFit == ContextBudgetSpec => []BuiltPromptFits
<1>1. BudgetInv => BuiltPromptFits
  BY DEF BudgetInv
<1> QED  BY <1>1, BudgetStart, BudgetStep, PTL DEF ContextBudgetSpec

\* What the client may generate is within the reserve that is kept for it.
WithinReserve(w, c) == SafeMaxTokens(w, c) <= Most(256, w \div 5)

\* Then the client allows a prompt all that the context manager does, or checks nothing.
LEMMA ReservesAgree ==
    ASSUME NEW w \in Nat, NEW c \in Nat, WithinReserve(w, c)
    PROVE  LET input == Above(w, SafeMaxTokens(w, c))
           IN  input = 0 \/ PromptBudget(w, c) <= input
<1> DEFINE safe == SafeMaxTokens(w, c)
           fifth == Most(256, w \div 5)
           reserve == Reserve(w, c)
<1>1. w \div 5 \in Nat /\ w \div 4 \in Nat /\ fifth \in Nat
  BY DEF Most
<1>2. safe \in Nat /\ safe <= w /\ safe <= fifth
  <2>1. safe \in Nat /\ safe <= fifth
    BY BudgetsAreNumbers DEF WithinReserve
  <2>2. Least(c, Most(64, Above(w, 512))) \in Nat
    BY DEF Least, Most, Above
  <2>3. safe <= w
    BY <2>2 DEF SafeMaxTokens, Least
  <2> QED  BY <2>1, <2>3
<1>3. reserve = IF safe >= w THEN Most(64, w \div 4) ELSE safe
  <2>1. Least(Least(safe, fifth), w) = safe
    BY <1>1, <1>2 DEF Least
  <2> QED  BY <2>1 DEF Reserve
<1>4. Above(w, safe) = w - safe
  BY <1>2 DEF Above, Most
<1>5. PromptBudget(w, c) = Above(w, IF reserve > 0 THEN reserve ELSE Least(16000, fifth))
  BY DEF PromptBudget
<1> HIDE DEF safe, fifth, reserve
<1>6. CASE safe >= w
  BY <1>2, <1>4, <1>6 DEF safe
<1>7. CASE safe < w /\ safe > 0
  <2>1. reserve = safe
    BY <1>2, <1>3, <1>7
  <2>2. PromptBudget(w, c) = w - safe
    BY <1>2, <1>4, <1>5, <1>7, <2>1
  <2> QED  BY <1>2, <1>4, <2>2 DEF safe
<1>8. CASE safe < w /\ safe = 0
  <2>1. reserve = 0
    BY <1>3, <1>8
  <2>2. Least(16000, fifth) \in Nat
    BY <1>1 DEF Least
  <2>3. PromptBudget(w, c) <= w
    BY <1>5, <2>1, <2>2 DEF Above, Most
  <2> QED  BY <1>4, <1>8, <2>3 DEF safe
<1> QED  BY <1>2, <1>6, <1>7, <1>8

\* A question that fits has not been cut when it is sent.
ArrivesWithin == stage = "sent" /\ Fits /\ WithinReserve(window, configured) => prompt.chars = prompt.question

LEMMA ArrivesStep == BudgetInv /\ ArrivesWithin /\ [ContextBudgetNext]_budgetVars => ArrivesWithin'
<1> SUFFICES ASSUME BudgetInv, ArrivesWithin, [ContextBudgetNext]_budgetVars
             PROVE  ArrivesWithin'
  OBVIOUS
<1>1. CASE ChecksPrompt
  <2> DEFINE input == Above(window, SafeMaxTokens(window, configured))
             budget == PromptBudget(window, configured)
  <2>1. /\ stage = "check" /\ UNCHANGED <<window, configured, ask>>
        /\ prompt' = IF input > 0 /\ Tokens(prompt.chars) > input
                     THEN [prompt EXCEPT !.chars = input * CharsPerToken] ELSE prompt
    BY <1>1 DEF ChecksPrompt
  <2>2. Fits' <=> Fits
    BY <2>1 DEF Fits
  <2>3. window \in Nat /\ configured \in Nat /\ prompt.chars \in Nat
    BY ContextBudgetAssumption DEF BudgetInv, ContextBudgetTypeOK
  <2>4. budget \in Nat /\ input \in Nat /\ Tokens(prompt.chars) \in Nat
    <3>1. SafeMaxTokens(window, configured) \in Nat /\ budget \in Nat
      BY <2>3, BudgetsAreNumbers
    <3>2. input \in Nat
      BY <2>3, <3>1 DEF Above, Most
    <3>3. Tokens(prompt.chars) \in Nat
      BY <2>3, TokensCount
    <3> QED  BY <3>1, <3>2, <3>3
  <2>5. Tokens(prompt.chars) <= budget /\ (Fits => prompt.chars = prompt.question)
    BY <2>1 DEF BudgetInv, BuiltPromptFits
  <2> SUFFICES ASSUME Fits, WithinReserve(window, configured) PROVE prompt'.chars = prompt'.question
    BY <2>1, <2>2 DEF ArrivesWithin, WithinReserve, SafeMaxTokens
  <2>6. input = 0 \/ budget <= input
    BY <2>3, ReservesAgree
  <2> HIDE DEF input, budget
  <2>7. prompt' = prompt
    BY <2>1, <2>4, <2>5, <2>6
  <2> QED  BY <2>5, <2>7
<1>2. CASE ~ChecksPrompt /\ ContextBudgetNext
  <2>1. stage' # "sent"
    BY <1>2 DEF ContextBudgetNext, AsksModel, PacksWhole, PacksCut, PackingEnds, BuildsPrompt, NextQuestion,
                BudgetInv
  <2> QED  BY <2>1 DEF ArrivesWithin
<1>3. CASE UNCHANGED budgetVars
  BY <1>3 DEF budgetVars, ArrivesWithin, Fits, WithinReserve, SafeMaxTokens
<1> QED  BY <1>1, <1>2, <1>3

\* As long as the tokens that the client may generate are within the reserve of the context
\* manager, which is 256 tokens or a fifth of the window, no question that fits is cut.
THEOREM QuestionsArriveWithin ==
    ContextBudgetSpec => [](WithinReserve(window, configured) => QuestionArrives)
<1>1. ContextBudgetInit => ArrivesWithin
  BY DEF ContextBudgetInit, ArrivesWithin
<1>2. BudgetInv /\ ArrivesWithin => (WithinReserve(window, configured) => QuestionArrives)
  BY DEF BudgetInv, ContextBudgetTypeOK, ArrivesWithin, QuestionArrives
<1> QED  BY <1>1, <1>2, BudgetStart, BudgetStep, ArrivesStep, PTL DEF ContextBudgetSpec

-----------------------------------------------------------------------------
\* The questions that are on their way to an external service, and those that
\* the compliance check has not seen yet.
OnTheirWay == {a \in Askers : asked[a].at = "work" /\ asked[a].question.intent # "forget"}
Unseen == {a \in Askers : asked[a].at \in {"cache", "route", "compliance"}}

AskPlaces == {"idle", "cache", "route", "tools", "model", "compliance", "work", "persist", "record"}
AskStates ==
    [at : AskPlaces, question : Questions, tools : BOOLEAN, cacheable : BOOLEAN, recent : 0 .. 1,
     answer : OsintAnswers, found : SUBSET Alarms]

OsintTypes ==
    /\ remembered \subseteq Kinds
    /\ breached \in (SUBSET Alarms) \union {Unchecked}
    /\ responses \in [Questions -> OsintAnswers] /\ lastAnswer \in OsintAnswers
    /\ lastQuery \in Questions /\ lastResults \in Questions
    /\ termsFile \in {"absent", "empty", "accepted"}
    /\ asked \in [Askers -> AskStates]
    /\ reply \in [question : Questions, answer : OsintAnswers, throughout : SUBSET Kinds]
    /\ asks \in 0 .. AsksMax /\ approved \in Nat /\ lookedUp \in Nat
    /\ accepted \in BOOLEAN
    /\ throughout \in [Askers -> SUBSET Kinds]

\* Only accepted terms let a question pass, and what was found is remembered for
\* a lookup.
TermsFirst ==
    /\ termsFile = "accepted" => accepted
    /\ lookedUp > 0 => accepted
    /\ \A a \in Askers :
         /\ asked[a].at = "work" => accepted
         /\ asked[a].at = "persist" => asked[a].question.intent = "lookup"

\* Each question is approved once, and goes out once after it.
QuestionsCounted ==
    /\ lookedUp + Cardinality(OnTheirWay) <= approved
    /\ approved + Cardinality(Unseen) <= asks

OsintInv == OsintTypes /\ TermsFirst /\ QuestionsCounted

-----------------------------------------------------------------------------
\* A question of a kind that is looked up.
LEMMA KindsOfQuestions ==
    /\ NoQuestion \in Questions
    /\ \A q \in Questions : q.intent \in {"lookup", "forget"} => q.kind \in Kinds
  BY DEF Questions, NoQuestion, Nobody

\* A question goes on, or gets its answer.
LEMMA AsksMove ==
    ASSUME OsintTypes, NEW a \in Askers
    PROVE  /\ \A at \in AskPlaces : AskGoes(a, at) =>
                /\ asked' \in [Askers -> AskStates] /\ asked'[a].at = at
                /\ asked'[a].question = asked[a].question /\ \A b \in Askers \ {a} : asked'[b] = asked[b]
           /\ \A text, of : [text |-> text, of |-> of] \in OsintAnswers /\ Answered(a, text, of) =>
                /\ asked' \in [Askers -> AskStates] /\ asked'[a].at = "record"
                /\ asked'[a].question = asked[a].question /\ \A b \in Askers \ {a} : asked'[b] = asked[b]
<1>1. ASSUME NEW at \in AskPlaces, AskGoes(a, at)
      PROVE  /\ asked' \in [Askers -> AskStates] /\ asked'[a].at = at
             /\ asked'[a].question = asked[a].question /\ \A b \in Askers \ {a} : asked'[b] = asked[b]
  <2> DEFINE r == [asked[a] EXCEPT !.at = at]
  <2>1. \A s \in AskStates : LET k == [s EXCEPT !.at = at] IN k \in AskStates /\ k.at = at /\ k.question = s.question
    BY Zenon DEF AskStates
  <2>2. asked[a] \in AskStates
    BY DEF OsintTypes
  <2>3. r \in AskStates /\ r.at = at /\ r.question = asked[a].question
    BY <2>1, <2>2
  <2>4. asked' = [asked EXCEPT ![a] = r]
    BY <1>1 DEF AskGoes
  <2> HIDE DEF r
  <2> QED  BY <2>3, <2>4 DEF OsintTypes
<1>2. ASSUME NEW text, NEW of, [text |-> text, of |-> of] \in OsintAnswers, Answered(a, text, of)
      PROVE  /\ asked' \in [Askers -> AskStates] /\ asked'[a].at = "record"
             /\ asked'[a].question = asked[a].question /\ \A b \in Askers \ {a} : asked'[b] = asked[b]
  <2> DEFINE x == [text |-> text, of |-> of]
             r == [asked[a] EXCEPT !.at = "record", !.answer = x]
  <2>1. \A s \in AskStates, y \in OsintAnswers :
          LET k == [s EXCEPT !.at = "record", !.answer = y]
          IN  k \in AskStates /\ k.at = "record" /\ k.question = s.question
    BY Zenon DEF AskStates, AskPlaces
  <2>2. asked[a] \in AskStates
    BY DEF OsintTypes
  <2>3. r \in AskStates /\ r.at = "record" /\ r.question = asked[a].question
    BY <1>2, <2>1, <2>2
  <2>4. asked' = [asked EXCEPT ![a] = r]
    BY <1>2 DEF Answered
  <2> HIDE DEF r
  <2> QED  BY <2>3, <2>4 DEF OsintTypes
<1> QED  BY <1>1, <1>2

\* The counted questions are finitely many.
LEMMA CountsAreNumbers ==
    /\ IsFiniteSet(OnTheirWay) /\ Cardinality(OnTheirWay) \in Nat
    /\ IsFiniteSet(Unseen) /\ Cardinality(Unseen) \in Nat
<1>1. OnTheirWay \subseteq Askers /\ Unseen \subseteq Askers
  BY DEF OnTheirWay, Unseen
<1>2. IsFiniteSet(OnTheirWay) /\ IsFiniteSet(Unseen)
  BY <1>1, FS_Subset, OsintAssumption
<1> QED  BY <1>2, FS_CardinalityType

\* A set that changes at one element only
LEMMA OneElement ==
    ASSUME NEW S, NEW T, IsFiniteSet(S), IsFiniteSet(T), NEW a, S \ {a} = T \ {a}
    PROVE  /\ Cardinality(S) \in Nat /\ Cardinality(T) \in Nat
           /\ a \in S /\ a \notin T => Cardinality(S) = Cardinality(T) + 1
           /\ a \notin S /\ a \in T => Cardinality(T) = Cardinality(S) + 1
           /\ (a \in S <=> a \in T) => Cardinality(T) = Cardinality(S)
<1>1. Cardinality(S) \in Nat /\ Cardinality(T) \in Nat
  BY FS_CardinalityType
<1>2. ASSUME a \in S, a \notin T
      PROVE  Cardinality(S) = Cardinality(T) + 1
  <2>1. S = T \union {a}
    BY <1>2
  <2> QED  BY <1>2, <2>1, FS_AddElement
<1>3. ASSUME a \notin S, a \in T
      PROVE  Cardinality(T) = Cardinality(S) + 1
  <2>1. T = S \union {a}
    BY <1>3
  <2> QED  BY <1>3, <2>1, FS_AddElement
<1>4. (a \in S <=> a \in T) => S = T
  OBVIOUS
<1> QED  BY <1>1, <1>2, <1>3, <1>4

\* The counts when one question moves
LEMMA CountsFollow ==
    ASSUME NEW a \in Askers, \A b \in Askers \ {a} : asked'[b] = asked[b]
    PROVE  /\ Cardinality(OnTheirWay) \in Nat /\ Cardinality(OnTheirWay)' \in Nat
           /\ Cardinality(Unseen) \in Nat /\ Cardinality(Unseen)' \in Nat
           /\ a \notin OnTheirWay' => Cardinality(OnTheirWay)' <= Cardinality(OnTheirWay)
           /\ a \in OnTheirWay /\ a \notin OnTheirWay' => Cardinality(OnTheirWay)' + 1 = Cardinality(OnTheirWay)
           /\ Cardinality(OnTheirWay)' <= Cardinality(OnTheirWay) + 1
           /\ a \notin Unseen' => Cardinality(Unseen)' <= Cardinality(Unseen)
           /\ a \in Unseen => Cardinality(Unseen)' <= Cardinality(Unseen)
           /\ a \in Unseen /\ a \notin Unseen' => Cardinality(Unseen)' + 1 = Cardinality(Unseen)
           /\ Cardinality(Unseen)' <= Cardinality(Unseen) + 1
<1>1. IsFiniteSet(OnTheirWay) /\ IsFiniteSet(OnTheirWay') /\ IsFiniteSet(Unseen) /\ IsFiniteSet(Unseen')
  <2>1. OnTheirWay \subseteq Askers /\ OnTheirWay' \subseteq Askers /\ Unseen \subseteq Askers /\ Unseen' \subseteq Askers
    BY DEF OnTheirWay, Unseen
  <2> QED  BY <2>1, FS_Subset, OsintAssumption
<1>2. OnTheirWay \ {a} = OnTheirWay' \ {a}
  BY DEF OnTheirWay
<1>3. Unseen \ {a} = Unseen' \ {a}
  BY DEF Unseen
<1> DEFINE m == Cardinality(OnTheirWay)
           n == Cardinality(OnTheirWay')
           u == Cardinality(Unseen)
           v == Cardinality(Unseen')
<1>4. /\ m \in Nat /\ n \in Nat
      /\ a \in OnTheirWay /\ a \notin OnTheirWay' => m = n + 1
      /\ a \notin OnTheirWay /\ a \in OnTheirWay' => n = m + 1
      /\ (a \in OnTheirWay <=> a \in OnTheirWay') => n = m
  BY <1>1, <1>2, OneElement, Zenon
<1>5. /\ u \in Nat /\ v \in Nat
      /\ a \in Unseen /\ a \notin Unseen' => u = v + 1
      /\ a \notin Unseen /\ a \in Unseen' => v = u + 1
      /\ (a \in Unseen <=> a \in Unseen') => v = u
  BY <1>1, <1>3, OneElement, Zenon
<1> HIDE DEF m, n, u, v
<1>6. /\ a \notin OnTheirWay' => n <= m
      /\ a \in OnTheirWay /\ a \notin OnTheirWay' => n + 1 = m
      /\ n <= m + 1
  BY <1>4
<1>7. /\ a \notin Unseen' => v <= u
      /\ a \in Unseen => v <= u
      /\ a \in Unseen /\ a \notin Unseen' => v + 1 = u
      /\ v <= u + 1
  BY <1>5
<1> QED  BY <1>4, <1>5, <1>6, <1>7 DEF m, n, u, v

\* A step in which no question is asked, approved or looked up
LEMMA QuietStep ==
    ASSUME OsintInv, NEW a \in Askers, \A b \in Askers \ {a} : asked'[b] = asked[b],
           asked'[a].at # "work",
           asked'[a].at = "persist" => asked'[a].question.intent = "lookup",
           a \in Unseen' => a \in Unseen,
           UNCHANGED <<asks, approved, lookedUp, accepted, termsFile>>
    PROVE  TermsFirst' /\ QuestionsCounted'
<1>1. TermsFirst'
  BY DEF OsintInv, TermsFirst
<1>2. a \notin OnTheirWay'
  BY DEF OnTheirWay
<1> DEFINE m == Cardinality(OnTheirWay)
           n == Cardinality(OnTheirWay)'
           u == Cardinality(Unseen)
           v == Cardinality(Unseen)'
<1>3. m \in Nat /\ n \in Nat /\ u \in Nat /\ v \in Nat /\ n <= m /\ v <= u
  BY <1>2, CountsFollow
<1>4. lookedUp + m <= approved /\ approved + u <= asks /\ lookedUp \in Nat /\ approved \in Nat /\ asks \in Nat
  BY DEF OsintInv, QuestionsCounted, OsintTypes
<1> HIDE DEF m, n, u, v
<1>5. lookedUp + n <= approved /\ approved + v <= asks
  BY <1>3, <1>4
<1>6. lookedUp' + n <= approved' /\ approved' + v <= asks'
  BY <1>5
<1> QED  BY <1>1, <1>6 DEF QuestionsCounted, n, v

-----------------------------------------------------------------------------
\* Nobody waits at the beginning.
LEMMA NobodyIsIdle ==
    /\ NoQuestion \in Questions /\ NoAnswer \in OsintAnswers
    /\ Nobody \in AskStates /\ Nobody.at = "idle"
<1>1. NoQuestion \in Questions
  BY KindsOfQuestions
<1>2. NoAnswer \in OsintAnswers
  BY DEF NoAnswer, OsintAnswers
<1> QED  BY <1>1, <1>2 DEF Nobody, NoQuestion, AskStates, AskPlaces

\* The flow starts with nothing counted.
LEMMA OsintStarts == OsintInit => OsintInv
<1> SUFFICES ASSUME OsintInit PROVE OsintInv
  OBVIOUS
<1>1. NoQuestion \in Questions /\ NoAnswer \in OsintAnswers /\ Nobody \in AskStates
  BY NobodyIsIdle
<1>2. OsintTypes
  <2>1. responses \in [Questions -> OsintAnswers] /\ asked \in [Askers -> AskStates]
    BY <1>1 DEF OsintInit
  <2>2. reply \in [question : Questions, answer : OsintAnswers, throughout : SUBSET Kinds]
    BY <1>1 DEF OsintInit
  <2>3. asks \in 0 .. AsksMax /\ approved \in Nat /\ lookedUp \in Nat
    BY OsintAssumption DEF OsintInit
  <2> QED  BY <1>1, <2>1, <2>2, <2>3 DEF OsintInit, OsintTypes
<1>3. OnTheirWay = {} /\ Unseen = {}
  BY DEF OsintInit, Nobody, OnTheirWay, Unseen
<1>4. TermsFirst
  BY DEF OsintInit, Nobody, TermsFirst
<1>5. QuestionsCounted
  BY <1>3, FS_EmptySet DEF OsintInit, QuestionsCounted
<1> QED  BY <1>2, <1>4, <1>5 DEF OsintInv

\* A reply is one of an answer to the question, and makes its asker idle.
LEMMA RepliesAre ==
    ASSUME OsintTypes, NEW a \in Askers, NEW x \in OsintAnswers, Replies(a, x)
    PROVE  /\ asked' \in [Askers -> AskStates] /\ asked'[a].at = "idle"
           /\ \A b \in Askers \ {a} : asked'[b] = asked[b]
           /\ reply' \in [question : Questions, answer : OsintAnswers, throughout : SUBSET Kinds]
<1>1. Nobody \in AskStates /\ Nobody.at = "idle"
  BY NobodyIsIdle
<1>2. asked' = [asked EXCEPT ![a] = Nobody]
  BY DEF Replies
<1>3. /\ asked' \in [Askers -> AskStates] /\ asked'[a] = Nobody
      /\ \A b \in Askers \ {a} : asked'[b] = asked[b]
  BY <1>1, <1>2 DEF OsintTypes
<1>4. asked[a] \in AskStates /\ throughout[a] \in SUBSET Kinds
  BY DEF OsintTypes
<1>5. asked[a].question \in Questions
  BY <1>4 DEF AskStates
<1>6. reply' \in [question : Questions, answer : OsintAnswers, throughout : SUBSET Kinds]
  BY <1>4, <1>5 DEF Replies
<1> QED  BY <1>1, <1>3, <1>6

\* The memory store keeps to the kinds.
LEMMA MemoryIsOfKinds ==
    ASSUME OsintTypes, NEW m \in SUBSET Kinds, MemoryBecomes(m)
    PROVE  /\ remembered' \subseteq Kinds /\ breached' \in (SUBSET Alarms) \union {Unchecked}
           /\ throughout' \in [Askers -> SUBSET Kinds]
  BY DEF OsintTypes, MemoryBecomes

\* One question takes a step.
LEMMA OsintStepKeeps ==
    ASSUME OsintInv, NEW a \in Askers, OsintStep(a)
    PROVE  OsintInv'
<1> DEFINE OthersStay == \A b \in Askers \ {a} : asked'[b] = asked[b]
           Quiet == /\ OthersStay /\ asked'[a].at # "work"
                    /\ asked'[a].at = "persist" => asked'[a].question.intent = "lookup"
                    /\ a \in Unseen' => a \in Unseen
                    /\ UNCHANGED <<asks, approved, lookedUp, accepted, termsFile>>
<1> USE DEF OsintInv
<1>q. ASSUME OsintTypes', Quiet
      PROVE  OsintInv'
  BY <1>q, QuietStep
<1>a. /\ asked[a] \in AskStates /\ asked[a].question \in Questions /\ asked[a].answer \in OsintAnswers
      /\ asked[a].found \in SUBSET Alarms
  <2>1. asked[a] \in AskStates
    BY DEF OsintTypes
  <2> QED  BY <2>1 DEF AskStates
<1>t. \A text \in {"none", "refused", "blocked", "report", "deleted", "not found", "unknown type",
                   "memory", "words", "sorry"}, of \in SUBSET Kinds : [text |-> text, of |-> of] \in OsintAnswers
  BY DEF OsintAnswers
<1>1. CASE FromCache(a)
  <2>1. responses[asked[a].question] \in OsintAnswers
    BY <1>a DEF OsintTypes
  <2>2. /\ asked' \in [Askers -> AskStates] /\ asked'[a].at = "idle" /\ OthersStay
        /\ reply' \in [question : Questions, answer : OsintAnswers, throughout : SUBSET Kinds]
    BY <1>1, <2>1, RepliesAre DEF FromCache
  <2>3. OsintTypes'
    BY <1>1, <2>2 DEF OsintTypes, FromCache, KeepsMemory, sessionSearch, osintHistory
  <2>4. Quiet
    BY <1>1, <2>2 DEF FromCache, osintHistory, Unseen
  <2> QED  BY <2>3, <2>4, <1>q
<1>2. CASE NotCached(a)
  <2>1. asked' \in [Askers -> AskStates] /\ asked'[a].at = "route" /\ OthersStay
    BY <1>2, AsksMove DEF NotCached, AskPlaces
  <2>2. OsintTypes'
    BY <1>2, <2>1 DEF OsintTypes, NotCached, KeepsMemory, sessionSearch, osintHistory
  <2>3. Quiet
    BY <1>2, <2>1 DEF NotCached, osintHistory, Unseen
  <2> QED  BY <2>2, <2>3, <1>q
<1>3. CASE Route(a)
  <2>1. asked' \in [Askers -> AskStates] /\ asked'[a].at \in {"record", "compliance", "tools", "model"} /\ OthersStay
    <3>1. \/ Answered(a, "refused", {}) \/ AskGoes(a, "compliance") \/ Answered(a, "memory", remembered)
          \/ AskGoes(a, "tools") \/ AskGoes(a, "model")
      BY <1>3 DEF Route
    <3>2. [text |-> "refused", of |-> {}] \in OsintAnswers /\ [text |-> "memory", of |-> remembered] \in OsintAnswers
      BY <1>t DEF OsintTypes
    <3>3. {"compliance", "tools", "model"} \subseteq AskPlaces
      BY DEF AskPlaces
    <3> QED  BY <3>1, <3>2, <3>3, AsksMove
  <2>2. OsintTypes'
    BY <1>3, <2>1 DEF OsintTypes, Route, KeepsMemory, sessionSearch, osintHistory
  <2>3. Quiet
    BY <1>3, <2>1 DEF Route, osintHistory, Unseen
  <2> QED  BY <2>2, <2>3, <1>q
<1>4. CASE UseTools(a)
  <2>1. asked' \in [Askers -> AskStates] /\ asked'[a].at = "model" /\ OthersStay
    BY <1>4, AsksMove DEF UseTools, AskPlaces
  <2>2. OsintTypes'
    BY <1>4, <1>a, <2>1 DEF OsintTypes, UseTools, KeepsMemory, sessionSearch, osintHistory
  <2>3. Quiet
    BY <1>4, <2>1 DEF UseTools, osintHistory, Unseen
  <2> QED  BY <2>2, <2>3, <1>q
<1>5. CASE ModelAnswers(a)
  <2>1. asked' \in [Askers -> AskStates] /\ asked'[a].at = "record" /\ OthersStay
    <3>1. PICK of \in {{}, lastAnswer.of} : Answered(a, "words", of)
      BY <1>5 DEF ModelAnswers
    <3>2. lastAnswer.of \in SUBSET Kinds
      BY DEF OsintTypes, OsintAnswers
    <3>3. [text |-> "words", of |-> of] \in OsintAnswers
      BY <1>t, <3>2
    <3> QED  BY <3>1, <3>3, AsksMove
  <2>2. OsintTypes'
    BY <1>5, <2>1 DEF OsintTypes, ModelAnswers, KeepsMemory, sessionSearch, osintHistory
  <2>3. Quiet
    BY <1>5, <2>1 DEF ModelAnswers, osintHistory, Unseen
  <2> QED  BY <2>2, <2>3, <1>q
<1>6. CASE Blocks(a)
  <2>1. asked' \in [Askers -> AskStates] /\ asked'[a].at = "record" /\ OthersStay
    BY <1>6, <1>t, AsksMove DEF Blocks
  <2>2. OsintTypes'
    BY <1>6, <2>1 DEF OsintTypes, Blocks, KeepsMemory, sessionSearch, osintHistory
  <2>3. Quiet
    BY <1>6, <2>1 DEF Blocks, osintHistory, Unseen
  <2> QED  BY <2>2, <2>3, <1>q
<1>7. CASE Persists(a)
  <2>1. asked[a].question.kind \in Kinds
    BY <1>7, <1>a, KindsOfQuestions DEF Persists, TermsFirst
  <2>2. asked' \in [Askers -> AskStates] /\ asked'[a].at = "record" /\ OthersStay
    BY <1>7, <1>t, <2>1, AsksMove DEF Persists
  <2>3. remembered' \subseteq Kinds /\ breached' \in (SUBSET Alarms) \union {Unchecked}
    BY <1>7, <1>a, <2>1 DEF OsintTypes, Persists
  <2>4. lastQuery' \in Questions /\ lastResults' \in Questions
    BY <1>7, <1>a DEF OsintTypes, Persists
  <2>5. OsintTypes'
    BY <1>7, <2>2, <2>3, <2>4 DEF OsintTypes, Persists, osintHistory
  <2>6. Quiet
    BY <1>7, <2>2 DEF Persists, osintHistory, Unseen
  <2> QED  BY <2>5, <2>6, <1>q
<1>8. CASE Forgets(a)
  <2>1. asked' \in [Askers -> AskStates] /\ asked'[a].at = "record" /\ OthersStay
    <3>1. \E text \in {"unknown type", "deleted", "not found"} : Answered(a, text, {})
      BY <1>8 DEF Forgets
    <3> QED  BY <3>1, <1>t, AsksMove
  <2>2. PICK m \in SUBSET Kinds : MemoryBecomes(m)
    BY <1>8 DEF Forgets, OsintTypes
  <2>3. OsintTypes'
    BY <1>8, <2>1, <2>2, MemoryIsOfKinds DEF OsintTypes, Forgets, sessionSearch, osintHistory
  <2>4. Quiet
    BY <1>8, <2>1 DEF Forgets, osintHistory, Unseen
  <2> QED  BY <2>3, <2>4, <1>q
<1>9. CASE Raises(a)
  <2>1. [text |-> "sorry", of |-> {}] \in OsintAnswers
    BY <1>t
  <2>2. /\ asked' \in [Askers -> AskStates] /\ asked'[a].at = "idle" /\ OthersStay
        /\ reply' \in [question : Questions, answer : OsintAnswers, throughout : SUBSET Kinds]
    BY <1>9, <2>1, RepliesAre DEF Raises
  <2>3. OsintTypes'
    BY <1>9, <2>2 DEF OsintTypes, Raises, KeepsMemory, sessionSearch, osintHistory
  <2>4. Quiet
    BY <1>9, <2>2 DEF Raises, osintHistory, Unseen
  <2> QED  BY <2>3, <2>4, <1>q
<1>10. CASE Records(a)
  <2>1. /\ asked' \in [Askers -> AskStates] /\ asked'[a].at = "idle" /\ OthersStay
        /\ reply' \in [question : Questions, answer : OsintAnswers, throughout : SUBSET Kinds]
    BY <1>10, <1>a, RepliesAre DEF Records
  <2>2. responses' \in [Questions -> OsintAnswers] /\ lastAnswer' \in OsintAnswers
    BY <1>10, <1>a DEF Records, OsintTypes
  <2>3. OsintTypes'
    BY <1>10, <2>1, <2>2 DEF OsintTypes, Records, KeepsMemory, sessionSearch, osintHistory
  <2>4. Quiet
    BY <1>10, <2>1 DEF Records, osintHistory, Unseen
  <2> QED  BY <2>3, <2>4, <1>q
<1> DEFINE m == Cardinality(OnTheirWay)
           n == Cardinality(OnTheirWay)'
           u == Cardinality(Unseen)
           v == Cardinality(Unseen)'
<1>c. lookedUp + m <= approved /\ approved + u <= asks /\ lookedUp \in Nat /\ approved \in Nat /\ asks \in Nat
  BY DEF QuestionsCounted, OsintTypes
<1>11. CASE Asks(a)
  <2>1. PICK q \in Questions, tools \in BOOLEAN, direct \in BOOLEAN :
          /\ asked' = [asked EXCEPT ![a] = [Nobody EXCEPT
                 !.at = IF direct THEN "route" ELSE "cache",
                 !.question = q, !.tools = tools /\ ~direct, !.cacheable = ~direct]]
          /\ LET k == remembered \union
                    (CASE q.intent = "remember" -> InText \cap Kinds
                       [] q.intent = "remember these" -> lastAnswer.of \cap InText
                       [] OTHER -> {})
             IN /\ remembered' = k /\ throughout' = [throughout EXCEPT ![a] = k]
    BY <1>11, Zenon DEF Asks
  <2>2. lastAnswer.of \in SUBSET Kinds
    BY DEF OsintTypes, OsintAnswers
  <2>3. remembered' \subseteq Kinds /\ throughout' \in [Askers -> SUBSET Kinds]
    BY <2>1, <2>2 DEF OsintTypes
  <2> DEFINE at == IF direct THEN "route" ELSE "cache"
             r == [Nobody EXCEPT !.at = at, !.question = q, !.tools = tools /\ ~direct, !.cacheable = ~direct]
  <2>4. \A s \in AskStates, x \in AskPlaces, y \in BOOLEAN, z \in BOOLEAN :
          LET k == [s EXCEPT !.at = x, !.question = q, !.tools = y, !.cacheable = z]
          IN  k \in AskStates /\ k.at = x
    BY Zenon DEF AskStates
  <2>5. at \in {"route", "cache"} /\ at \in AskPlaces /\ (tools /\ ~direct) \in BOOLEAN /\ (~direct) \in BOOLEAN
    BY DEF AskPlaces
  <2>6. r \in AskStates /\ r.at \in {"route", "cache"}
    <3> DEFINE y == tools /\ ~direct
               z == ~direct
    <3>1. Nobody \in AskStates /\ at \in AskPlaces /\ y \in BOOLEAN /\ z \in BOOLEAN
      BY <2>5, NobodyIsIdle
    <3>2. LET k == [Nobody EXCEPT !.at = at, !.question = q, !.tools = y, !.cacheable = z]
          IN  k \in AskStates /\ k.at = at
      <4> HIDE DEF y, z, at
      <4> QED  BY <2>4, <3>1, Zenon
    <3> QED  BY <2>5, <3>2, Zenon
  <2>16. asked' = [asked EXCEPT ![a] = r]
    BY <2>1
  <2> HIDE DEF r
  <2>7. asked' \in [Askers -> AskStates] /\ asked'[a].at \in {"route", "cache"} /\ OthersStay
    BY <2>16, <2>6 DEF OsintTypes
  <2>8. asks + 1 \in 0 .. AsksMax /\ asks' = asks + 1
    <3>1. asks < AsksMax /\ asks' = asks + 1
      BY <1>11 DEF Asks
    <3> QED  BY <3>1, OsintAssumption DEF OsintTypes
  <2>9. OsintTypes'
    BY <1>11, <2>3, <2>7, <2>8 DEF OsintTypes, Asks, sessionSearch
  <2>10. TermsFirst'
    BY <1>11, <2>7 DEF TermsFirst, Asks
  <2>11. a \notin OnTheirWay'
    BY <2>7 DEF OnTheirWay
  <2>12. m \in Nat /\ n \in Nat /\ u \in Nat /\ v \in Nat /\ n <= m /\ v <= u + 1
    BY <2>7, <2>11, CountsFollow
  <2>13. approved' = approved /\ lookedUp' = lookedUp
    BY <1>11 DEF Asks
  <2> HIDE DEF m, n, u, v
  <2>14. lookedUp' + n <= approved' /\ approved' + v <= asks'
    BY <1>c, <2>8, <2>12, <2>13
  <2>15. QuestionsCounted'
    BY <2>14 DEF QuestionsCounted, n, v
  <2> QED  BY <2>9, <2>10, <2>15
<1>12. CASE CheckPasses(a)
  <2> DEFINE r == [asked[a] EXCEPT !.at = "work", !.recent = 1]
  <2>1. \A s \in AskStates : LET k == [s EXCEPT !.at = "work", !.recent = 1]
                             IN  k \in AskStates /\ k.at = "work"
    <3>1. 1 \in 0 .. 1
      OBVIOUS
    <3> QED  BY <3>1, Zenon DEF AskStates, AskPlaces
  <2>2. r \in AskStates /\ r.at = "work"
    BY <1>a, <2>1
  <2>3. asked' = [asked EXCEPT ![a] = r]
    BY <1>12 DEF CheckPasses, Approves
  <2> HIDE DEF r
  <2>4. asked' \in [Askers -> AskStates] /\ asked'[a].at = "work" /\ OthersStay
    BY <2>2, <2>3 DEF OsintTypes
  <2>5. approved' = approved + 1 /\ approved' \in Nat
    BY <1>12 DEF CheckPasses, Approves, OsintTypes
  <2>6. OsintTypes'
    BY <1>12, <2>4, <2>5 DEF OsintTypes, CheckPasses, KeepsMemory, sessionSearch, osintHistory
  <2>7. TermsFirst'
    BY <1>12, <2>4 DEF TermsFirst, CheckPasses, Approves, osintHistory
  <2>8. a \in Unseen /\ a \notin Unseen'
    BY <1>12, <2>4 DEF CheckPasses, Approves, Unseen
  <2>9. m \in Nat /\ n \in Nat /\ u \in Nat /\ v \in Nat /\ n <= m + 1 /\ v + 1 = u
    BY <2>4, <2>8, CountsFollow
  <2>10. lookedUp' = lookedUp /\ asks' = asks
    BY <1>12 DEF CheckPasses, osintHistory
  <2> HIDE DEF m, n, u, v
  <2>11. lookedUp' + n <= approved' /\ approved' + v <= asks'
    BY <1>c, <2>5, <2>9, <2>10
  <2>12. QuestionsCounted'
    BY <2>11 DEF QuestionsCounted, n, v
  <2> QED  BY <2>6, <2>7, <2>12
<1>13. ASSUME OsintTypes', OthersStay, a \in OnTheirWay, asked'[a].at \in {"persist", "record"},
              asked'[a].at = "persist" => asked'[a].question.intent = "lookup",
              lookedUp' = lookedUp + 1, UNCHANGED <<asks, approved, accepted, termsFile>>
       PROVE  OsintInv'
  <2>1. TermsFirst'
    BY <1>13 DEF TermsFirst, OnTheirWay
  <2>2. a \notin OnTheirWay' /\ a \notin Unseen'
    BY <1>13 DEF OnTheirWay, Unseen
  <2>3. m \in Nat /\ n \in Nat /\ u \in Nat /\ v \in Nat /\ n + 1 = m /\ v <= u
    BY <1>13, <2>2, CountsFollow
  <2> HIDE DEF m, n, u, v
  <2>4. lookedUp' + n <= approved' /\ approved' + v <= asks'
    BY <1>13, <1>c, <2>3
  <2>5. QuestionsCounted'
    BY <2>4 DEF QuestionsCounted, n, v
  <2> QED  BY <1>13, <2>1, <2>5
<1>14. CASE LooksUp(a)
  <2>1. asked[a].question.kind \in Kinds
    BY <1>14, <1>a, KindsOfQuestions DEF LooksUp
  <2>2. /\ asked' \in [Askers -> AskStates] /\ asked'[a].at \in {"persist", "record"}
        /\ asked'[a].question = asked[a].question /\ OthersStay
    <3>1. CASE Answered(a, "report", {asked[a].question.kind})
      BY <3>1, <1>t, <2>1, AsksMove
    <3>2. ASSUME NEW found \in SUBSET Alarms, asked' = [asked EXCEPT ![a].at = "persist", ![a].found = found]
          PROVE  /\ asked' \in [Askers -> AskStates] /\ asked'[a].at \in {"persist", "record"}
                 /\ asked'[a].question = asked[a].question /\ OthersStay
      <4> DEFINE r == [asked[a] EXCEPT !.at = "persist", !.found = found]
      <4>1. \A s \in AskStates : LET k == [s EXCEPT !.at = "persist", !.found = found]
                                 IN  k \in AskStates /\ k.at = "persist" /\ k.question = s.question
        BY DEF AskStates, AskPlaces
      <4>2. r \in AskStates /\ r.at = "persist" /\ r.question = asked[a].question
        BY <1>a, <4>1
      <4>3. asked' = [asked EXCEPT ![a] = r]
        BY <3>2
      <4> HIDE DEF r
      <4> QED  BY <4>2, <4>3 DEF OsintTypes
    <3>3. BreachesFound \subseteq SUBSET Alarms /\ {{}} \subseteq SUBSET Alarms
      BY DEF BreachesFound
    <3>4. \/ \E found \in SUBSET Alarms : asked' = [asked EXCEPT ![a].at = "persist", ![a].found = found]
          \/ Answered(a, "report", {asked[a].question.kind})
      BY <1>14, <3>3 DEF LooksUp
    <3> QED  BY <3>1, <3>2, <3>4
  <2>3. lookedUp' = lookedUp + 1 /\ lookedUp' \in Nat
    BY <1>14 DEF LooksUp, OsintTypes
  <2>4. OsintTypes'
    BY <1>14, <2>2, <2>3 DEF OsintTypes, LooksUp, KeepsMemory, sessionSearch, osintHistory
  <2>5. a \in OnTheirWay /\ asked'[a].question.intent = "lookup"
    BY <1>14, <2>2 DEF LooksUp, OnTheirWay
  <2>6. UNCHANGED <<asks, approved, accepted, termsFile>>
    BY <1>14 DEF LooksUp, osintHistory
  <2> QED  BY <1>13, <2>2, <2>3, <2>4, <2>5, <2>6
<1>15. CASE RunsLookup(a)
  <2>1. asked' \in [Askers -> AskStates] /\ asked'[a].at = "record" /\ OthersStay
    BY <1>15, <1>t, AsksMove DEF RunsLookup
  <2>2. remembered' \subseteq Kinds
    BY <1>15 DEF RunsLookup, OsintTypes
  <2>3. lookedUp' = lookedUp + 1 /\ lookedUp' \in Nat
    BY <1>15 DEF RunsLookup, OsintTypes
  <2>4. lastQuery' \in Questions /\ lastResults' \in Questions
    BY <1>15, <1>a DEF OsintTypes, RunsLookup, sessionSearch
  <2>5. OsintTypes'
    BY <1>15, <2>1, <2>2, <2>3, <2>4 DEF OsintTypes, RunsLookup, osintHistory
  <2>6. a \in OnTheirWay
    BY <1>15 DEF RunsLookup, OnTheirWay
  <2>7. UNCHANGED <<asks, approved, accepted, termsFile>>
    BY <1>15 DEF RunsLookup, osintHistory
  <2> QED  BY <1>13, <2>1, <2>3, <2>5, <2>6, <2>7
<1> QED
  BY <1>1, <1>2, <1>3, <1>4, <1>5, <1>6, <1>7, <1>8, <1>9, <1>10, <1>11, <1>12, <1>14, <1>15 DEF OsintStep

\* Every step of a question, of the memory commands and of the terms keeps it.
LEMMA OsintKept == OsintInv /\ [OsintNext]_osintVars => OsintInv'
<1> SUFFICES ASSUME OsintInv, [OsintNext]_osintVars PROVE OsintInv'
  OBVIOUS
<1>1. CASE ClearMemory
  <2>1. UNCHANGED <<asked, termsFile, asks, approved, lookedUp, accepted>>
    BY <1>1 DEF ClearMemory, osintHistory
  <2>2. OsintTypes'
    BY <1>1, MemoryIsOfKinds DEF OsintInv, OsintTypes, ClearMemory, sessionSearch, osintHistory
  <2> QED  BY <2>1, <2>2 DEF OsintInv, TermsFirst, QuestionsCounted, OnTheirWay, Unseen
<1>2. CASE SavesTerms
  <2>1. UNCHANGED <<asked, asks, approved, lookedUp>>
    BY <1>2 DEF SavesTerms
  <2>2. OsintTypes'
    BY <1>2 DEF OsintInv, OsintTypes, SavesTerms, sessionSearch, KeepsMemory
  <2>3. TermsFirst'
    BY <1>2, <2>1 DEF OsintInv, TermsFirst, OsintTypes, SavesTerms
  <2> QED  BY <2>1, <2>2, <2>3 DEF OsintInv, QuestionsCounted, OnTheirWay, Unseen
<1>3. CASE \E a \in Askers : OsintStep(a)
  BY <1>3, OsintStepKeeps
<1>4. CASE UNCHANGED osintVars
  BY <1>4 DEF osintVars, OsintInv, OsintTypes, TermsFirst, QuestionsCounted, OnTheirWay, Unseen
<1> QED  BY <1>1, <1>2, <1>3, <1>4 DEF OsintNext

\* No lookup without its line in the audit log, and none before the terms.
THEOREM LookupsStayAudited == OsintSpec => []LookupsAudited
<1>1. OsintInv => LookupsAudited
  BY DEF OsintInv, TermsFirst, QuestionsCounted, LookupsAudited, OnTheirWay
<1> QED  BY <1>1, OsintStarts, OsintKept, PTL DEF OsintSpec

\* The counts say that there are never more approvals or lookups than questions.
LEMMA OsintMeans == OsintInv => OsintTypeOK
<1> SUFFICES ASSUME OsintInv PROVE OsintTypeOK
  OBVIOUS
<1> DEFINE m == Cardinality(OnTheirWay)
           u == Cardinality(Unseen)
<1>1. m \in Nat /\ u \in Nat
  BY CountsAreNumbers
<1>2. lookedUp + m <= approved /\ approved + u <= asks
  BY DEF OsintInv, QuestionsCounted
<1>3. asks \in 0 .. AsksMax /\ lookedUp \in Nat /\ approved \in Nat
  BY DEF OsintInv, OsintTypes
<1> HIDE DEF m, u
<1>4. approved \in 0 .. AsksMax /\ lookedUp \in 0 .. AsksMax
  BY <1>1, <1>2, <1>3, OsintAssumption
<1> QED  BY <1>3, <1>4 DEF OsintInv, OsintTypes, OsintTypeOK, AskStates, AskPlaces

\* The types of the flow: there are never more approvals or lookups than questions.
THEOREM OsintTypesHold == OsintSpec => []OsintTypeOK
  BY OsintMeans, OsintStarts, OsintKept, PTL DEF OsintSpec
-----------------------------------------------------------------------------
\* A reply to come that says "deleted" is true of what was remembered meanwhile.
Truthful(s, since) == s.at = "record" /\ s.answer.text = "deleted" => s.question.kind \notin since

DeletionsHold == \A a \in Askers : Truthful(asked[a], throughout[a])

\* A step of one asker: what he will reply is true, and nobody else's reply becomes false.
LEMMA OneStaysTruthful ==
    ASSUME DeletionsHold, NEW a \in Askers,
           \A b \in Askers \ {a} : asked'[b] = asked[b] /\ throughout'[b] \subseteq throughout[b],
           Truthful(asked'[a], throughout'[a])
    PROVE  DeletionsHold'
  BY DEF DeletionsHold, Truthful

\* He will reply something else, or nothing yet.
LEMMA OtherRepliesTruthful ==
    ASSUME OsintInv, NEW a \in Askers, NEW since
    PROVE  /\ \A at \in AskPlaces \ {"record"} : AskGoes(a, at) => Truthful(asked'[a], since)
           /\ \A text, of : text # "deleted" /\ Answered(a, text, of) => Truthful(asked'[a], since)
<1>1. asked \in [Askers -> AskStates] /\ asked[a] \in AskStates
  BY DEF OsintInv, OsintTypes
<1>2. ASSUME NEW at \in AskPlaces \ {"record"}, AskGoes(a, at) PROVE asked'[a].at = at
  BY <1>1, <1>2 DEF AskGoes, AskStates
<1>3. ASSUME NEW text, NEW of, Answered(a, text, of) PROVE asked'[a].answer.text = text
  BY <1>1, <1>3 DEF Answered, AskStates
<1> QED  BY <1>2, <1>3 DEF Truthful

\* Only a forget command says "deleted", and it has deleted the entry then.
LEMMA StepsStayTruthful ==
    ASSUME OsintInv, DeletionsHold, NEW a \in Askers, OsintStep(a)
    PROVE  DeletionsHold'
<1>0. /\ asked \in [Askers -> AskStates] /\ asked[a] \in AskStates
      /\ throughout \in [Askers -> SUBSET Kinds]
      /\ AskPlaces \ {"record"} = {"idle", "cache", "route", "tools", "model", "compliance", "work", "persist"}
      /\ Nobody.at = "idle"
  BY DEF OsintInv, OsintTypes, AskPlaces, Nobody
<1> DEFINE OthersStay == \A b \in Askers \ {a} : asked'[b] = asked[b]
           Fewer == \A b \in Askers \ {a} : throughout'[b] \subseteq throughout[b]
           Told == Truthful(asked'[a], throughout'[a])
<1>1. CASE Asks(a)
  <2>1. PICK q \in Questions, tools \in BOOLEAN, direct \in BOOLEAN :
          asked' = [asked EXCEPT ![a] = [Nobody EXCEPT
                     !.at = IF direct THEN "route" ELSE "cache",
                     !.question = q, !.tools = tools /\ ~direct, !.cacheable = ~direct]]
    BY <1>1 DEF Asks
  <2>2. OthersStay /\ asked'[a].at # "record"
    BY <1>0, <2>1 DEF Nobody
  <2>3. Fewer
    BY <1>0, <1>1 DEF Asks
  <2> QED  BY <2>2, <2>3, OneStaysTruthful DEF Truthful
<1>2. CASE FromCache(a) \/ Raises(a) \/ Records(a)
  <2>1. OthersStay /\ asked'[a].at = "idle"
    BY <1>0, <1>2 DEF FromCache, Raises, Records, Replies
  <2>2. Fewer
    BY <1>2 DEF FromCache, Raises, Records, KeepsMemory
  <2> QED  BY <2>1, <2>2, OneStaysTruthful DEF Truthful
<1>3. CASE NotCached(a) \/ UseTools(a)
  <2>1. OthersStay /\ Fewer
    BY <1>0, <1>3 DEF NotCached, UseTools, AskGoes, KeepsMemory
  <2>2. Told
    BY <1>0, <1>3, OtherRepliesTruthful DEF NotCached, UseTools
  <2> QED  BY <2>1, <2>2, OneStaysTruthful
<1>4. CASE Route(a)
  <2>1. \/ Answered(a, "refused", {}) \/ Answered(a, "memory", remembered)
        \/ AskGoes(a, "compliance") \/ AskGoes(a, "tools") \/ AskGoes(a, "model")
    BY <1>4 DEF Route
  <2>2. OthersStay /\ Fewer
    BY <1>0, <1>4, <2>1 DEF Route, AskGoes, Answered, KeepsMemory
  <2>3. Told
    BY <1>0, <2>1, OtherRepliesTruthful
  <2> QED  BY <2>2, <2>3, OneStaysTruthful
<1>5. CASE ModelAnswers(a) \/ Blocks(a)
  <2>1. \E of : Answered(a, "words", of) \/ Answered(a, "blocked", of)
    BY <1>5 DEF ModelAnswers, Blocks
  <2>2. OthersStay /\ Fewer
    BY <1>0, <1>5, <2>1 DEF ModelAnswers, Blocks, Answered, KeepsMemory
  <2>3. Told
    BY <2>1, OtherRepliesTruthful
  <2> QED  BY <2>2, <2>3, OneStaysTruthful
<1>6. CASE CheckPasses(a)
  <2>1. OthersStay /\ Fewer /\ asked'[a].at = "work"
    BY <1>0, <1>6 DEF CheckPasses, Approves, KeepsMemory, AskStates
  <2> QED  BY <2>1, OneStaysTruthful DEF Truthful
<1>7. CASE LooksUp(a)
  <2>1. Fewer
    BY <1>7 DEF LooksUp, KeepsMemory
  <2>2. CASE Answered(a, "report", {asked[a].question.kind})
    <3>1. OthersStay
      BY <1>0, <2>2 DEF Answered
    <3>2. Told
      BY <2>2, OtherRepliesTruthful
    <3> QED  BY <2>1, <3>1, <3>2, OneStaysTruthful
  <2>3. CASE \E found : asked' = [asked EXCEPT ![a].at = "persist", ![a].found = found]
    <3>1. OthersStay /\ asked'[a].at = "persist"
      BY <1>0, <2>3 DEF AskStates
    <3> QED  BY <2>1, <3>1, OneStaysTruthful DEF Truthful
  <2> QED  BY <1>7, <2>2, <2>3 DEF LooksUp
<1>8. CASE Persists(a) \/ RunsLookup(a)
  <2>1. \E of : Answered(a, "report", of)
    BY <1>8 DEF Persists, RunsLookup
  <2>2. OthersStay /\ Fewer
    BY <1>0, <1>8, <2>1 DEF Persists, RunsLookup, Answered
  <2>3. Told
    BY <2>1, OtherRepliesTruthful
  <2> QED  BY <2>2, <2>3, OneStaysTruthful
<1>9. CASE Forgets(a)
  <2> DEFINE kind == asked[a].question.kind
             m == IF kind \in Forgettable THEN remembered \ {kind} ELSE remembered
             text == CASE kind \notin Forgettable -> "unknown type"
                       [] kind \in remembered \cap Forgettable -> "deleted"
                       [] OTHER -> "not found"
  <2>1. Answered(a, text, {}) /\ throughout' = [b \in Askers |-> throughout[b] \cap m]
    BY <1>9 DEF Forgets, MemoryBecomes
  <2>2. OthersStay /\ asked'[a].answer.text = text /\ asked'[a].question = asked[a].question
    BY <1>0, <2>1 DEF Answered, AskStates
  <2>3. Fewer /\ throughout'[a] \subseteq m
    BY <1>0, <2>1
  <2>4. text = "deleted" => kind \notin m
    OBVIOUS
  <2>5. Told
    BY <2>2, <2>3, <2>4 DEF Truthful
  <2> QED  BY <2>2, <2>3, <2>5, OneStaysTruthful
<1> QED
  BY <1>1, <1>2, <1>3, <1>4, <1>5, <1>6, <1>7, <1>8, <1>9 DEF OsintStep

\* What is called deleted stays true until the reply, whatever is remembered meanwhile.
LEMMA DeletionsKept == OsintInv /\ DeletionsHold /\ [OsintNext]_osintVars => DeletionsHold'
<1> SUFFICES ASSUME OsintInv, DeletionsHold, [OsintNext]_osintVars PROVE DeletionsHold'
  OBVIOUS
<1>1. CASE UNCHANGED osintVars
  BY <1>1 DEF osintVars, DeletionsHold, Truthful
<1>2. CASE ClearMemory \/ SavesTerms
  <2>1. asked' = asked
    BY <1>2 DEF ClearMemory, SavesTerms
  <2>2. \A b \in Askers : throughout'[b] \subseteq throughout[b]
    BY <1>2 DEF ClearMemory, SavesTerms, MemoryBecomes, KeepsMemory
  <2> QED  BY <2>1, <2>2 DEF DeletionsHold, Truthful
<1> QED  BY <1>1, <1>2, StepsStayTruthful DEF OsintNext

\* A reply that calls an entry deleted is true, unless it comes from the response cache.
TrueOrCached ==
    reply' # reply /\ reply'.answer.text = "deleted" =>
        reply'.question.kind \notin reply'.throughout \/ \E a \in Askers : FromCache(a)

\* A forget command that is carried out tells the truth: only an answer the response cache
\* gives to a question asked before calls an entry deleted that was never absent.
THEOREM DeletedUnlessCached == OsintSpec => [][TrueOrCached]_osintVars
<1>1. OsintInit => DeletionsHold
  BY DEF OsintInit, Nobody, DeletionsHold, Truthful
<1>2. OsintInv /\ DeletionsHold /\ [OsintNext]_osintVars => [TrueOrCached]_osintVars
  <2> SUFFICES ASSUME OsintInv, DeletionsHold, OsintNext,
                      reply' # reply, reply'.answer.text = "deleted",
                      ~\E a \in Askers : FromCache(a)
               PROVE  reply'.question.kind \notin reply'.throughout
    BY DEF TrueOrCached, osintVars
  <2>1. PICK a \in Askers : Raises(a) \/ Records(a)
    BY DEF OsintNext, OsintStep, ClearMemory, SavesTerms, Asks, NotCached, Route, UseTools, ModelAnswers,
           CheckPasses, Blocks, LooksUp, Persists, RunsLookup, Forgets
  <2>2. Records(a)
    BY <2>1 DEF Raises, Replies
  <2>3. /\ asked[a].at = "record" /\ reply'.answer = asked[a].answer
        /\ reply'.question = asked[a].question /\ reply'.throughout = throughout[a]
    BY <2>2 DEF Records, Replies
  <2> QED  BY <2>3 DEF DeletionsHold, Truthful
<1> QED  BY <1>1, <1>2, OsintStarts, OsintKept, DeletionsKept, PTL DEF OsintSpec

-----------------------------------------------------------------------------
\* The model client: stamps in the order of the clock, the requests a thread has
\* posted an interval apart, each but for the one that came first and late.
CallSteps == {"idle", "sleepMinute", "interval", "sleepInterval", "record", "connect", "backoff"}
LlmCall == [at : CallSteps, validated : BOOLEAN, outer : 0 .. OuterRetries, tries : 0 .. Attempts - 1,
            conns : 0 .. Attempts - 1, now : 0 .. LlmEnd, until : Nat]

CallsTyped ==
    /\ provider \in {"ollama", "cloud"}
    /\ stamps \in Seq(0 .. LlmEnd)
    /\ llmCall \in [Callers -> LlmCall]
    /\ posted \in [Callers -> Seq(0 .. LlmEnd)]
    /\ llmClock \in 0 .. LlmEnd /\ llmFailures \in 0 .. LlmFailures
    /\ \A t \in Callers : llmCall[t].at \in {"interval", "record"} => llmCall[t].now = llmClock

\* The stamps are in order.
StampsOrdered ==
    /\ \A i, j \in 1 .. Len(stamps) : i <= j => stamps[i] <= stamps[j]
    /\ \A i \in 1 .. Len(stamps) : stamps[i] <= llmClock

\* A stamp that the limiter still has, or that is older than a minute
Known(s) == (\E i \in 1 .. Len(stamps) : stamps[i] = s) \/ s + LlmMinute < llmClock

\* From the second on, requests are an interval apart: each follows a stamp that is
\* an interval later than the one before.
Spaced(p) == \A i, j \in 1 .. Len(p) : i < j => p[j] >= p[i] + (j - i - 1) * LlmInterval

\* s is the stamp of the thread's last request, or of the one it is about to send.
Paced(t, s) ==
    /\ s <= llmClock /\ Known(s)
    /\ \A j \in 1 .. Len(posted[t]) :
         /\ j < Len(posted[t]) => s >= posted[t][j] + (Len(posted[t]) - 1 - j) * LlmInterval
         /\ CallAt(t, "connect") => s >= posted[t][j] + (Len(posted[t]) - j) * LlmInterval
    /\ CallAt(t, "sleepInterval") => llmCall[t].until >= s + LlmInterval \/ llmClock >= s + LlmInterval
    /\ CallAt(t, "record") => llmClock >= s + LlmInterval

PostsPaced(t) ==
    /\ Spaced(posted[t])
    /\ \A j \in 1 .. Len(posted[t]) : posted[t][j] <= llmClock
    /\ Len(posted[t]) <= PerMinute + 1
    /\ provider = "ollama" => \E s \in Int : Paced(t, s)
    /\ provider = "cloud" => posted[t] = <<>>

LlmInv == CallsTyped /\ StampsOrdered /\ \A t \in Callers : PostsPaced(t)

\* The minute is not less than an interval.
LEMMA MinuteLong == LlmMinute \in Nat /\ LlmInterval <= LlmMinute
<1>1. 1 * LlmInterval <= PerMinute * LlmInterval
  BY LlmAssumption, TimesKeepsOrder
<1> QED  BY <1>1, LlmAssumption DEF LlmMinute

\* No call is one, and it becomes a call of the direct answer or not.
LEMMA CallsMade ==
    /\ NoLlmCall \in LlmCall /\ NoLlmCall.at = "idle"
    /\ \A b \in BOOLEAN : [NoLlmCall EXCEPT !.validated = b] \in LlmCall
<1>0. 0 \in 0 .. OuterRetries /\ 0 \in 0 .. Attempts - 1 /\ 0 \in 0 .. LlmEnd /\ 0 \in Nat
  BY LlmAssumption
<1>1. NoLlmCall \in LlmCall /\ NoLlmCall.at = "idle"
  BY <1>0 DEF NoLlmCall, LlmCall, CallSteps
<1> HIDE DEF NoLlmCall
<1>2. \A b \in BOOLEAN : [NoLlmCall EXCEPT !.validated = b] \in LlmCall
  BY <1>1, Zenon DEF LlmCall, CallSteps
<1> QED  BY <1>1, <1>2

\* What is left of a call that failed: another attempt, or none.
LEMMA CallsLeft ==
    ASSUME NEW c \in LlmCall
    PROVE  /\ Ended(c) \in LlmCall /\ Ended(c).at \in {"backoff", "idle"}
           /\ Failed(c) \in LlmCall /\ Failed(c).at \in {"backoff", "idle"}
           /\ c.conns + 1 < Attempts => /\ [c EXCEPT !.conns = @ + 1] \in LlmCall
                                        /\ [c EXCEPT !.conns = @ + 1].at = c.at
<1>1. Ended(c) \in LlmCall /\ Ended(c).at \in {"backoff", "idle"}
  <2>1. CASE c.validated /\ c.outer < OuterRetries
    <3>1. c.outer + 1 \in 0 .. OuterRetries /\ 0 \in 0 .. Attempts - 1
      BY <2>1, LlmAssumption DEF LlmCall
    <3> DEFINE n == c.outer + 1
    <3>2. Ended(c) = [c EXCEPT !.at = "backoff", !.outer = n, !.tries = 0]
      BY <2>1 DEF Ended
    <3> HIDE DEF n
    <3>3. [c EXCEPT !.at = "backoff", !.outer = n, !.tries = 0] \in LlmCall
          /\ [c EXCEPT !.at = "backoff", !.outer = n, !.tries = 0].at = "backoff"
      <4>1. n \in 0 .. OuterRetries
        BY <3>1 DEF n
      <4> QED  BY <3>1, <4>1 DEF LlmCall, CallSteps
    <3> QED  BY <3>2, <3>3
  <2>2. CASE ~(c.validated /\ c.outer < OuterRetries)
    BY <2>2, CallsMade DEF Ended
  <2> QED  BY <2>1, <2>2
<1>2. Failed(c) \in LlmCall /\ Failed(c).at \in {"backoff", "idle"}
  <2>1. CASE c.tries + 1 < Attempts
    <3> DEFINE n == c.tries + 1
    <3>1. n \in 0 .. Attempts - 1
      BY <2>1, LlmAssumption DEF LlmCall
    <3>2. Failed(c) = [c EXCEPT !.at = "backoff", !.tries = n]
      BY <2>1 DEF Failed
    <3> HIDE DEF n
    <3>3. [c EXCEPT !.at = "backoff", !.tries = n] \in LlmCall
          /\ [c EXCEPT !.at = "backoff", !.tries = n].at = "backoff"
      BY <3>1 DEF LlmCall, CallSteps
    <3> QED  BY <3>2, <3>3
  <2>2. CASE ~(c.tries + 1 < Attempts)
    BY <1>1, <2>2 DEF Failed
  <2> QED  BY <2>1, <2>2
<1>3. ASSUME c.conns + 1 < Attempts
      PROVE  [c EXCEPT !.conns = @ + 1] \in LlmCall /\ [c EXCEPT !.conns = @ + 1].at = c.at
  <2> DEFINE n == c.conns + 1
  <2>1. n \in 0 .. Attempts - 1
    BY <1>3, LlmAssumption DEF LlmCall
  <2> HIDE DEF n
  <2>2. [c EXCEPT !.conns = n] \in LlmCall /\ [c EXCEPT !.conns = n].at = c.at
    BY <2>1 DEF LlmCall
  <2> QED  BY <2>2 DEF n
<1> QED  BY <1>1, <1>2, <1>3

\* A call goes on, and the others stay where they are.
LEMMA CallMoves ==
    ASSUME CallsTyped, NEW t \in Callers, NEW c \in LlmCall, CallGoes(t, c)
    PROVE  /\ llmCall' \in [Callers -> LlmCall] /\ llmCall'[t] = c
           /\ \A u \in Callers \ {t} : llmCall'[u] = llmCall[u]
  BY DEF CallsTyped, CallGoes

\* A step of one thread, before the next tick: the others keep their pace.
LEMMA OthersPaced ==
    ASSUME LlmInv, NEW t \in Callers, UNCHANGED <<provider, llmClock>>, NEW c \in LlmCall, CallGoes(t, c),
           \A u \in Callers \ {t} : posted'[u] = posted[u],
           \A s \in Int : Known(s) => Known(s)'
    PROVE  \A u \in Callers \ {t} : PostsPaced(u)'
<1> SUFFICES ASSUME NEW u \in Callers \ {t} PROVE PostsPaced(u)'
  OBVIOUS
<1>1. llmCall'[u] = llmCall[u] /\ posted'[u] = posted[u] /\ PostsPaced(u)
  BY CallMoves DEF LlmInv
<1>2. ASSUME NEW s \in Int, Paced(u, s) PROVE Paced(u, s)'
  BY <1>1, <1>2 DEF Paced, CallAt
<1> QED  BY <1>1, <1>2 DEF PostsPaced, Spaced

\* The thread itself, when its step sends nothing
LEMMA SamePosts ==
    ASSUME LlmInv, NEW t \in Callers, UNCHANGED <<provider, llmClock, posted>>,
           \A s \in Int : Known(s) => Known(s)',
           provider = "ollama" => llmCall'[t].at \notin {"connect", "sleepInterval", "record"}
    PROVE  PostsPaced(t)'
<1>1. PostsPaced(t)
  BY DEF LlmInv
<1>2. ASSUME NEW s \in Int, Paced(t, s), provider = "ollama" PROVE Paced(t, s)'
  BY <1>2 DEF Paced, CallAt
<1> QED  BY <1>1, <1>2 DEF PostsPaced, Spaced

\* Pruning takes out what is older than a minute.
LEMMA PrunedStamps ==
    ASSUME CallsTyped, StampsOrdered, UNCHANGED llmClock,
           stamps' = Filtered(stamps, {s \in 0 .. LlmEnd : llmClock - s <= LlmMinute})
    PROVE  /\ stamps' \in Seq(0 .. LlmEnd) /\ StampsOrdered'
           /\ \A s \in Int : Known(s) => Known(s)'
<1> DEFINE R == {s \in 0 .. LlmEnd : llmClock - s <= LlmMinute}
           r == Filtered(stamps, R)
<1>0. stamps \in Seq(0 .. LlmEnd) /\ llmClock \in 0 .. LlmEnd /\ LlmMinute \in Nat /\ LlmEnd \in Nat
  BY MinuteLong, LlmAssumption DEF CallsTyped
<1> HIDE DEF R
<1>1. PICK e :
        /\ r \in Seq(0 .. LlmEnd)
        /\ e \in [1 .. Len(r) -> 1 .. Len(stamps)]
        /\ \A n \in 1 .. Len(r) : r[n] = stamps[e[n]] /\ r[n] \in R
        /\ \A m, n \in 1 .. Len(r) : m < n => e[m] < e[n]
        /\ \A j \in 1 .. Len(stamps) : stamps[j] \in R => \E n \in 1 .. Len(r) : e[n] = j
  BY <1>0, FilteredPlaces, SMTT(60)
<1>2. stamps' = r
  BY DEF R
<1> HIDE DEF r
<1>3. StampsOrdered'
  <2>1. ASSUME NEW i \in 1 .. Len(r), NEW j \in 1 .. Len(r), i <= j PROVE r[i] <= r[j]
    <3>1. e[i] \in 1 .. Len(stamps) /\ e[j] \in 1 .. Len(stamps) /\ e[i] <= e[j]
      <4>1. Len(r) \in Nat
        BY <1>1
      <4>2. i = j \/ i < j
        BY <2>1, <4>1
      <4>3. e[i] \in 1 .. Len(stamps) /\ e[j] \in 1 .. Len(stamps)
        BY <1>1
      <4>4. i < j => e[i] < e[j]
        BY <1>1
      <4> QED  BY <4>2, <4>3, <4>4
    <3> QED  BY <1>1, <3>1 DEF StampsOrdered
  <2>2. ASSUME NEW i \in 1 .. Len(r) PROVE r[i] <= llmClock'
    BY <1>1 DEF StampsOrdered
  <2> QED  BY <1>2, <2>1, <2>2 DEF StampsOrdered
<1>4. ASSUME NEW s \in Int, Known(s) PROVE Known(s)'
  <2>1. CASE s + LlmMinute < llmClock
    BY <2>1 DEF Known
  <2>2. ASSUME NEW i \in 1 .. Len(stamps), stamps[i] = s PROVE Known(s)'
    <3>1. CASE s \in R
      <4>1. PICK n \in 1 .. Len(r) : e[n] = i
        BY <1>1, <2>2, <3>1
      <4>2. r[n] = s
        BY <1>1, <2>2, <4>1
      <4> QED  BY <1>2, <4>2 DEF Known
    <3>2. CASE s \notin R
      <4>1. s \in 0 .. LlmEnd
        BY <1>0, <2>2
      <4>2. s + LlmMinute < llmClock
        BY <1>0, <3>2, <4>1 DEF R
      <4> QED  BY <4>2 DEF Known
    <3> QED  BY <3>1, <3>2
  <2> QED  BY <1>4, <2>1, <2>2 DEF Known
<1> QED  BY <1>1, <1>2, <1>3, <1>4

\* An attempt begins.
LEMMA AttemptBegins ==
    ASSUME LlmInv, NEW t \in Callers, NEW c \in LlmCall, BeginsCall(t, c), UNCHANGED <<provider, posted, llmClock, llmFailures>>
    PROVE  LlmInv'
<1>0. CallsTyped /\ StampsOrdered
  BY DEF LlmInv
<1>1. CASE provider = "cloud"
  <2> DEFINE d == [c EXCEPT !.at = "connect"]
  <2>1. CallGoes(t, d) /\ UNCHANGED stamps
    BY <1>1 DEF BeginsCall
  <2>2. d \in LlmCall /\ d.at = "connect"
    <3>1. 0 \in 0 .. LlmEnd /\ 0 \in Nat /\ "connect" \in CallSteps
      BY LlmAssumption DEF CallSteps
    <3> QED  BY <3>1 DEF LlmCall, CallSteps
  <2> HIDE DEF d
  <2>3. /\ llmCall' \in [Callers -> LlmCall] /\ llmCall'[t] = d
        /\ \A u \in Callers \ {t} : llmCall'[u] = llmCall[u]
    BY <1>0, <2>1, <2>2, CallMoves
  <2>4. CallsTyped' /\ StampsOrdered'
    BY <1>0, <2>1, <2>2, <2>3 DEF CallsTyped, StampsOrdered
  <2>5. \A s \in Int : Known(s) => Known(s)'
    BY <2>1 DEF Known
  <2>6. \A u \in Callers \ {t} : PostsPaced(u)'
    BY <2>1, <2>2, <2>5, OthersPaced
  <2>7. PostsPaced(t)'
    BY <1>1, <2>5, SamePosts
  <2> QED  BY <2>4, <2>6, <2>7 DEF LlmInv
<1>2. CASE provider # "cloud"
  <2> DEFINE R == {s \in 0 .. LlmEnd : llmClock - s <= LlmMinute}
             r == Filtered(stamps, R)
  <2>1. /\ stamps' = r
        /\ CallGoes(t, IF Len(r) >= PerMinute /\ llmClock - r[1] < LlmMinute
                    THEN [c EXCEPT !.at = "sleepMinute", !.until = r[1] + LlmMinute]
                    ELSE [c EXCEPT !.at = "interval", !.now = llmClock])
    BY <1>2 DEF BeginsCall
  <2>2. /\ stamps' \in Seq(0 .. LlmEnd) /\ StampsOrdered'
        /\ \A s \in Int : Known(s) => Known(s)'
    BY <1>0, <2>1, PrunedStamps
  <2> HIDE DEF r
  <2>3. ASSUME NEW d \in LlmCall, CallGoes(t, d), d.at \in {"sleepMinute", "interval"},
               d.at = "interval" => d.now = llmClock
        PROVE  LlmInv'
    <3>1. /\ llmCall' \in [Callers -> LlmCall] /\ llmCall'[t] = d
          /\ \A u \in Callers \ {t} : llmCall'[u] = llmCall[u]
      BY <1>0, <2>3, CallMoves
    <3>2. CallsTyped'
      BY <1>0, <2>2, <2>3, <3>1 DEF CallsTyped
    <3>3. \A u \in Callers \ {t} : PostsPaced(u)'
      BY <2>2, <2>3, OthersPaced
    <3>4. PostsPaced(t)'
      BY <2>2, <2>3, <3>1, SamePosts
    <3> QED  BY <2>2, <3>2, <3>3, <3>4 DEF LlmInv
  <2>4. CASE Len(r) >= PerMinute /\ llmClock - r[1] < LlmMinute
    <3>1. r[1] + LlmMinute \in Nat
      <4>1. r \in Seq(0 .. LlmEnd) /\ Len(r) \in Nat
        BY <2>1, <2>2
      <4>3. 1 \in 1 .. Len(r)
        BY <2>4, <4>1, LlmAssumption
      <4>2. r[1] \in 0 .. LlmEnd
        BY <4>1, <4>3, ElementIn
      <4> QED  BY <4>2, MinuteLong
    <3> DEFINE n == r[1] + LlmMinute
               d == [c EXCEPT !.at = "sleepMinute", !.until = n]
    <3>2. CallGoes(t, d)
      BY <2>1, <2>4
    <3> HIDE DEF n
    <3>3. d \in LlmCall /\ d.at = "sleepMinute"
      <4>1. n \in Nat /\ 0 \in 0 .. LlmEnd /\ "sleepMinute" \in CallSteps
        BY <3>1, LlmAssumption DEF n, CallSteps
      <4> QED  BY <4>1 DEF LlmCall, CallSteps
    <3> HIDE DEF d
    <3> QED  BY <2>3, <3>2, <3>3
  <2>5. CASE ~(Len(r) >= PerMinute /\ llmClock - r[1] < LlmMinute)
    <3> DEFINE d == [c EXCEPT !.at = "interval", !.now = llmClock]
    <3>1. CallGoes(t, d)
      BY <2>1, <2>5
    <3>2. d \in LlmCall /\ d.at = "interval" /\ d.now = llmClock
      <4>1. llmClock \in 0 .. LlmEnd /\ 0 \in Nat /\ "interval" \in CallSteps
        BY <1>0 DEF CallsTyped, CallSteps
      <4> QED  BY <4>1 DEF LlmCall, CallSteps
    <3> HIDE DEF d
    <3> QED  BY <2>3, <3>1, <3>2
  <2> QED  BY <2>4, <2>5
<1> QED  BY <1>1, <1>2

\* A step that leaves the limiter's stamps and the requests posted alone
LEMMA LimiterLeft ==
    ASSUME LlmInv, NEW t \in Callers, NEW c \in LlmCall, CallGoes(t, c), UNCHANGED <<provider, stamps, posted, llmClock>>,
           llmFailures' \in 0 .. LlmFailures, c.at \in {"interval", "record"} => c.now = llmClock,
           provider = "ollama" =>
             \A s \in Int : Paced(t, s) =>
               /\ c.at = "connect" => \A j \in 1 .. Len(posted[t]) : s >= posted[t][j] + (Len(posted[t]) - j) * LlmInterval
               /\ c.at = "sleepInterval" => c.until >= s + LlmInterval \/ llmClock >= s + LlmInterval
               /\ c.at = "record" => llmClock >= s + LlmInterval
    PROVE  LlmInv'
<1>0. CallsTyped /\ StampsOrdered /\ PostsPaced(t)
  BY DEF LlmInv
<1>1. /\ llmCall' \in [Callers -> LlmCall] /\ llmCall'[t] = c
      /\ \A u \in Callers \ {t} : llmCall'[u] = llmCall[u]
  BY <1>0, CallMoves
<1>2. CallsTyped' /\ StampsOrdered'
  BY <1>0, <1>1 DEF CallsTyped, StampsOrdered
<1>3. \A s \in Int : Known(s) => Known(s)'
  BY DEF Known
<1>4. \A u \in Callers \ {t} : PostsPaced(u)'
  BY <1>3, OthersPaced
<1>5. ASSUME NEW s \in Int, Paced(t, s), provider = "ollama" PROVE Paced(t, s)'
  BY <1>1, <1>3, <1>5 DEF Paced, CallAt
<1>6. PostsPaced(t)'
  BY <1>0, <1>5 DEF PostsPaced, Spaced
<1> QED  BY <1>2, <1>4, <1>6 DEF LlmInv

\* Waiting for the interval keeps the pace, whatever the other threads record
\* meanwhile: the latest stamp is not before the thread's own.
LEMMA IntervalLooks ==
    ASSUME LlmInv, NEW t \in Callers, LooksAtInterval(t)
    PROVE  LlmInv'
<1>0. CallsTyped /\ StampsOrdered
  BY DEF LlmInv
<1>1. /\ llmCall[t] \in LlmCall /\ llmCall[t].now = llmClock /\ UNCHANGED <<provider, stamps, posted, llmClock, llmFailures>>
      /\ llmClock \in 0 .. LlmEnd /\ stamps \in Seq(0 .. LlmEnd) /\ LlmInterval \in Nat /\ LlmEnd \in Nat
      /\ llmFailures \in 0 .. LlmFailures
  BY <1>0, LlmAssumption DEF CallsTyped, LooksAtInterval, CallAt
<1> DEFINE last == Last(stamps) + LlmInterval
<1>2. ASSUME stamps # <<>> PROVE last \in Nat /\ \A s \in Int : Known(s) => last >= s + LlmInterval \/ llmClock >= s + LlmInterval
  <2>1. Len(stamps) \in Nat \ {0} /\ Last(stamps) = stamps[Len(stamps)]
    BY <1>1, <1>2 DEF Last
  <2>2. stamps[Len(stamps)] \in 0 .. LlmEnd
    <3>1. Len(stamps) \in 1 .. Len(stamps)
      BY <2>1
    <3> QED  BY <1>1, <3>1, ElementIn
  <2>3. ASSUME NEW s \in Int, Known(s) PROVE last >= s + LlmInterval \/ llmClock >= s + LlmInterval
    <3>1. CASE s + LlmMinute < llmClock
      BY <1>1, <3>1, MinuteLong
    <3>2. ASSUME NEW i \in 1 .. Len(stamps), stamps[i] = s PROVE last >= s + LlmInterval
      <4>1. stamps[i] <= stamps[Len(stamps)]
        BY <1>0, <2>1 DEF StampsOrdered
      <4> QED  BY <1>1, <2>1, <2>2, <3>2, <4>1
    <3> QED  BY <2>3, <3>1, <3>2 DEF Known
  <2> QED  BY <1>1, <2>1, <2>2, <2>3
<1> HIDE DEF last
<1>3. CASE stamps # <<>> /\ llmCall[t].now < last
  <2> DEFINE d == [llmCall[t] EXCEPT !.at = "sleepInterval", !.until = last]
  <2>1. CallGoes(t, d)
    BY <1>3 DEF LooksAtInterval, last
  <2>2. d \in LlmCall /\ d.at = "sleepInterval" /\ d.until = last
    BY <1>1, <1>2, <1>3 DEF LlmCall, CallSteps
  <2> HIDE DEF d
  <2>3. \A s \in Int : Paced(t, s) => d.until >= s + LlmInterval \/ llmClock >= s + LlmInterval
    BY <1>2, <1>3, <2>2 DEF Paced
  <2> QED  BY <1>1, <2>1, <2>2, <2>3, LimiterLeft
<1>4. CASE ~(stamps # <<>> /\ llmCall[t].now < last)
  <2> DEFINE d == [llmCall[t] EXCEPT !.at = "record"]
  <2>1. CallGoes(t, d)
    BY <1>4 DEF LooksAtInterval, last
  <2>2. d \in LlmCall /\ d.at = "record" /\ d.now = llmClock
    BY <1>1 DEF LlmCall, CallSteps
  <2> HIDE DEF d
  <2>3. ASSUME NEW s \in Int, Known(s) PROVE llmClock >= s + LlmInterval
    <3>1. CASE stamps = <<>>
      <4>1. s + LlmMinute < llmClock
        BY <2>3, <3>1 DEF Known
      <4> QED  BY <1>1, <4>1, MinuteLong
    <3>2. CASE stamps # <<>>
      BY <1>1, <1>2, <1>4, <2>3, <3>2
    <3> QED  BY <3>1, <3>2
  <2>4. \A s \in Int : Paced(t, s) => llmClock >= s + LlmInterval
    BY <2>3 DEF Paced
  <2> QED  BY <1>1, <2>1, <2>2, <2>4, LimiterLeft
<1> QED  BY <1>3, <1>4

\* A sleeper wakes.
LEMMA SleeperWakes ==
    ASSUME LlmInv, NEW t \in Callers,
           Wakes(t, "sleepMinute", "interval") \/ Wakes(t, "sleepInterval", "record")
    PROVE  LlmInv'
<1>0. CallsTyped
  BY DEF LlmInv
<1>1. /\ llmCall[t] \in LlmCall /\ llmCall[t].until \in Nat /\ UNCHANGED <<provider, stamps, posted, llmClock, llmFailures>>
      /\ llmClock \in 0 .. LlmEnd /\ LlmEnd \in Nat /\ LlmInterval \in Nat /\ llmClock >= llmCall[t].until
      /\ llmFailures \in 0 .. LlmFailures
  BY <1>0, LlmAssumption DEF CallsTyped, Wakes, LlmCall
<1>2. CASE Wakes(t, "sleepMinute", "interval")
  <2> DEFINE d == [llmCall[t] EXCEPT !.at = "interval", !.now = llmClock]
  <2>1. CallGoes(t, d)
    BY <1>2 DEF Wakes
  <2>2. d \in LlmCall /\ d.at = "interval" /\ d.now = llmClock
    BY <1>1 DEF LlmCall, CallSteps
  <2> HIDE DEF d
  <2> QED  BY <1>1, <2>1, <2>2, LimiterLeft
<1>3. CASE Wakes(t, "sleepInterval", "record")
  <2> DEFINE d == [llmCall[t] EXCEPT !.at = "record", !.now = llmClock]
  <2>1. CallGoes(t, d) /\ CallAt(t, "sleepInterval")
    BY <1>3 DEF Wakes
  <2>2. d \in LlmCall /\ d.at = "record" /\ d.now = llmClock
    BY <1>1 DEF LlmCall, CallSteps
  <2> HIDE DEF d
  <2>3. ASSUME NEW s \in Int, Paced(t, s) PROVE llmClock >= s + LlmInterval
    BY <1>1, <2>1, <2>3 DEF Paced
  <2> QED  BY <1>1, <2>1, <2>2, <2>3, LimiterLeft
<1> QED  BY <1>2, <1>3

\* A stamp is recorded: the clock's, and an interval after the one before.
LEMMA StampRecorded ==
    ASSUME LlmInv, NEW t \in Callers, RecordsStamp(t)
    PROVE  LlmInv'
<1>0. CallsTyped /\ StampsOrdered /\ PostsPaced(t)
  BY DEF LlmInv
<1> DEFINE p == posted[t]
           n == Len(p)
<1>1. /\ llmCall[t] \in LlmCall /\ llmCall[t].now = llmClock /\ UNCHANGED <<provider, posted, llmClock, llmFailures>>
      /\ llmClock \in 0 .. LlmEnd /\ stamps \in Seq(0 .. LlmEnd) /\ LlmInterval \in Nat /\ LlmEnd \in Nat
      /\ p \in Seq(0 .. LlmEnd) /\ n \in Nat /\ CallAt(t, "record")
  BY <1>0, LlmAssumption DEF CallsTyped, RecordsStamp, CallAt
<1>2. stamps' = Append(stamps, llmClock)
  BY <1>1 DEF RecordsStamp
<1>3. /\ stamps' \in Seq(0 .. LlmEnd) /\ Len(stamps') = Len(stamps) + 1 /\ stamps'[Len(stamps) + 1] = llmClock
      /\ \A i \in 1 .. Len(stamps) : stamps'[i] = stamps[i]
  BY <1>1, <1>2
<1>4. StampsOrdered'
  <2>1. Len(stamps) \in Nat /\ \A i \in 1 .. Len(stamps) : stamps[i] \in 0 .. LlmEnd
    BY <1>1, ElementIn
  <2>2. ASSUME NEW i \in 1 .. Len(stamps), NEW j \in 1 .. Len(stamps), i <= j PROVE stamps'[i] <= stamps'[j]
    BY <1>0, <1>3, <2>2 DEF StampsOrdered
  <2>3. ASSUME NEW i \in 1 .. Len(stamps) + 1 PROVE stamps'[i] <= llmClock
    <3>1. CASE i = Len(stamps) + 1
      BY <1>1, <1>3, <3>1
    <3>2. CASE i # Len(stamps) + 1
      <4>1. i \in 1 .. Len(stamps)
        BY <2>1, <3>2
      <4> QED  BY <1>0, <1>3, <4>1 DEF StampsOrdered
    <3> QED  BY <3>1, <3>2
  <2>4. ASSUME NEW i \in 1 .. Len(stamps) + 1, NEW j \in 1 .. Len(stamps) + 1, i <= j PROVE stamps'[i] <= stamps'[j]
    <3>1. CASE j = Len(stamps) + 1
      BY <1>3, <2>3, <3>1
    <3>2. CASE j # Len(stamps) + 1
      <4>1. i \in 1 .. Len(stamps) /\ j \in 1 .. Len(stamps)
        BY <2>1, <2>4, <3>2
      <4> QED  BY <2>2, <2>4, <4>1
    <3> QED  BY <3>1, <3>2
  <2> QED  BY <1>1, <1>3, <2>3, <2>4 DEF StampsOrdered
<1>5. \A s \in Int : Known(s) => Known(s)'
  <2> SUFFICES ASSUME NEW s \in Int, Known(s) PROVE Known(s)'
    OBVIOUS
  <2>1. CASE s + LlmMinute < llmClock
    BY <1>1, <2>1 DEF Known
  <2>2. ASSUME NEW i \in 1 .. Len(stamps), stamps[i] = s PROVE Known(s)'
    <3>1. i \in 1 .. Len(stamps') /\ stamps'[i] = s
      BY <1>1, <1>3, <2>2
    <3> QED  BY <3>1 DEF Known
  <2> QED  BY <2>1, <2>2 DEF Known
<1>6. Known(llmClock)'
  <2>1. Len(stamps) + 1 \in 1 .. Len(stamps')
    BY <1>1, <1>3
  <2> QED  BY <1>1, <1>3, <2>1 DEF Known
<1> DEFINE d == [llmCall[t] EXCEPT !.at = "connect", !.conns = 0, !.now = 0, !.until = 0]
<1>7. CallGoes(t, d)
  BY DEF RecordsStamp
<1>8. d \in LlmCall /\ d.at = "connect"
  <2>1. 0 \in 0 .. Attempts - 1 /\ 0 \in 0 .. LlmEnd /\ 0 \in Nat
    BY LlmAssumption
  <2> QED  BY <1>1, <2>1 DEF LlmCall, CallSteps
<1> HIDE DEF d
<1>9. /\ llmCall' \in [Callers -> LlmCall] /\ llmCall'[t] = d
      /\ \A u \in Callers \ {t} : llmCall'[u] = llmCall[u]
  BY <1>0, <1>7, <1>8, CallMoves
<1>10. CallsTyped'
  BY <1>0, <1>1, <1>3, <1>8, <1>9 DEF CallsTyped
<1>11. \A u \in Callers \ {t} : PostsPaced(u)'
  BY <1>1, <1>5, <1>7, <1>8, OthersPaced
<1>12. ASSUME NEW s \in Int, Paced(t, s), provider = "ollama" PROVE Paced(t, llmClock)'
  <2> HIDE DEF p, n
  <2>1. llmClock >= s + LlmInterval
    BY <1>1, <1>12 DEF Paced
  <2>2. ASSUME NEW j \in 1 .. n
        PROVE  /\ llmClock >= p[j] + (n - j) * LlmInterval
               /\ j < n => llmClock >= p[j] + (n - 1 - j) * LlmInterval
    <3>1. p[j] \in 0 .. LlmEnd /\ p[j] <= llmClock
      <4>1. p[j] \in 0 .. LlmEnd
        BY <1>1, ElementIn DEF n
      <4> QED  BY <1>0, <4>1 DEF PostsPaced, p, n
    <3>2. CASE j = n
      <4>1. (n - j) * LlmInterval = 0
        BY <1>1, <3>2
      <4> QED  BY <1>1, <3>1, <3>2, <4>1
    <3>3. CASE j # n
      <4>1. j < n /\ n - j \in Nat /\ n - 1 - j \in Nat
        BY <1>1, <3>3
      <4>2. s >= p[j] + (n - 1 - j) * LlmInterval
        BY <1>12, <4>1 DEF Paced, p, n
      <4>3. (n - j) * LlmInterval = (n - 1 - j) * LlmInterval + LlmInterval
        BY <1>1, <4>1
      <4> DEFINE a == (n - 1 - j) * LlmInterval
      <4>4. a \in Nat /\ (n - j) * LlmInterval = a + LlmInterval /\ s >= p[j] + a
        BY <1>1, <4>1, <4>2, <4>3
      <4> HIDE DEF a
      <4>5. llmClock >= p[j] + (a + LlmInterval) /\ llmClock >= p[j] + a
        <5>1. llmClock \in Int /\ LlmInterval \in Nat /\ p[j] \in Int /\ a \in Nat /\ s \in Int
          BY <1>1, <3>1, <4>4
        <5> QED  BY <2>1, <4>4, <5>1
      <4> QED  BY <4>4, <4>5 DEF a
    <3> QED  BY <3>2, <3>3
  <2>3. \A j \in 1 .. Len(posted'[t]) :
           /\ j < Len(posted'[t]) => llmClock >= posted'[t][j] + (Len(posted'[t]) - 1 - j) * LlmInterval
           /\ llmClock >= posted'[t][j] + (Len(posted'[t]) - j) * LlmInterval
    BY <1>1, <2>2 DEF p, n
  <2>4. ~ CallAt(t, "sleepInterval")' /\ ~ CallAt(t, "record")'
    BY <1>8, <1>9 DEF CallAt
  <2>5. llmClock <= llmClock' /\ llmClock' = llmClock
    BY <1>1
  <2> QED  BY <1>6, <2>3, <2>4, <2>5 DEF Paced
<1>13. PostsPaced(t)'
  <2>1. llmClock' \in Int
    BY <1>1
  <2> QED  BY <1>0, <1>1, <1>12, <2>1 DEF PostsPaced, Spaced
<1> QED  BY <1>4, <1>10, <1>11, <1>13 DEF LlmInv

\* Fewer intervals ask for less.
LEMMA FewerIntervals ==
    ASSUME NEW a \in Int, NEW b \in Int, NEW x \in Int, NEW y \in Int, a <= b, x >= y + b * LlmInterval
    PROVE  x >= y + a * LlmInterval
<1>1. LlmInterval \in Nat
  BY LlmAssumption
<1> DEFINE v == a * LlmInterval
           w == b * LlmInterval
<1>2. v <= w
  BY <1>1, TimesKeepsOrder
<1>3. v \in Int /\ w \in Int /\ x >= y + w
  BY <1>1
<1> HIDE DEF v, w
<1>4. x >= y + v
  BY <1>2, <1>3
<1> QED  BY <1>4 DEF v

\* What is picked out of requests that are an interval apart is so too.
LEMMA PickedPaced ==
    ASSUME NEW p \in Seq(0 .. LlmEnd), NEW r \in Seq(0 .. LlmEnd), NEW e \in [1 .. Len(r) -> 1 .. Len(p)],
           NEW s \in Int,
           \A k \in 1 .. Len(r) : r[k] = p[e[k]],
           \A k, l \in 1 .. Len(r) : k < l => e[k] < e[l],
           Spaced(p), \A j \in 1 .. Len(p) : s >= p[j] + (Len(p) - j) * LlmInterval
    PROVE  Spaced(r) /\ \A i \in 1 .. Len(r) : s >= r[i] + (Len(r) - i) * LlmInterval
<1> DEFINE n == Len(p)
           m == Len(r)
<1>1. n \in Nat /\ m \in Nat
  OBVIOUS
<1> HIDE DEF n, m
<1>2. \A i \in 1 .. m : /\ m - i <= n - e[i]
                        /\ \A j \in 1 .. m : i < j => j - i <= e[j] - e[i]
  <2>1. e \in [1 .. m -> 1 .. n] /\ \A k, l \in 1 .. m : k < l => e[k] < e[l]
    BY DEF n, m
  <2> QED  BY <1>1, <2>1, PlacesApart
<1>3. \A i \in 1 .. m : e[i] \in 1 .. n /\ r[i] = p[e[i]] /\ r[i] \in 0 .. LlmEnd
  <2> SUFFICES ASSUME NEW i \in 1 .. m PROVE e[i] \in 1 .. n /\ r[i] = p[e[i]] /\ r[i] \in 0 .. LlmEnd
    OBVIOUS
  <2>1. i \in 1 .. Len(r)
    BY DEF m
  <2>2. r[i] \in 0 .. LlmEnd
    BY <2>1, ElementIn
  <2> QED  BY <2>1, <2>2 DEF n
<1>4. ASSUME NEW i \in 1 .. m PROVE s >= r[i] + (m - i) * LlmInterval
  <2>1. e[i] \in 1 .. n /\ r[i] = p[e[i]] /\ r[i] \in Int /\ m - i <= n - e[i]
    BY <1>2, <1>3, LlmAssumption
  <2>2. s >= r[i] + (n - e[i]) * LlmInterval
    BY <2>1 DEF n
  <2>3. m - i \in Int /\ n - e[i] \in Int
    BY <1>1, <2>1
  <2> QED  BY <2>1, <2>2, <2>3, FewerIntervals
<1>5. ASSUME NEW i \in 1 .. m, NEW j \in 1 .. m, i < j PROVE r[j] >= r[i] + (j - i - 1) * LlmInterval
  <2>1. /\ e[i] \in 1 .. n /\ r[i] = p[e[i]] /\ r[i] \in Int
        /\ e[j] \in 1 .. n /\ r[j] = p[e[j]] /\ r[j] \in Int
        /\ j - i <= e[j] - e[i]
    <3>1. e[i] \in 1 .. n /\ r[i] = p[e[i]] /\ r[i] \in Int
      BY <1>3, LlmAssumption
    <3>2. e[j] \in 1 .. n /\ r[j] = p[e[j]] /\ r[j] \in Int
      BY <1>3, LlmAssumption
    <3>3. j - i <= e[j] - e[i]
      BY <1>2, <1>5
    <3> QED  BY <3>1, <3>2, <3>3
  <2>2. e[i] < e[j] /\ i \in Int /\ j \in Int
    BY <1>1, <1>5 DEF m
  <2>3. r[j] >= r[i] + (e[j] - e[i] - 1) * LlmInterval
    BY <2>1, <2>2 DEF Spaced, n
  <2>4. e[i] \in Int /\ e[j] \in Int
    BY <1>1, <2>1
  <2> DEFINE x == e[i]
             y == e[j]
  <2> HIDE DEF x, y
  <2>5. x \in Int /\ y \in Int /\ j - i <= y - x
    BY <2>1, <2>4 DEF x, y
  <2>6. j - i - 1 \in Int /\ y - x - 1 \in Int /\ j - i - 1 <= y - x - 1
    BY <2>2, <2>5
  <2>7. r[j] >= r[i] + (y - x - 1) * LlmInterval
    BY <2>3 DEF x, y
  <2> QED  BY <2>1, <2>6, <2>7, FewerIntervals
<1> QED  BY <1>4, <1>5 DEF Spaced, m

\* The requests of the minute that ends now, and one more: they stay spaced, and
\* the first and the last are less than a minute apart.
LEMMA OnePosted ==
    ASSUME NEW r \in Seq(0 .. LlmEnd), NEW c \in 0 .. LlmEnd, NEW s \in Int, s <= c,
           Spaced(r), \A j \in 1 .. Len(r) : r[j] <= c /\ r[j] + LlmMinute > c,
           \A i \in 1 .. Len(r) : s >= r[i] + (Len(r) - i) * LlmInterval,
           NEW q, q = Append(r, c)
    PROVE  /\ q \in Seq(0 .. LlmEnd) /\ Spaced(q) /\ \A j \in 1 .. Len(q) : q[j] <= c
           /\ \A j \in 1 .. Len(q) : j < Len(q) => s >= q[j] + (Len(q) - 1 - j) * LlmInterval
           /\ Len(q) <= PerMinute + 1
<1> DEFINE m == Len(r)
<1>0. m \in Nat /\ LlmInterval \in Nat /\ PerMinute \in Nat /\ LlmEnd \in Nat /\ LlmMinute \in Nat /\ c \in Int
  BY LlmAssumption, MinuteLong
<1>1. /\ q \in Seq(0 .. LlmEnd) /\ Len(q) = m + 1 /\ q[m + 1] = c
      /\ \A j \in 1 .. m : q[j] = r[j]
  OBVIOUS
<1>2. ASSUME NEW i \in 1 .. m
      PROVE  q[i] \in Int /\ q[i] = r[i] /\ q[i] <= c /\ q[i] + LlmMinute > c
  <2>1. r[i] \in 0 .. LlmEnd
    BY ElementIn
  <2> QED  BY <1>0, <1>1, <2>1
<1>3. ASSUME NEW i \in 1 .. m PROVE s >= q[i] + (m - i) * LlmInterval
  BY <1>1
<1> HIDE DEF m
<1>4. ASSUME NEW i \in 1 .. m PROVE c >= q[i] + (m - i) * LlmInterval
  <2> DEFINE x == (m - i) * LlmInterval
  <2>0. s >= q[i] + x
    BY <1>3
  <2>1. x \in Int
    BY <1>0
  <2>2. q[i] \in Int
    BY <1>2
  <2> HIDE DEF x
  <2>3. c >= q[i] + x
    <3>1. s \in Int /\ c \in Int /\ s <= c
      BY <1>0
    <3> QED  BY ONLY <3>1, <2>0, <2>1, <2>2
  <2> QED  BY <2>3 DEF x
<1>5. Spaced(q)
  <2> SUFFICES ASSUME NEW i \in 1 .. m + 1, NEW j \in 1 .. m + 1, i < j
               PROVE  q[j] >= q[i] + (j - i - 1) * LlmInterval
    BY <1>1 DEF Spaced
  <2>1. i \in 1 .. m
    BY <1>0
  <2>2. CASE j = m + 1
    <3>1. j - i - 1 = m - i
      BY <1>0, <2>1, <2>2
    <3> QED  BY <1>1, <1>4, <2>1, <2>2, <3>1
  <2>3. CASE j # m + 1
    <3>1. j \in 1 .. m
      BY <1>0, <2>3
    <3>2. r[j] >= r[i] + (j - i - 1) * LlmInterval
      BY <2>1, <3>1 DEF Spaced, m
    <3> QED  BY <1>2, <2>1, <3>1, <3>2
  <2> QED  BY <2>2, <2>3
<1>6. \A j \in 1 .. Len(q) : q[j] <= c
  <2> SUFFICES ASSUME NEW j \in 1 .. m + 1 PROVE q[j] <= c
    BY <1>1
  <2>1. CASE j = m + 1
    BY <1>0, <1>1, <2>1
  <2>2. CASE j # m + 1
    <3>1. j \in 1 .. m
      BY <1>0, <2>2
    <3> QED  BY <1>2, <3>1
  <2> QED  BY <2>1, <2>2
<1>7. ASSUME NEW j \in 1 .. Len(q), j < Len(q)
      PROVE  s >= q[j] + (Len(q) - 1 - j) * LlmInterval
  <2>1. j \in 1 .. m /\ Len(q) - 1 - j = m - j
    BY <1>0, <1>1, <1>7
  <2> QED  BY <1>3, <2>1
<1>8. m <= PerMinute
  <2> SUFFICES ASSUME m > PerMinute PROVE FALSE
    BY <1>0
  <2>1. 1 \in 1 .. m /\ PerMinute <= m - 1 /\ m - 1 \in Int
    BY <1>0
  <2>2. c >= q[1] + (m - 1) * LlmInterval /\ q[1] + LlmMinute > c /\ q[1] \in Int
    BY <1>2, <1>4, <2>1
  <2>3. PerMinute * LlmInterval <= (m - 1) * LlmInterval
    BY <1>0, <2>1, TimesKeepsOrder
  <2> DEFINE x == (m - 1) * LlmInterval
  <2>4. x \in Int /\ LlmMinute <= x /\ c >= q[1] + x
    BY <1>0, <2>1, <2>2, <2>3 DEF LlmMinute
  <2> HIDE DEF x
  <2> QED  BY <1>0, <2>2, <2>4
<1> QED  BY <1>0, <1>1, <1>5, <1>6, <1>7, <1>8

\* A request more, when those of before the minute are dropped
LEMMA RequestsKept ==
    ASSUME NEW p \in Seq(0 .. LlmEnd), NEW c \in 0 .. LlmEnd, NEW s \in Int, s <= c,
           Spaced(p), \A j \in 1 .. Len(p) : p[j] <= c,
           \A j \in 1 .. Len(p) : s >= p[j] + (Len(p) - j) * LlmInterval,
           NEW q, q = Append(Filtered(p, {x \in 0 .. LlmEnd : x + LlmMinute > c}), c)
    PROVE  /\ q \in Seq(0 .. LlmEnd) /\ Spaced(q) /\ \A j \in 1 .. Len(q) : q[j] <= c
           /\ \A j \in 1 .. Len(q) : j < Len(q) => s >= q[j] + (Len(q) - 1 - j) * LlmInterval
           /\ Len(q) <= PerMinute + 1
<1> DEFINE R == {x \in 0 .. LlmEnd : x + LlmMinute > c}
           r == Filtered(p, R)
<1>1. q = Append(r, c)
  OBVIOUS
<1> HIDE DEF R
<1>2. PICK e :
        /\ r \in Seq(0 .. LlmEnd)
        /\ e \in [1 .. Len(r) -> 1 .. Len(p)]
        /\ \A k \in 1 .. Len(r) : r[k] = p[e[k]] /\ r[k] \in R
        /\ \A k, l \in 1 .. Len(r) : k < l => e[k] < e[l]
        /\ \A j \in 1 .. Len(p) : p[j] \in R => \E k \in 1 .. Len(r) : e[k] = j
  <2>1. p \in Seq(0 .. LlmEnd)
    OBVIOUS
  <2> QED  BY ONLY <2>1, FilteredPlaces, SMTT(60)
<1> HIDE DEF r
<1>3. Spaced(r) /\ \A i \in 1 .. Len(r) : s >= r[i] + (Len(r) - i) * LlmInterval
  BY <1>2, PickedPaced
<1>4. ASSUME NEW j \in 1 .. Len(r) PROVE r[j] <= c /\ r[j] + LlmMinute > c
  <2>1. e[j] \in 1 .. Len(p) /\ r[j] = p[e[j]] /\ r[j] \in R
    BY <1>2
  <2>2. r[j] <= c
    BY <2>1
  <2> QED  BY <2>1, <2>2 DEF R
<1> QED  BY <1>1, <1>2, <1>3, <1>4, OnePosted

\* A request is posted.
LEMMA RequestPosted ==
    ASSUME LlmInv, NEW t \in Callers, Posts(t)
    PROVE  LlmInv'
<1>0. CallsTyped /\ StampsOrdered /\ PostsPaced(t)
  BY DEF LlmInv
<1>1. /\ llmCall[t] \in LlmCall /\ UNCHANGED <<provider, stamps, llmClock>> /\ provider = "ollama"
      /\ llmClock \in 0 .. LlmEnd /\ posted[t] \in Seq(0 .. LlmEnd) /\ CallAt(t, "connect")
  BY <1>0 DEF CallsTyped, Posts
<1>2. llmFailures' \in 0 .. LlmFailures
  <2>1. llmFailures \in Nat /\ LlmFailures \in Nat /\ llmFailures <= LlmFailures
    BY <1>0, LlmAssumption DEF CallsTyped
  <2> QED  BY <2>1 DEF Posts
<1>3. PICK d \in LlmCall : CallGoes(t, d) /\ d.at \in {"backoff", "idle"}
  <2>1. CASE CallGoes(t, NoLlmCall)
    BY <2>1, CallsMade
  <2>2. CASE \E after \in {Failed(llmCall[t]), Ended(llmCall[t])} : CallGoes(t, after)
    <3>1. PICK after \in {Failed(llmCall[t]), Ended(llmCall[t])} : CallGoes(t, after)
      BY <2>2
    <3>2. after \in LlmCall /\ after.at \in {"backoff", "idle"}
      <4>1. /\ Ended(llmCall[t]) \in LlmCall /\ Ended(llmCall[t]).at \in {"backoff", "idle"}
            /\ Failed(llmCall[t]) \in LlmCall /\ Failed(llmCall[t]).at \in {"backoff", "idle"}
        BY <1>1, CallsLeft
      <4> QED  BY <4>1
    <3> QED  BY <3>1, <3>2
  <2> QED  BY <2>1, <2>2 DEF Posts
<1>4. /\ llmCall' \in [Callers -> LlmCall] /\ llmCall'[t] = d
      /\ \A u \in Callers \ {t} : llmCall'[u] = llmCall[u]
  BY <1>0, <1>3, CallMoves
<1> DEFINE q == Append(Filtered(posted[t], {x \in 0 .. LlmEnd : x + LlmMinute > llmClock}), llmClock)
<1>5. posted' = [posted EXCEPT ![t] = q]
  BY DEF Posts
<1>6. PICK s \in Int : Paced(t, s)
  BY <1>0, <1>1 DEF PostsPaced
<1>7. s <= llmClock /\ Known(s)
      /\ \A j \in 1 .. Len(posted[t]) : s >= posted[t][j] + (Len(posted[t]) - j) * LlmInterval
  BY <1>1, <1>6 DEF Paced
<1>8. /\ q \in Seq(0 .. LlmEnd) /\ Spaced(q) /\ \A j \in 1 .. Len(q) : q[j] <= llmClock
      /\ \A j \in 1 .. Len(q) : j < Len(q) => s >= q[j] + (Len(q) - 1 - j) * LlmInterval
      /\ Len(q) <= PerMinute + 1
  <2> DEFINE p == posted[t]
  <2>1. p \in Seq(0 .. LlmEnd) /\ Spaced(p) /\ \A j \in 1 .. Len(p) : p[j] <= llmClock
    BY <1>0, <1>1 DEF PostsPaced
  <2>2. \A j \in 1 .. Len(p) : s >= p[j] + (Len(p) - j) * LlmInterval
    BY <1>7
  <2>3. q = Append(Filtered(p, {x \in 0 .. LlmEnd : x + LlmMinute > llmClock}), llmClock)
    OBVIOUS
  <2> HIDE DEF p, q
  <2> QED  BY <1>1, <1>7, <2>1, <2>2, <2>3, RequestsKept
<1> HIDE DEF q
<1>9. posted' \in [Callers -> Seq(0 .. LlmEnd)] /\ posted'[t] = q /\ \A u \in Callers \ {t} : posted'[u] = posted[u]
  BY <1>0, <1>5, <1>8 DEF CallsTyped
<1>10. CallsTyped' /\ StampsOrdered'
  BY <1>0, <1>1, <1>2, <1>3, <1>4, <1>9 DEF CallsTyped, StampsOrdered
<1>11. \A u \in Callers \ {t} : PostsPaced(u)'
  <2>1. \A x \in Int : Known(x) => Known(x)'
    BY <1>1 DEF Known
  <2> QED  BY <1>1, <1>3, <1>9, <2>1, OthersPaced
<1>12. PostsPaced(t)'
  <2>1. Paced(t, s)'
    BY <1>1, <1>3, <1>4, <1>7, <1>8, <1>9 DEF Paced, CallAt, Known
  <2> QED  BY <1>1, <1>8, <1>9, <2>1 DEF PostsPaced, Spaced
<1> QED  BY <1>10, <1>11, <1>12 DEF LlmInv

\* A call of a thread begins.
LEMMA CallBegins ==
    ASSUME LlmInv, NEW t \in Callers, Calls(t)
    PROVE  LlmInv'
<1>1. PICK b \in BOOLEAN : BeginsCall(t, [NoLlmCall EXCEPT !.validated = b])
  BY DEF Calls
<1> DEFINE c == [NoLlmCall EXCEPT !.validated = b]
<1>2. c \in LlmCall /\ BeginsCall(t, c) /\ UNCHANGED <<provider, posted, llmClock, llmFailures>>
  BY <1>1, CallsMade DEF Calls
<1> HIDE DEF c
<1> QED  BY <1>2, AttemptBegins

\* Or an attempt more of it.
LEMMA CallBeginsAgain ==
    ASSUME LlmInv, NEW t \in Callers, TriesAgain(t)
    PROVE  LlmInv'
<1>1. llmCall[t] \in LlmCall /\ BeginsCall(t, llmCall[t]) /\ UNCHANGED <<provider, posted, llmClock, llmFailures>>
  BY DEF TriesAgain, LlmInv, CallsTyped
<1> QED  BY <1>1, AttemptBegins

\* One failure more, of those that there may be
LEMMA FailureCounted ==
    ASSUME CallsTyped, llmFailures > 0, llmFailures' = llmFailures - 1
    PROVE  llmFailures' \in 0 .. LlmFailures
  BY LlmAssumption DEF CallsTyped

\* There is no connection: the call stays where it is, or the attempt fails.
LEMMA ConnectionLost ==
    ASSUME LlmInv, NEW t \in Callers, ConnectionFails(t)
    PROVE  LlmInv'
<1>1. /\ llmCall[t] \in LlmCall /\ llmCall[t].at = "connect" /\ CallsTyped
      /\ UNCHANGED <<provider, stamps, posted, llmClock>> /\ llmFailures > 0 /\ llmFailures' = llmFailures - 1
  BY DEF LlmInv, CallsTyped, ConnectionFails, CallAt
<1>2. llmFailures' \in 0 .. LlmFailures
  BY <1>1, FailureCounted
<1> DEFINE c == llmCall[t]
           d == [c EXCEPT !.conns = @ + 1]
<1>3. CASE c.conns + 1 < Attempts
  <2>1. CallGoes(t, d)
    BY <1>3 DEF ConnectionFails
  <2>2. d \in LlmCall /\ d.at = "connect"
    <3> HIDE DEF c
    <3>1. c \in LlmCall /\ c.at = "connect"
      BY <1>1 DEF c
    <3> QED  BY <1>3, <3>1, CallsLeft
  <2> HIDE DEF d
  <2>3. \A s \in Int : Paced(t, s) => \A j \in 1 .. Len(posted[t]) : s >= posted[t][j] + (Len(posted[t]) - j) * LlmInterval
    BY <1>1 DEF Paced, CallAt
  <2> QED  BY <1>1, <1>2, <2>1, <2>2, <2>3, LimiterLeft
<1>4. CASE ~(c.conns + 1 < Attempts)
  <2> DEFINE f == Failed(c)
  <2>1. CallGoes(t, f)
    BY <1>4 DEF ConnectionFails
  <2>2. f \in LlmCall /\ f.at \in {"backoff", "idle"}
    BY <1>1, CallsLeft
  <2> HIDE DEF f
  <2> QED  BY <1>1, <1>2, <2>1, <2>2, LimiterLeft
<1> QED  BY <1>3, <1>4

\* The SDK of a provider in the cloud answers or not.
LEMMA SdkEnds ==
    ASSUME LlmInv, NEW t \in Callers, SdkReplies(t) \/ SdkRaises(t)
    PROVE  LlmInv'
<1>1. CASE SdkReplies(t)
  <2>1. /\ UNCHANGED <<provider, stamps, posted, llmClock>> /\ llmFailures' \in 0 .. LlmFailures
        /\ CallGoes(t, NoLlmCall)
    BY <1>1 DEF SdkReplies, LlmInv, CallsTyped
  <2> QED  BY <2>1, CallsMade, LimiterLeft
<1>2. CASE SdkRaises(t)
  <2>1. /\ UNCHANGED <<provider, stamps, posted, llmClock>> /\ llmFailures > 0 /\ llmFailures' = llmFailures - 1
        /\ CallsTyped /\ llmCall[t] \in LlmCall /\ CallGoes(t, Ended(llmCall[t]))
    BY <1>2 DEF SdkRaises, LlmInv, CallsTyped
  <2>2. llmFailures' \in 0 .. LlmFailures
    BY <2>1, FailureCounted
  <2> DEFINE f == Ended(llmCall[t])
  <2>3. f \in LlmCall /\ f.at \in {"backoff", "idle"}
    BY <2>1, CallsLeft
  <2>4. CallGoes(t, f)
    BY <2>1
  <2> HIDE DEF f
  <2> QED  BY <2>1, <2>2, <2>3, <2>4, LimiterLeft
<1> QED  BY <1>1, <1>2

\* The clock goes on.
LEMMA ClockTicks ==
    ASSUME LlmInv, LlmTick
    PROVE  LlmInv'
<1>1. /\ CallsTyped /\ StampsOrdered /\ UNCHANGED <<provider, stamps, llmCall, posted, llmFailures>>
      /\ llmClock' = llmClock + 1 /\ llmClock \in Nat /\ llmClock < LlmEnd /\ LlmEnd \in Nat
      /\ \A t \in Callers : llmCall[t].at \notin {"interval", "record"}
      /\ LlmMinute \in Nat /\ LlmInterval \in Nat /\ stamps \in Seq(0 .. LlmEnd)
  BY LlmAssumption, MinuteLong DEF LlmInv, CallsTyped, LlmTick
<1>2. CallsTyped'
  BY <1>1 DEF CallsTyped
<1>3. StampsOrdered'
  <2>1. ASSUME NEW i \in 1 .. Len(stamps) PROVE stamps[i] <= llmClock + 1
    <3>1. stamps[i] \in 0 .. LlmEnd
      BY <1>1, ElementIn
    <3>2. stamps[i] <= llmClock
      BY <1>1 DEF StampsOrdered
    <3> QED  BY <1>1, <3>1, <3>2
  <2> QED  BY <1>1, <2>1 DEF StampsOrdered
<1>4. ASSUME NEW t \in Callers PROVE PostsPaced(t)'
  <2>1. PostsPaced(t) /\ posted[t] \in Seq(0 .. LlmEnd)
    BY <1>1 DEF LlmInv, CallsTyped
  <2>2. ASSUME NEW j \in 1 .. Len(posted[t]) PROVE posted[t][j] <= llmClock + 1
    <3>1. posted[t][j] \in 0 .. LlmEnd
      BY <2>1, ElementIn
    <3>2. posted[t][j] <= llmClock
      BY <2>1 DEF PostsPaced
    <3> QED  BY <1>1, <3>1, <3>2
  <2>3. ASSUME NEW s \in Int, Paced(t, s) PROVE Paced(t, s)'
    <3>1. s <= llmClock' /\ Known(s)'
      BY <1>1, <2>3 DEF Paced, Known
    <3>2. CallAt(t, "sleepInterval")' => llmCall'[t].until >= s + LlmInterval \/ llmClock' >= s + LlmInterval
      BY <1>1, <2>3 DEF Paced, CallAt
    <3>3. ~CallAt(t, "record")'
      BY <1>1 DEF CallAt
    <3>4. \A j \in 1 .. Len(posted'[t]) :
            /\ j < Len(posted'[t]) => s >= posted'[t][j] + (Len(posted'[t]) - 1 - j) * LlmInterval
            /\ CallAt(t, "connect")' => s >= posted'[t][j] + (Len(posted'[t]) - j) * LlmInterval
      BY <1>1, <2>3 DEF Paced, CallAt
    <3> QED  BY <3>1, <3>2, <3>3, <3>4 DEF Paced
  <2> QED  BY <1>1, <2>1, <2>2, <2>3 DEF PostsPaced, Spaced
<1> QED  BY <1>2, <1>3, <1>4 DEF LlmInv

\* At first, no request is of the minute.
LEMMA CallsStart == LlmInit => LlmInv
<1> SUFFICES ASSUME LlmInit PROVE LlmInv
  OBVIOUS
<1>1. /\ stamps = <<>> /\ llmCall = [t \in Callers |-> NoLlmCall] /\ posted = [t \in Callers |-> <<>>]
      /\ llmClock = 0 /\ llmFailures = LlmFailures /\ provider \in {"ollama", "cloud"}
  BY DEF LlmInit
<1>2. /\ NoLlmCall \in LlmCall /\ <<>> \in Seq(0 .. LlmEnd) /\ Len(<<>>) = 0 /\ LlmMinute \in Nat
      /\ LlmEnd \in Nat /\ LlmFailures \in Nat /\ PerMinute \in Nat
  BY CallsMade, MinuteLong, LlmAssumption
<1>3. \A t \in Callers : llmCall[t].at = "idle" /\ posted[t] = <<>>
  BY <1>1, CallsMade
<1>4. CallsTyped
  BY <1>1, <1>2, <1>3 DEF CallsTyped
<1>5. StampsOrdered
  BY <1>1, <1>2 DEF StampsOrdered
<1>6. ASSUME NEW t \in Callers PROVE PostsPaced(t)
  <2> DEFINE s == 0 - LlmMinute - 1
  <2>1. s \in Int /\ s <= llmClock /\ s + LlmMinute < llmClock
    BY <1>1, <1>2
  <2> HIDE DEF s
  <2>2. Paced(t, s)
    BY <1>2, <1>3, <2>1 DEF Paced, Known, CallAt
  <2> QED  BY <1>2, <1>3, <2>1, <2>2 DEF PostsPaced, Spaced
<1> QED  BY <1>4, <1>5, <1>6 DEF LlmInv

\* Every step of the client keeps its pace.
LEMMA CallsStep == LlmInv /\ [LlmNext]_llmVars => LlmInv'
<1> SUFFICES ASSUME LlmInv, [LlmNext]_llmVars PROVE LlmInv'
  OBVIOUS
<1>1. CASE LlmTick
  BY <1>1, ClockTicks
<1>2. ASSUME NEW t \in Callers,
             \/ Calls(t) \/ LooksAtInterval(t)
             \/ Wakes(t, "sleepMinute", "interval") \/ Wakes(t, "sleepInterval", "record")
             \/ RecordsStamp(t) \/ ConnectionFails(t) \/ Posts(t) \/ TriesAgain(t)
             \/ SdkReplies(t) \/ SdkRaises(t)
      PROVE  LlmInv'
  BY <1>2, CallBegins, IntervalLooks, SleeperWakes, StampRecorded, ConnectionLost, RequestPosted,
     CallBeginsAgain, SdkEnds
<1>3. CASE UNCHANGED llmVars
  BY <1>3 DEF LlmInv, CallsTyped, StampsOrdered, PostsPaced, Spaced, Paced, Known, CallAt, llmVars
<1> QED  BY <1>1, <1>2, <1>3 DEF LlmNext

\* What keeps the pace is a state of the client.
LEMMA PaceMeans == LlmInv => LlmTypeOK /\ CallsPolite
  BY DEF LlmInv, CallsTyped, PostsPaced, LlmTypeOK, CallsPolite, LlmCall, CallSteps

\* However the threads interleave at the limiter they share without a lock, and
\* however often the direct answer and generate try again, no thread sends more
\* requests in a minute than are allowed, and one that was late.
THEOREM CallsStayPolite == LlmSpec => []CallsPolite
<1>1. LlmSpec => []LlmInv
  BY CallsStart, CallsStep, PTL DEF LlmSpec
<1> QED  BY <1>1, PaceMeans, PTL

\* The counters of attempts, inner and outer, keep to their bounds.
THEOREM CallTypesHold == LlmSpec => []LlmTypeOK
<1>1. LlmSpec => []LlmInv
  BY CallsStart, CallsStep, PTL DEF LlmSpec
<1> QED  BY <1>1, PaceMeans, PTL

-----------------------------------------------------------------------------
\* A list of some elements of a set, all of them of a smaller one
LEMMA NarrowedList ==
    ASSUME NEW T, NEW U, NEW s \in Seq(T), \A i \in 1 .. Len(s) : s[i] \in U
    PROVE  s \in Seq(U)
  OBVIOUS

\* What is left of a list without the blacklisted.
LEMMA AllowedFacts ==
    ASSUME NEW raw \in Seq(Urls)
    PROVE  Allowed(raw) \in Seq(Urls \ Blacklisted) /\ Len(Allowed(raw)) <= Len(raw)
<1> DEFINE S == Urls \ Blacklisted
           r == Filtered(raw, S)
<1>1. PICK e :
        /\ r \in Seq(Urls)
        /\ e \in [1 .. Len(r) -> 1 .. Len(raw)]
        /\ \A n \in 1 .. Len(r) : r[n] = raw[e[n]] /\ r[n] \in S
        /\ \A k, n \in 1 .. Len(r) : k < n => e[k] < e[n]
        /\ \A j \in 1 .. Len(raw) : raw[j] \in S => \E n \in 1 .. Len(r) : e[n] = j
  <2> HIDE DEF S
  <2>1. raw \in Seq(Urls)
    OBVIOUS
  <2> QED  BY ONLY <2>1, FilteredPlaces, SMTT(60)
<1>2. Len(r) <= Len(raw)
  <2> HIDE DEF S
  <2> QED  BY FilteredFacts
<1> HIDE DEF r
<1>3. r \in Seq(S)
  BY <1>1, NarrowedList
<1> QED  BY <1>2, <1>3 DEF Allowed, r

\* A ranking has the same elements, so the same sites.
LEMMA RankedFacts ==
    ASSUME NEW T, NEW s \in Seq(T), NEW ranked \in Rankings(s)
    PROVE  ranked \in Seq(T) /\ Len(ranked) = Len(s) /\ SitesOf(ranked) = SitesOf(s)
<1> DEFINE n == Len(s)
<1>1. n \in Nat /\ DOMAIN s = 1 .. n
  OBVIOUS
<1>2. PICK p \in [1 .. n -> 1 .. n] : IsInjective(p) /\ ranked = [i \in 1 .. n |-> s[p[i]]]
  BY <1>1 DEF Rankings
<1>3. ranked \in Seq(T) /\ Len(ranked) = n /\ \A i \in 1 .. n : ranked[i] = s[p[i]]
  <2>1. \A i \in 1 .. n : p[i] \in 1 .. n /\ s[p[i]] \in T
    BY <1>2, ElementIn
  <2> DEFINE g == [i \in 1 .. n |-> s[p[i]]]
  <2>2. g \in [1 .. n -> T] /\ \A i \in 1 .. n : g[i] = s[p[i]]
    BY <2>1
  <2> HIDE DEF g, n
  <2>3. g \in Seq(T) /\ Len(g) = n
    BY <1>1, <2>2
  <2> QED  BY <1>2, <2>2, <2>3 DEF g
<1>4. ASSUME NEW j \in 1 .. n PROVE \E i \in 1 .. n : p[i] = j
  <2> SUFFICES ASSUME \A i \in 1 .. n : p[i] # j PROVE FALSE
    OBVIOUS
  <2> DEFINE S == 1 .. n
  <2>1. IsFiniteSet(S) /\ Cardinality(S) \in Nat
    BY <1>1, FS_Interval, FS_CardinalityType
  <2>2. IsFiniteSet(S \ {j}) /\ Cardinality(S \ {j}) = Cardinality(S) - 1
    BY <2>1, FS_RemoveElement
  <2>3. Cardinality(S \ {j}) < Cardinality(S)
    BY <2>1, <2>2
  <2>4. p \in [S -> S \ {j}]
    BY <1>2
  <2>5. \E x, y \in S : x # y /\ p[x] = p[y]
    <3> HIDE DEF S
    <3> QED  BY <2>1, <2>2, <2>3, <2>4, FS_PigeonHole
  <2> QED  BY <1>2, <2>5 DEF IsInjective
<1>5. SitesOf(ranked) = SitesOf(s)
  <2>1. DOMAIN ranked = 1 .. n
    BY <1>2
  <2>2. SitesOf(ranked) \subseteq SitesOf(s)
    BY <1>1, <1>2, <1>3, <2>1 DEF SitesOf
  <2>3. SitesOf(s) \subseteq SitesOf(ranked)
    <3> SUFFICES ASSUME NEW j \in 1 .. n PROVE SiteOf[s[j]] \in SitesOf(ranked)
      BY <1>1 DEF SitesOf
    <3>1. PICK i \in 1 .. n : p[i] = j
      BY <1>4
    <3>2. ranked[i] = s[j]
      BY <1>3, <3>1
    <3> QED  BY <2>1, <3>2 DEF SitesOf
  <2> QED  BY <2>2, <2>3
<1> QED  BY <1>3, <1>5

\* Without repetitions, every element is at its place or earlier.
LEMMA UniqueFacts ==
    ASSUME NEW T, NEW s \in Seq(T)
    PROVE  /\ Unique(s) \in Seq(T) /\ Len(Unique(s)) <= Len(s)
           /\ \A k \in 1 .. Len(s) : \E n \in 1 .. Len(Unique(s)) : n <= k /\ Unique(s)[n] = s[k]
<1> DEFINE l == Len(s)
           places == [i \in 1 .. l |-> i]
           new == {i \in 1 .. l : \A j \in 1 .. i - 1 : s[j] # s[i]}
           first == Filtered(places, new)
<1>1. l \in Nat /\ DOMAIN s = 1 .. l
  OBVIOUS
<1>2. places \in Seq(1 .. l) /\ Len(places) = l /\ \A i \in 1 .. l : places[i] = i
  BY <1>1
<1> HIDE DEF places
<1>3. PICK e :
        /\ first \in Seq(1 .. l)
        /\ e \in [1 .. Len(first) -> 1 .. Len(places)]
        /\ \A n \in 1 .. Len(first) : first[n] = places[e[n]] /\ first[n] \in new
        /\ \A k, n \in 1 .. Len(first) : k < n => e[k] < e[n]
        /\ \A j \in 1 .. Len(places) : places[j] \in new => \E n \in 1 .. Len(first) : e[n] = j
  <2> HIDE DEF new, l
  <2>1. places \in Seq(1 .. l)
    BY <1>2
  <2> QED  BY ONLY <2>1, FilteredPlaces, SMTT(60)
<1>4. Len(first) <= l
  <2> HIDE DEF new, l
  <2> QED  BY <1>2, FilteredFacts
<1>5. Unique(s) = [n \in DOMAIN first |-> s[first[n]]]
  BY <1>1 DEF Unique, places
<1> HIDE DEF first, new
<1> DEFINE c == Len(first)
<1>6. c \in Nat /\ DOMAIN first = 1 .. c /\ \A n \in 1 .. c : first[n] = e[n] /\ e[n] \in 1 .. l
  <2>1. c \in Nat /\ DOMAIN first = 1 .. c
    BY <1>3
  <2>2. \A n \in 1 .. c : e[n] \in 1 .. l
    BY <1>2, <1>3
  <2> QED  BY <1>2, <1>3, <2>1, <2>2
<1>7. /\ Unique(s) \in Seq(T) /\ Len(Unique(s)) = c
      /\ \A n \in 1 .. c : Unique(s)[n] = s[e[n]]
  BY <1>5, <1>6
<1>8. \A n \in 1 .. c : n <= e[n]
  <2>1. e \in [1 .. c -> 1 .. l] /\ \A k, n \in 1 .. c : k < n => e[k] < e[n]
    BY <1>2, <1>3
  <2> HIDE DEF c, l
  <2> QED  BY <1>1, <1>6, <2>1, PlacesAdvance
<1>9. ASSUME NEW k \in 1 .. l PROVE \E n \in 1 .. c : n <= k /\ Unique(s)[n] = s[k]
  <2> DEFINE same == {j \in 1 .. k : s[j] = s[k]}
  <2>1. same \subseteq Nat /\ same # {}
    BY <1>1
  <2>2. PICK m \in same : \A j \in same : m <= j
    <3> HIDE DEF same
    <3> QED  BY <2>1, Smallest
  <2>3. m \in 1 .. l /\ m <= k /\ s[m] = s[k]
    BY <1>1, <2>2
  <2>4. m \in new
    <3>1. ASSUME NEW j \in 1 .. m - 1, s[j] = s[m] PROVE FALSE
      <4>1. j \in same /\ ~ (m <= j)
        BY <2>3, <3>1
      <4> QED  BY <2>2, <4>1
    <3> QED  BY <2>3, <3>1 DEF new
  <2>5. PICK n \in 1 .. c : e[n] = m
    BY <1>2, <1>3, <2>3, <2>4
  <2> QED  BY <1>6, <1>7, <1>8, <2>3, <2>5
<1> QED  BY <1>4, <1>7, <1>9

\* The first n elements.
LEMMA CutFacts ==
    ASSUME NEW T, NEW s \in Seq(T), NEW n \in Nat
    PROVE  /\ Cut(s, n) \in Seq(T) /\ Len(Cut(s, n)) <= n /\ Len(Cut(s, n)) <= Len(s)
           /\ \A i \in 1 .. Len(s) : i <= n => i \in 1 .. Len(Cut(s, n)) /\ Cut(s, n)[i] = s[i]
<1> DEFINE m == IF Len(s) < n THEN Len(s) ELSE n
<1>1. m \in Nat /\ m <= n /\ m <= Len(s) /\ \A i \in 1 .. Len(s) : i <= n => i \in 1 .. m
  OBVIOUS
<1>2. Cut(s, n) = SubSeq(s, 1, m)
  BY DEF Cut
<1> HIDE DEF m
<1>3. SubSeq(s, 1, m) \in Seq(T) /\ Len(SubSeq(s, 1, m)) = m /\ \A i \in 1 .. m : SubSeq(s, 1, m)[i] = s[i]
  BY <1>1
<1> QED  BY <1>1, <1>2, <1>3

\* A result of the site among as many at the front as there are wanted sites
Early(list, site) ==
    \E k \in 1 .. Len(Wanted) : k <= Len(list) /\ SiteOf[list[k]] = site

Safe == Urls \ Blacklisted

\* What the assumption says of the limits.
LEMMA AnswerLimits ==
    /\ Wanted \in Seq(ToSet(Wanted)) /\ Len(Wanted) \in Nat
    /\ Retries \in Nat /\ MaxResults \in Nat /\ SessionMax \in Nat /\ ContextMax \in Nat /\ QuestionsMax \in Nat
    /\ Len(Wanted) <= MaxResults /\ Len(Wanted) <= SessionMax /\ Len(Wanted) <= ContextMax
    /\ Blacklisted \subseteq Urls
<1>1. Wanted \in Seq(ToSet(Wanted))
  BY AnswersAssumption, Zenon DEF AnswersAssumption
<1>2. {Retries, MaxResults, SessionMax, ContextMax, QuestionsMax} \subseteq Nat
  BY AnswersAssumption, Zenon DEF AnswersAssumption
<1>3. /\ Len(Wanted) <= MaxResults /\ Len(Wanted) <= SessionMax /\ Len(Wanted) <= ContextMax
      /\ Blacklisted \subseteq Urls
  BY AnswersAssumption, Zenon DEF AnswersAssumption
<1> QED  BY <1>1, <1>2, <1>3

\* The wanted sites that a list has come to its front.
LEMMA PromotedFacts ==
    ASSUME NEW s \in Seq(Safe)
    PROVE  /\ Promoted(s) \in Seq(Safe)
           /\ \A i \in 1 .. Len(Wanted) : Wanted[i] \in SitesOf(s) => Early(Promoted(s), Wanted[i])
<1> DEFINE W == ToSet(Wanted)
           D == SitesOf(s)
           matching == Filtered(Wanted, D)
           Has(i, site) == SiteOf[s[i]] = site /\ \A j \in 1 .. i - 1 : SiteOf[s[j]] # site
           firstOf(site) == s[CHOOSE i \in DOMAIN s : Has(i, site)]
           front == [i \in DOMAIN matching |-> firstOf(matching[i])]
           B == Urls \ {front[i] : i \in DOMAIN front}
           rest == Filtered(s, B)
<1>0. Wanted \in Seq(W) /\ DOMAIN s = 1 .. Len(s) /\ Len(s) \in Nat
  BY AnswerLimits
<1>1. PICK e :
        /\ matching \in Seq(W)
        /\ e \in [1 .. Len(matching) -> 1 .. Len(Wanted)]
        /\ \A n \in 1 .. Len(matching) : matching[n] = Wanted[e[n]] /\ matching[n] \in D
        /\ \A k, n \in 1 .. Len(matching) : k < n => e[k] < e[n]
        /\ \A j \in 1 .. Len(Wanted) : Wanted[j] \in D => \E n \in 1 .. Len(matching) : e[n] = j
  <2> HIDE DEF W, D
  <2> QED  BY ONLY <1>0, FilteredPlaces, SMTT(60)
<1>2. Len(matching) <= Len(Wanted)
  <2> HIDE DEF W, D
  <2> QED  BY <1>0, FilteredFacts
<1>3. Promoted(s) = front \o rest
  BY DEF Promoted
<1>4. ASSUME NEW site \in D PROVE firstOf(site) \in Safe /\ SiteOf[firstOf(site)] = site
  <2> DEFINE at == {i \in 1 .. Len(s) : SiteOf[s[i]] = site}
  <2>1. at \subseteq Nat /\ at # {}
    BY <1>0 DEF SitesOf
  <2>2. PICK i \in at : \A j \in at : i <= j
    <3> HIDE DEF at
    <3> QED  BY <2>1, Smallest
  <2>3. i \in DOMAIN s /\ Has(i, site)
    <3>1. ASSUME NEW j \in 1 .. i - 1, SiteOf[s[j]] = site PROVE FALSE
      <4>1. j \in at /\ ~ (i <= j)
        BY <1>0, <2>2, <3>1
      <4> QED  BY <2>2, <4>1
    <3> QED  BY <1>0, <2>2, <3>1
  <2> DEFINE c == CHOOSE m \in DOMAIN s : Has(m, site)
  <2>4. c \in DOMAIN s /\ Has(c, site)
    <3> HIDE DEF Has
    <3> QED  BY <2>3
  <2> HIDE DEF c
  <2>5. s[c] \in Safe /\ SiteOf[s[c]] = site
    BY <1>0, <2>4, ElementIn
  <2> QED  BY <2>5 DEF c
<1> HIDE DEF matching, D
<1>5. DOMAIN matching = 1 .. Len(matching) /\ Len(matching) \in Nat
  BY <1>1
<1>6. /\ front \in Seq(Safe) /\ Len(front) = Len(matching)
      /\ \A n \in 1 .. Len(matching) : SiteOf[front[n]] = matching[n]
  <2> HIDE DEF firstOf
  <2>1. \A n \in 1 .. Len(matching) : firstOf(matching[n]) \in Safe /\ SiteOf[firstOf(matching[n])] = matching[n]
    BY <1>1, <1>4
  <2>2. front = [i \in 1 .. Len(matching) |-> firstOf(matching[i])]
    BY <1>5
  <2>3. front \in [1 .. Len(matching) -> Safe] /\ \A n \in 1 .. Len(matching) : front[n] = firstOf(matching[n])
    BY <2>1, <2>2
  <2> HIDE DEF front
  <2>4. front \in Seq(Safe) /\ Len(front) = Len(matching)
    BY <1>5, <2>3
  <2> QED  BY <2>1, <2>3, <2>4
<1>7. rest \in Seq(Safe)
  <2> HIDE DEF B
  <2> QED  BY FilteredFacts
<1> HIDE DEF front, rest
<1>8. front \o rest \in Seq(Safe) /\ Len(front) <= Len(front \o rest) /\ \A n \in 1 .. Len(front) : (front \o rest)[n] = front[n]
  BY <1>6, <1>7
<1>9. ASSUME NEW i \in 1 .. Len(Wanted), Wanted[i] \in D PROVE Early(front \o rest, Wanted[i])
  <2>1. PICK n \in 1 .. Len(matching) : e[n] = i
    BY <1>1, <1>9
  <2>2. n \in 1 .. Len(Wanted)
    <3>1. Len(Wanted) \in Nat
      BY <1>0
    <3> QED  BY <1>2, <1>5, <3>1
  <2>3. n \in 1 .. Len(front) /\ SiteOf[front[n]] = Wanted[i]
    BY <1>1, <1>6, <2>1
  <2>4. n <= Len(front \o rest) /\ SiteOf[(front \o rest)[n]] = Wanted[i]
    <3>1. Len(front) \in Nat /\ Len(front \o rest) \in Nat
      BY <1>5, <1>6, <1>8
    <3> QED  BY <1>8, <2>3, <3>1
  <2> QED  BY <2>2, <2>4 DEF Early
<1> QED  BY <1>3, <1>8, <1>9 DEF D

\* What is early stays where there is room for all the wanted sites.
LEMMA EarlyCut ==
    ASSUME NEW T, NEW s \in Seq(T), NEW n \in Nat, Len(Wanted) <= n, NEW site, Early(s, site)
    PROVE  Early(Cut(s, n), site)
<1>1. PICK k \in 1 .. Len(Wanted) : k <= Len(s) /\ SiteOf[s[k]] = site
  BY DEF Early
<1>2. Len(Wanted) \in Nat
  BY AnswerLimits
<1>3. k \in 1 .. Len(s) /\ k <= n
  BY <1>1, <1>2
<1>4. k \in 1 .. Len(Cut(s, n)) /\ Cut(s, n)[k] = s[k] /\ Len(Cut(s, n)) \in Nat
  BY <1>3, CutFacts
<1> QED  BY <1>1, <1>4 DEF Early

\* And where each result is kept once.
LEMMA EarlyUnique ==
    ASSUME NEW T, NEW s \in Seq(T), NEW site, Early(s, site)
    PROVE  Early(Unique(s), site)
<1>1. PICK k \in 1 .. Len(Wanted) : k <= Len(s) /\ SiteOf[s[k]] = site
  BY DEF Early
<1>2. Len(Wanted) \in Nat /\ k \in 1 .. Len(s)
  BY <1>1
<1>3. PICK n \in 1 .. Len(Unique(s)) : n <= k /\ Unique(s)[n] = s[k]
  BY <1>2, UniqueFacts
<1>4. n \in 1 .. Len(Wanted) /\ n <= Len(Unique(s))
  <2>1. Unique(s) \in Seq(T)
    BY UniqueFacts
  <2>2. Len(Unique(s)) \in Nat
    BY <2>1
  <2> QED  BY <1>2, <1>3, <2>2
<1> QED  BY <1>1, <1>3, <1>4 DEF Early

\* What search_with_fallback returns: of every wanted site there is, a result.
LEMMA BestFacts ==
    ASSUME NEW s \in Seq(Safe)
    PROVE  /\ Best(s) \in Seq(Safe) /\ Len(Best(s)) <= MaxResults
           /\ \A i \in 1 .. Len(Wanted) : Wanted[i] \in SitesOf(s) => Early(Best(s), Wanted[i])
<1>1. MaxResults \in Nat /\ Len(Wanted) <= MaxResults
  BY AnswerLimits
<1>2. Promoted(s) \in Seq(Safe)
  BY PromotedFacts
<1>3. Best(s) \in Seq(Safe) /\ Len(Best(s)) <= MaxResults
  BY <1>1, <1>2, CutFacts DEF Best
<1>4. ASSUME NEW i \in 1 .. Len(Wanted), Wanted[i] \in SitesOf(s) PROVE Early(Best(s), Wanted[i])
  <2>1. Early(Promoted(s), Wanted[i])
    BY <1>4, PromotedFacts
  <2>2. Early(Cut(Promoted(s), MaxResults), Wanted[i])
    BY <1>1, <1>2, <2>1, EarlyCut
  <2> QED  BY <2>2 DEF Best
<1> QED  BY <1>3, <1>4

-----------------------------------------------------------------------------
JobRecord ==
    [at : {"idle", "search", "promote", "brave", "serper", "store", "generate", "load", "finish"},
     tool : {"none", "wiki", "rag", "web", "pages", "connection"}, tries : 0 .. Retries,
     missing : Seq(ToSet(Wanted)), results : Seq(Safe), extra : Seq(Safe),
     numbers : SUBSET (1 .. SessionMax), found : SUBSET {SiteOf[url] : url \in Urls}]

\* While it searches and until it ranks, a question has the sites that were found
\* in its two lists; from the ranking to the model, the wanted ones of them at the
\* front.
JobOK(j) ==
    /\ Len(j.results) <= MaxResults
    /\ j.at = "search" =>
         /\ j.missing = <<>> => j.results = <<>> /\ j.extra = <<>>
         /\ j.missing # <<>> => j.results # <<>>
    /\ j.at \in {"search", "promote"} => j.found = SitesOf(j.results) \union SitesOf(j.extra)
    /\ j.at \in {"brave", "serper"} => j.found = {}
    /\ j.at = "store" => \A i \in 1 .. Len(Wanted) : Wanted[i] \in j.found => Early(j.results, Wanted[i])
    /\ j.at = "generate" => \A i \in 1 .. Len(Wanted) : Wanted[i] \in j.found => Wanted[i] \in SitesOf(j.results)

AnswersTyped ==
    /\ webJob \in [Searchers -> JobRecord]
    /\ sessionResults \in Seq(Safe) /\ Len(sessionResults) <= SessionMax
    /\ loadedPages \in [1 .. SessionMax -> Urls \union {NoPage}]
    /\ questions \in 0 .. QuestionsMax

AnswersInv == AnswersTyped /\ \A a \in Searchers : JobOK(webJob[a])

\* The sites of a list are sites of URLs; of no list there are none.
LEMMA SitesFacts ==
    /\ \A s \in Seq(Safe) : SitesOf(s) \subseteq {SiteOf[url] : url \in Urls}
    /\ SitesOf(<<>>) = {} /\ <<>> \in Seq(Safe) /\ Len(<<>>) = 0 /\ <<>> \in Seq(ToSet(Wanted))
    /\ \A s, t \in Seq(Safe) : s \o t \in Seq(Safe) /\ SitesOf(s \o t) = SitesOf(s) \union SitesOf(t)
<1>1. ASSUME NEW s \in Seq(Safe) PROVE SitesOf(s) \subseteq {SiteOf[url] : url \in Urls}
  <2>1. \A i \in DOMAIN s : s[i] \in Urls
    BY <1>1 DEF Safe
  <2> QED  BY <2>1 DEF SitesOf
<1>2. SitesOf(<<>>) = {} /\ <<>> \in Seq(Safe) /\ Len(<<>>) = 0 /\ <<>> \in Seq(ToSet(Wanted))
  BY DEF SitesOf
<1>3. ASSUME NEW s \in Seq(Safe), NEW t \in Seq(Safe)
      PROVE  s \o t \in Seq(Safe) /\ SitesOf(s \o t) = SitesOf(s) \union SitesOf(t)
  <2> DEFINE u == s \o t
  <2>1. /\ u \in Seq(Safe) /\ Len(u) = Len(s) + Len(t) /\ Len(s) \in Nat /\ Len(t) \in Nat
        /\ (\A i \in 1 .. Len(s) : u[i] = s[i]) /\ \A i \in 1 .. Len(t) : u[Len(s) + i] = t[i]
        /\ DOMAIN u = 1 .. Len(u) /\ DOMAIN s = 1 .. Len(s) /\ DOMAIN t = 1 .. Len(t)
    OBVIOUS
  <2> HIDE DEF u
  <2>0. /\ SitesOf(u) = {SiteOf[u[i]] : i \in 1 .. Len(u)} /\ SitesOf(s) = {SiteOf[s[i]] : i \in 1 .. Len(s)}
        /\ SitesOf(t) = {SiteOf[t[i]] : i \in 1 .. Len(t)}
    BY <2>1 DEF SitesOf
  <2>2. SitesOf(u) \subseteq SitesOf(s) \union SitesOf(t)
    <3> SUFFICES ASSUME NEW i \in 1 .. Len(u) PROVE SiteOf[u[i]] \in SitesOf(s) \union SitesOf(t)
      BY <2>0
    <3>1. CASE i \in 1 .. Len(s)
      <4>1. u[i] = s[i]
        BY <2>1, <3>1
      <4> QED  BY <2>0, <3>1, <4>1
    <3>2. CASE i \notin 1 .. Len(s)
      <4>1. i - Len(s) \in 1 .. Len(t) /\ Len(s) + (i - Len(s)) = i
        BY <2>1, <3>2
      <4>2. u[i] = t[i - Len(s)]
        BY <2>1, <4>1
      <4> QED  BY <2>0, <4>1, <4>2
    <3> QED  BY <3>1, <3>2
  <2>3. SitesOf(s) \subseteq SitesOf(u)
    <3> SUFFICES ASSUME NEW i \in 1 .. Len(s) PROVE SiteOf[s[i]] \in SitesOf(u)
      BY <2>0
    <3>1. i \in 1 .. Len(u) /\ u[i] = s[i]
      BY <2>1
    <3> QED  BY <2>0, <3>1
  <2>4. SitesOf(t) \subseteq SitesOf(u)
    <3> SUFFICES ASSUME NEW i \in 1 .. Len(t) PROVE SiteOf[t[i]] \in SitesOf(u)
      BY <2>0
    <3>1. Len(s) + i \in 1 .. Len(u) /\ u[Len(s) + i] = t[i]
      BY <2>1
    <3> QED  BY <2>0, <3>1
  <2> QED  BY <2>1, <2>2, <2>3, <2>4 DEF u
<1> QED  BY <1>1, <1>2, <1>3

\* What is asked is bounded, and all that there is to find.
LEMMA ResultsListed ==
    ASSUME NEW raw \in Results
    PROVE  raw \in Seq(Urls) /\ Len(raw) <= MaxResults
<1>1. PICK m \in 0 .. MaxResults : raw \in [1 .. m -> Urls]
  BY DEF Results, BoundedSeq, SeqOf
<1>2. m \in Nat /\ m <= MaxResults
  BY <1>1, AnswerLimits
<1> QED  BY <1>1, <1>2

\* The ranking of what a search gave.
LEMMA AnswerFacts ==
    ASSUME NEW raw \in Results, NEW ranked \in Rankings(Allowed(raw))
    PROVE  ranked \in Seq(Safe) /\ Len(ranked) <= MaxResults
<1>1. raw \in Seq(Urls) /\ Len(raw) <= MaxResults
  BY ResultsListed
<1>2. Allowed(raw) \in Seq(Safe) /\ Len(Allowed(raw)) <= Len(raw)
  BY <1>1, AllowedFacts DEF Safe
<1>3. ranked \in Seq(Safe) /\ Len(ranked) = Len(Allowed(raw))
  BY <1>2, RankedFacts
<1>4. Len(raw) \in Nat /\ Len(Allowed(raw)) \in Nat
  BY <1>1, <1>2
<1> QED  BY <1>1, <1>2, <1>3, <1>4, AnswerLimits

\* One question moves on.
LEMMA JobMoves ==
    ASSUME AnswersInv, NEW a \in Searchers, NEW j \in JobRecord, JobOK(j), webJob' = [webJob EXCEPT ![a] = j],
           sessionResults' \in Seq(Safe), Len(sessionResults') <= SessionMax,
           loadedPages' \in [1 .. SessionMax -> Urls \union {NoPage}], questions' \in 0 .. QuestionsMax
    PROVE  AnswersInv'
<1>1. webJob' \in [Searchers -> JobRecord] /\ webJob'[a] = j /\ \A b \in Searchers \ {a} : webJob'[b] = webJob[b]
  BY DEF AnswersInv, AnswersTyped
<1>2. ASSUME NEW b \in Searchers PROVE JobOK(webJob'[b])
  <2>1. CASE b = a
    BY <1>1, <2>1
  <2>2. CASE b # a
    BY <1>1, <2>2 DEF AnswersInv
  <2> QED  BY <2>1, <2>2
<1>3. \A b \in Searchers : JobOK(webJob[b])'
  BY <1>2 DEF JobOK, Early, SitesOf
<1> QED  BY <1>1, <1>3 DEF AnswersInv, AnswersTyped

\* After a search, for the question or for a site.
LEMMA SearchMoves ==
    ASSUME AnswersInv, NEW a \in Searchers, webJob[a].at = "search",
           NEW ranked \in Seq(Safe), Len(ranked) <= MaxResults, Found(a, ranked),
           UNCHANGED <<sessionResults, loadedPages, questions>>
    PROVE  AnswersInv'
<1> DEFINE o == webJob[a]
<1>1. o \in JobRecord /\ JobOK(o)
  BY DEF AnswersInv, AnswersTyped
<1>2. /\ sessionResults' \in Seq(Safe) /\ Len(sessionResults') <= SessionMax
      /\ loadedPages' \in [1 .. SessionMax -> Urls \union {NoPage}] /\ questions' \in 0 .. QuestionsMax
  BY DEF AnswersInv, AnswersTyped
<1>3. PICK list \in Seq(Safe), extra \in Seq(Safe), missing \in Seq(ToSet(Wanted)) :
         /\ NextSearch(a, list, extra, missing, ranked) /\ Len(list) <= MaxResults
         /\ o.found \union SitesOf(ranked) = SitesOf(list) \union SitesOf(extra)
         /\ list = <<>> => extra = <<>>
  <2>1. CASE o.missing = <<>>
    <3> DEFINE left == Filtered(Wanted, ToSet(Wanted) \ SitesOf(ranked))
    <3>1. left \in Seq(ToSet(Wanted))
      <4> DEFINE W == ToSet(Wanted)
                 D == W \ SitesOf(ranked)
      <4>1. Wanted \in Seq(W)
        BY AnswerLimits
      <4> HIDE DEF W, D
      <4>2. Filtered(Wanted, D) \in Seq(W)
        BY <4>1, FilteredFacts
      <4> QED  BY <4>2 DEF W, D
    <3>2. o.found = {}
      <4>1. o.results = <<>> /\ o.extra = <<>> /\ o.found = SitesOf(o.results) \union SitesOf(o.extra)
        BY <1>1, <2>1 DEF JobOK
      <4> QED  BY <4>1, SitesFacts
    <3>3. NextSearch(a, ranked, <<>>, left, ranked)
      BY <2>1 DEF Found
    <3>4. o.found \union SitesOf(ranked) = SitesOf(ranked) \union SitesOf(<<>>) /\ <<>> \in Seq(Safe)
      BY <3>2, SitesFacts
    <3> HIDE DEF left, o
    <3> QED  BY <3>1, <3>3, <3>4
  <2>2. CASE o.missing # <<>>
    <3>1. NextSearch(a, o.results, o.extra \o ranked, Tail(o.missing), ranked)
      BY <2>2 DEF Found
    <3>2. o.results \in Seq(Safe) /\ o.extra \in Seq(Safe) /\ o.missing \in Seq(ToSet(Wanted)) /\ Len(o.results) <= MaxResults
      BY <1>1 DEF JobRecord, JobOK
    <3>3. Tail(o.missing) \in Seq(ToSet(Wanted))
      BY <2>2, <3>2, Shortened
    <3>4. o.found = SitesOf(o.results) \union SitesOf(o.extra) /\ o.results # <<>>
      BY <1>1, <2>2 DEF JobOK
    <3>5. o.extra \o ranked \in Seq(Safe) /\ SitesOf(o.extra \o ranked) = SitesOf(o.extra) \union SitesOf(ranked)
      BY <3>2, SitesFacts
    <3> HIDE DEF o
    <3> QED  BY <3>1, <3>2, <3>3, <3>4, <3>5
  <2> QED  BY <2>1, <2>2
<1> DEFINE at == IF list = <<>> THEN "brave" ELSE IF missing = <<>> THEN "promote" ELSE "search"
           found == o.found \union SitesOf(ranked)
           j == [o EXCEPT !.at = at, !.tries = 0, !.results = list, !.extra = extra,
                          !.missing = missing, !.found = found]
<1> HIDE DEF at, found
<1>4. found = SitesOf(list) \union SitesOf(extra) /\ found \subseteq {SiteOf[url] : url \in Urls}
  BY <1>3, SitesFacts DEF found
<1>5. webJob' = [webJob EXCEPT ![a] = j]
  BY <1>3 DEF NextSearch, at, found
<1>6. at \in {"brave", "promote", "search"}
  BY DEF at
<1>7. j \in JobRecord
  <2>1. 0 \in 0 .. Retries
    BY AnswerLimits
  <2> QED  BY <1>1, <1>4, <1>6, <2>1 DEF JobRecord
<1>8. j.at = at /\ j.results = list /\ j.extra = extra /\ j.missing = missing /\ j.found = found
  BY <1>1 DEF JobRecord
<1> HIDE DEF j, o
<1>9. at = "brave" => found = {}
  <2>1. at = "brave" => list = <<>> /\ extra = <<>>
    BY <1>3 DEF at
  <2> QED  BY <1>4, <2>1, SitesFacts
<1>10. at = "search" => missing # <<>> /\ list # <<>>
  BY DEF at
<1>11. JobOK(j)
  BY <1>3, <1>4, <1>6, <1>8, <1>9, <1>10 DEF JobOK
<1> QED  BY <1>2, <1>5, <1>7, <1>11, JobMoves

\* What the ranking of the list merged with those of the site searches returns.
LEMMA PromoteMoves ==
    ASSUME AnswersInv, NEW a \in Searchers, Promotes(a)
    PROVE  AnswersInv'
<1> DEFINE o == webJob[a]
<1>1. o \in JobRecord /\ JobOK(o) /\ o.at = "promote"
  BY DEF AnswersInv, AnswersTyped, Promotes
<1>2. /\ sessionResults' \in Seq(Safe) /\ Len(sessionResults') <= SessionMax
      /\ loadedPages' \in [1 .. SessionMax -> Urls \union {NoPage}] /\ questions' \in 0 .. QuestionsMax
  BY DEF AnswersInv, AnswersTyped, Promotes
<1>3. /\ o.results \in Seq(Safe) /\ o.extra \in Seq(Safe)
      /\ o.found = SitesOf(o.results) \union SitesOf(o.extra)
  BY <1>1 DEF JobRecord, JobOK
<1>4. PICK ranked \in IF o.extra = <<>> THEN {o.results} ELSE Rankings(Unique(o.results \o o.extra)) :
        webJob' = [webJob EXCEPT ![a].at = "store", ![a].results = Best(ranked), ![a].extra = <<>>]
  BY DEF Promotes
<1> DEFINE best == Best(ranked)
           j == [o EXCEPT !.at = "store", !.results = best, !.extra = <<>>]
<1>5. webJob' = [webJob EXCEPT ![a] = j]
  BY <1>4 DEF AnswersInv, AnswersTyped
<1> HIDE DEF o, best
<1>6. ranked \in Seq(Safe) /\ o.found \subseteq SitesOf(ranked)
  <2>1. CASE o.extra = <<>>
    <3>1. ranked = o.results /\ SitesOf(o.extra) = {}
      BY <1>4, <2>1, SitesFacts
    <3> QED  BY <1>3, <3>1
  <2>2. CASE o.extra # <<>>
    <3> DEFINE u == o.results \o o.extra
               v == Unique(u)
    <3>1. ranked \in Rankings(v)
      BY <1>4, <2>2
    <3>2. u \in Seq(Safe) /\ SitesOf(u) = o.found
      BY <1>3, SitesFacts
    <3> HIDE DEF u
    <3>3. v \in Seq(Safe) /\ \A k \in 1 .. Len(u) : \E n \in 1 .. Len(v) : v[n] = u[k]
      BY <3>2, UniqueFacts
    <3> HIDE DEF v
    <3>4. ranked \in Seq(Safe) /\ SitesOf(ranked) = SitesOf(v)
      BY <3>1, <3>3, RankedFacts
    <3>5. SitesOf(u) \subseteq SitesOf(v)
      <4>1. DOMAIN u = 1 .. Len(u) /\ DOMAIN v = 1 .. Len(v)
        BY <3>2, <3>3
      <4>2. SitesOf(u) = {SiteOf[u[i]] : i \in 1 .. Len(u)} /\ SitesOf(v) = {SiteOf[v[i]] : i \in 1 .. Len(v)}
        BY <4>1 DEF SitesOf
      <4>3. ASSUME NEW k \in 1 .. Len(u) PROVE SiteOf[u[k]] \in SitesOf(v)
        <5>1. PICK n \in 1 .. Len(v) : v[n] = u[k]
          BY <3>3
        <5> QED  BY <4>2, <5>1
      <4> QED  BY <4>2, <4>3
    <3> QED  BY <3>2, <3>4, <3>5
  <2> QED  BY <2>1, <2>2
<1>7. /\ best \in Seq(Safe) /\ Len(best) <= MaxResults
      /\ \A i \in 1 .. Len(Wanted) : Wanted[i] \in o.found => Early(best, Wanted[i])
  BY <1>6, BestFacts DEF best
<1>8. j \in JobRecord /\ j.at = "store" /\ j.results = best /\ j.found = o.found
  BY <1>1, <1>7, SitesFacts DEF JobRecord
<1> HIDE DEF j
<1>9. JobOK(j)
  BY <1>7, <1>8 DEF JobOK
<1> QED  BY <1>2, <1>5, <1>8, <1>9, JobMoves

\* What another provider gave: no site had been found.
LEMMA ProviderMoves ==
    ASSUME AnswersInv, NEW a \in Searchers, NEW at, NEW next, at \in {"brave", "serper"}, next \in {"serper", "store"},
           OtherProvider(a, at, next)
    PROVE  AnswersInv'
<1> DEFINE o == webJob[a]
<1>1. o \in JobRecord /\ JobOK(o) /\ o.found = {} /\ Len(o.results) <= MaxResults
  <2>1. o \in JobRecord /\ JobOK(o) /\ o.at \in {"brave", "serper"}
    BY DEF AnswersInv, AnswersTyped, OtherProvider
  <2> QED  BY <2>1 DEF JobOK
<1>2. /\ sessionResults' \in Seq(Safe) /\ Len(sessionResults') <= SessionMax
      /\ loadedPages' \in [1 .. SessionMax -> Urls \union {NoPage}] /\ questions' \in 0 .. QuestionsMax
  BY DEF AnswersInv, AnswersTyped, OtherProvider
<1>3. CASE \E raw \in Results : \E ranked \in Rankings(Allowed(raw)) :
            webJob' = [webJob EXCEPT ![a].at = "store", ![a].results = ranked]
  <2>0. PICK raw \in Results : \E ranked \in Rankings(Allowed(raw)) :
            webJob' = [webJob EXCEPT ![a].at = "store", ![a].results = ranked]
    BY <1>3
  <2>1. PICK ranked \in Rankings(Allowed(raw)) :
            webJob' = [webJob EXCEPT ![a].at = "store", ![a].results = ranked]
    BY <2>0
  <2>2. ranked \in Seq(Safe) /\ Len(ranked) <= MaxResults
    BY AnswerFacts
  <2> DEFINE j == [o EXCEPT !.at = "store", !.results = ranked]
  <2>3. webJob' = [webJob EXCEPT ![a] = j]
    BY <2>1 DEF AnswersInv, AnswersTyped
  <2>4. j \in JobRecord /\ j.at = "store" /\ j.results = ranked /\ j.found = {}
    BY <1>1, <2>2 DEF JobRecord
  <2> HIDE DEF j
  <2>5. JobOK(j)
    BY <2>2, <2>4 DEF JobOK
  <2> QED  BY <1>2, <2>3, <2>4, <2>5, JobMoves
<1>4. CASE webJob' = [webJob EXCEPT ![a].at = next]
  <2> DEFINE j == [o EXCEPT !.at = next]
  <2>1. webJob' = [webJob EXCEPT ![a] = j]
    BY <1>4
  <2>2. j \in JobRecord /\ j.at = next /\ j.results = o.results /\ j.found = {}
    BY <1>1 DEF JobRecord
  <2> HIDE DEF j
  <2>3. JobOK(j)
    BY <1>1, <2>2 DEF JobOK
  <2> QED  BY <1>2, <2>1, <2>2, <2>3, JobMoves
<1> QED  BY <1>3, <1>4 DEF OtherProvider

\* The session's list, and from it what the model is given.
LEMMA StoreMoves ==
    ASSUME AnswersInv, NEW a \in Searchers, Stores(a)
    PROVE  AnswersInv'
<1> DEFINE o == webJob[a]
           once == Unique(o.results)
           compact == Cut(once, SessionMax)
           given == Cut(compact, ContextMax)
           j == [o EXCEPT !.at = "generate", !.results = given]
<1>1. o \in JobRecord /\ JobOK(o) /\ o.at = "store"
  BY DEF AnswersInv, AnswersTyped, Stores
<1>2. /\ webJob' = [webJob EXCEPT ![a] = j]
      /\ sessionResults' = IF compact = <<>> THEN sessionResults ELSE compact
      /\ UNCHANGED <<loadedPages, questions>>
  BY DEF Stores, AnswersInv, AnswersTyped
<1> HIDE DEF o
<1>3. o.results \in Seq(Safe) /\ Len(o.results) <= MaxResults /\ Len(o.results) \in Nat
      /\ \A i \in 1 .. Len(Wanted) : Wanted[i] \in o.found => Early(o.results, Wanted[i])
  BY <1>1 DEF JobRecord, JobOK
<1>4. once \in Seq(Safe) /\ Len(once) <= Len(o.results)
  BY <1>3, UniqueFacts
<1>5. compact \in Seq(Safe) /\ Len(compact) <= SessionMax /\ Len(compact) <= Len(once)
  <2> HIDE DEF once
  <2> QED  BY <1>4, CutFacts, AnswerLimits
<1>6. given \in Seq(Safe) /\ Len(given) <= Len(compact)
  <2> HIDE DEF compact
  <2> QED  BY <1>5, CutFacts, AnswerLimits
<1>7. Len(given) <= MaxResults
  <2> HIDE DEF once, compact, given
  <2>1. Len(once) \in Nat /\ Len(compact) \in Nat /\ Len(given) \in Nat
    BY <1>4, <1>5, <1>6
  <2> QED  BY <1>3, <1>4, <1>5, <1>6, <2>1, AnswerLimits
<1>8. ASSUME NEW i \in 1 .. Len(Wanted), Wanted[i] \in o.found PROVE Wanted[i] \in SitesOf(given)
  <2>1. Early(o.results, Wanted[i])
    BY <1>3, <1>8
  <2>2. Early(once, Wanted[i])
    BY <1>3, <2>1, EarlyUnique
  <2> HIDE DEF once
  <2>3. Early(compact, Wanted[i])
    BY <1>4, <2>2, EarlyCut, AnswerLimits
  <2> HIDE DEF compact
  <2>4. Early(given, Wanted[i])
    BY <1>5, <2>3, EarlyCut, AnswerLimits
  <2> HIDE DEF given
  <2>5. PICK k \in 1 .. Len(Wanted) : k <= Len(given) /\ SiteOf[given[k]] = Wanted[i]
    BY <2>4 DEF Early
  <2>6. k \in DOMAIN given
    BY <1>6, <2>5
  <2> QED  BY <2>5, <2>6 DEF SitesOf
<1> HIDE DEF once, compact, given
<1>9. j \in JobRecord /\ j.at = "generate" /\ j.results = given /\ j.found = o.found
  BY <1>1, <1>6 DEF JobRecord
<1>10. JobOK(j)
  <2> HIDE DEF j
  <2> QED  BY <1>7, <1>8, <1>9 DEF JobOK
<1>11. sessionResults' \in Seq(Safe) /\ Len(sessionResults') <= SessionMax
  BY <1>2, <1>5 DEF AnswersInv, AnswersTyped
<1> HIDE DEF j
<1>12. loadedPages' \in [1 .. SessionMax -> Urls \union {NoPage}] /\ questions' \in 0 .. QuestionsMax
  BY <1>2 DEF AnswersInv, AnswersTyped
<1> QED  BY <1>2, <1>9, <1>10, <1>11, <1>12, JobMoves

\* A thread without a question.
LEMMA NoJobFacts ==
    /\ NoJob \in JobRecord /\ NoJob.found = {} /\ NoJob.results = <<>> /\ NoJob.extra = <<>> /\ NoJob.missing = <<>>
    /\ NoJob.at = "idle" /\ Len(NoJob.results) = 0 /\ JobOK(NoJob)
<1>1. 0 \in 0 .. Retries /\ MaxResults \in Nat
  BY AnswerLimits
<1>2. <<>> \in Seq(Safe) /\ <<>> \in Seq(ToSet(Wanted)) /\ Len(<<>>) = 0
  BY SitesFacts
<1>3. NoJob \in JobRecord
  BY <1>1, <1>2 DEF NoJob, JobRecord
<1>4. /\ NoJob.found = {} /\ NoJob.results = <<>> /\ NoJob.extra = <<>> /\ NoJob.missing = <<>>
      /\ NoJob.at = "idle" /\ Len(NoJob.results) = 0
  BY <1>2 DEF NoJob
<1> QED  BY <1>1, <1>3, <1>4 DEF JobOK

\* Nothing is asked, stored or loaded at first.
LEMMA AnswersBegin == AnswersInit => AnswersInv
<1> SUFFICES ASSUME AnswersInit PROVE AnswersInv
  OBVIOUS
<1>1. webJob \in [Searchers -> JobRecord] /\ \A a \in Searchers : JobOK(webJob[a])
  BY NoJobFacts DEF AnswersInit
<1>2. sessionResults \in Seq(Safe) /\ Len(sessionResults) <= SessionMax
  BY SitesFacts, AnswerLimits DEF AnswersInit
<1>3. loadedPages \in [1 .. SessionMax -> Urls \union {NoPage}] /\ questions \in 0 .. QuestionsMax
  BY AnswerLimits DEF AnswersInit
<1> QED  BY <1>1, <1>2, <1>3 DEF AnswersInv, AnswersTyped

\* Every step of a question keeps it.
LEMMA AnswersStep == AnswersInv /\ [AnswersNext]_answersVars => AnswersInv'
<1> SUFFICES ASSUME AnswersInv, [AnswersNext]_answersVars PROVE AnswersInv'
  OBVIOUS
<1>0. /\ sessionResults \in Seq(Safe) /\ Len(sessionResults) <= SessionMax
      /\ loadedPages \in [1 .. SessionMax -> Urls \union {NoPage}] /\ questions \in 0 .. QuestionsMax
      /\ webJob \in [Searchers -> JobRecord] /\ \A a \in Searchers : JobOK(webJob[a])
  BY DEF AnswersInv, AnswersTyped
<1>1. CASE UNCHANGED answersVars
  <2>1. UNCHANGED <<webJob, sessionResults, loadedPages, questions>>
    BY <1>1 DEF answersVars
  <2> QED  BY <1>0, <2>1 DEF AnswersInv, AnswersTyped, JobOK, Early, SitesOf
<1>2. ASSUME NEW a \in Searchers, AsksQuestion(a) PROVE AnswersInv'
  <2>0. questions' \in 0 .. QuestionsMax /\ UNCHANGED <<sessionResults, loadedPages>>
    <3>1. questions' = questions + 1 /\ questions < QuestionsMax /\ UNCHANGED <<sessionResults, loadedPages>>
      BY <1>2 DEF AsksQuestion
    <3>2. QuestionsMax \in Nat /\ questions \in 0 .. QuestionsMax
      BY <1>0, AnswerLimits
    <3> QED  BY ONLY <3>1, <3>2
  <2>1. ASSUME NEW j, j \in JobRecord, webJob' = [webJob EXCEPT ![a] = j], j.at \in {"generate", "search", "load"},
               j.found = {}, j.results = <<>>, j.extra = <<>>, j.missing = <<>>
        PROVE  AnswersInv'
    <3>1. JobOK(j)
      BY <2>1, SitesFacts, AnswerLimits DEF JobOK
    <3> QED  BY <1>0, <2>0, <2>1, <3>1, JobMoves
  <2>2. CASE \E tool \in {"wiki", "rag", "none"} : webJob' = [webJob EXCEPT ![a] = [NoJob EXCEPT !.at = "generate", !.tool = tool]]
    <3>1. PICK tool \in {"wiki", "rag", "none"} : webJob' = [webJob EXCEPT ![a] = [NoJob EXCEPT !.at = "generate", !.tool = tool]]
      BY <2>2
    <3> DEFINE j == [NoJob EXCEPT !.at = "generate", !.tool = tool]
    <3>2. j \in JobRecord
      BY NoJobFacts DEF JobRecord
    <3>3. j.at = "generate" /\ j.found = {} /\ j.results = <<>> /\ j.extra = <<>> /\ j.missing = <<>>
      BY DEF NoJob
    <3>4. webJob' = [webJob EXCEPT ![a] = j]
      BY <3>1
    <3> HIDE DEF j
    <3> QED  BY <2>1, <3>2, <3>3, <3>4
  <2>3. CASE webJob' = [webJob EXCEPT ![a] = [NoJob EXCEPT !.at = "search", !.tool = "web"]]
    <3> DEFINE j == [NoJob EXCEPT !.at = "search", !.tool = "web"]
    <3>2. j \in JobRecord
      BY NoJobFacts DEF JobRecord
    <3>3. j.at = "search" /\ j.found = {} /\ j.results = <<>> /\ j.extra = <<>> /\ j.missing = <<>>
      BY DEF NoJob
    <3>4. webJob' = [webJob EXCEPT ![a] = j]
      BY <2>3
    <3> HIDE DEF j
    <3> QED  BY <2>1, <3>2, <3>3, <3>4
  <2>4. CASE \E numbers \in SUBSET (1 .. SessionMax) : \E tool \in {"pages", "connection"} :
               webJob' = [webJob EXCEPT ![a] = [NoJob EXCEPT !.at = "load", !.tool = tool, !.numbers = numbers]]
    <3>1. PICK numbers \in SUBSET (1 .. SessionMax) : \E tool \in {"pages", "connection"} :
               webJob' = [webJob EXCEPT ![a] = [NoJob EXCEPT !.at = "load", !.tool = tool, !.numbers = numbers]]
      BY <2>4
    <3>2. PICK tool \in {"pages", "connection"} :
               webJob' = [webJob EXCEPT ![a] = [NoJob EXCEPT !.at = "load", !.tool = tool, !.numbers = numbers]]
      BY <3>1
    <3> DEFINE j == [NoJob EXCEPT !.at = "load", !.tool = tool, !.numbers = numbers]
    <3>3. j \in JobRecord
      BY NoJobFacts DEF JobRecord
    <3>4. j.at = "load" /\ j.found = {} /\ j.results = <<>> /\ j.extra = <<>> /\ j.missing = <<>>
      BY DEF NoJob
    <3>5. webJob' = [webJob EXCEPT ![a] = j]
      BY <3>2
    <3> HIDE DEF j
    <3> QED  BY <2>1, <3>3, <3>4, <3>5
  <2> QED  BY <1>2, <2>2, <2>3, <2>4, Zenon DEF AsksQuestion
<1>3. ASSUME NEW a \in Searchers, SearchAnswers(a) PROVE AnswersInv'
  <2>1. PICK raw \in Results : \E ranked \in Rankings(Allowed(raw)) : Found(a, ranked)
    BY <1>3 DEF SearchAnswers
  <2>2. PICK ranked \in Rankings(Allowed(raw)) : Found(a, ranked)
    BY <2>1
  <2>3. ranked \in Seq(Safe) /\ Len(ranked) <= MaxResults
    BY AnswerFacts
  <2> QED  BY <1>3, <2>2, <2>3, SearchMoves DEF SearchAnswers
<1>4. ASSUME NEW a \in Searchers, SearchFails(a) PROVE AnswersInv'
  <2>1. CASE webJob[a].tries < Retries
    <3> DEFINE o == webJob[a]
               j == [o EXCEPT !.tries = o.tries + 1]
    <3>1. o \in JobRecord /\ JobOK(o)
      BY <1>0
    <3>2. webJob' = [webJob EXCEPT ![a] = j]
      BY <1>4, <2>1 DEF SearchFails
    <3>3. o.tries + 1 \in 0 .. Retries
      BY <2>1, <3>1, AnswerLimits DEF JobRecord
    <3>4. j \in JobRecord /\ j.at = o.at /\ j.results = o.results /\ j.extra = o.extra /\ j.missing = o.missing /\ j.found = o.found
      BY <3>1, <3>3 DEF JobRecord
    <3> HIDE DEF j, o
    <3>5. JobOK(j)
      BY <3>1, <3>4 DEF JobOK
    <3>6. UNCHANGED <<sessionResults, loadedPages, questions>>
      BY <1>4 DEF SearchFails
    <3> QED  BY <1>0, <3>2, <3>4, <3>5, <3>6, JobMoves
  <2>2. CASE ~ (webJob[a].tries < Retries)
    <3>1. Found(a, <<>>) /\ webJob[a].at = "search" /\ UNCHANGED <<sessionResults, loadedPages, questions>>
      BY <1>4, <2>2 DEF SearchFails
    <3>2. <<>> \in Seq(Safe) /\ Len(<<>>) <= MaxResults
      BY SitesFacts, AnswerLimits
    <3> QED  BY <3>1, <3>2, SearchMoves
  <2> QED  BY <2>1, <2>2
<1>5. ASSUME NEW a \in Searchers, LoadsPage(a) PROVE AnswersInv'
  <2> DEFINE o == webJob[a]
  <2>1. PICK n \in o.numbers :
          /\ webJob' = [webJob EXCEPT ![a].numbers = @ \ {n}, ![a].at = IF webJob[a].numbers = {n} THEN "finish" ELSE "load"]
          /\ loadedPages' \in {loadedPages} \union
                (IF webJob[a].tool = "pages" /\ n <= Len(sessionResults) /\ sessionResults[n] \notin Blacklisted
                 THEN {[loadedPages EXCEPT ![n] = sessionResults[n]]} ELSE {})
    BY <1>5 DEF LoadsPage
  <2>2. o \in JobRecord /\ JobOK(o) /\ n \in 1 .. SessionMax
    <3>1. o \in JobRecord /\ JobOK(o)
      BY <1>0
    <3> QED  BY <3>1 DEF JobRecord
  <2>3. PICK at \in {"finish", "load"} : webJob' = [webJob EXCEPT ![a].numbers = @ \ {n}, ![a].at = at]
    BY <2>1
  <2> DEFINE j == [o EXCEPT !.numbers = o.numbers \ {n}, !.at = at]
  <2>4. webJob' = [webJob EXCEPT ![a] = j]
    BY <1>0, <2>3
  <2>5. j \in JobRecord /\ j.at = at /\ j.results = o.results
    BY <2>2 DEF JobRecord
  <2>6. loadedPages' \in [1 .. SessionMax -> Urls \union {NoPage}]
    <3>1. n <= Len(sessionResults) => sessionResults[n] \in Urls
      <4> SUFFICES ASSUME n <= Len(sessionResults) PROVE sessionResults[n] \in Urls
        OBVIOUS
      <4>1. n \in 1 .. Len(sessionResults)
        BY <1>0, <2>2, AnswerLimits
      <4>2. sessionResults[n] \in Safe
        BY <1>0, <4>1, ElementIn
      <4> QED  BY <4>2 DEF Safe
    <3> HIDE DEF o
    <3> QED  BY <1>0, <2>1, <2>2, <3>1
  <2> HIDE DEF j, o
  <2>7. JobOK(j)
    BY <2>2, <2>5 DEF JobOK
  <2>8. UNCHANGED <<sessionResults, questions>>
    BY <1>5 DEF LoadsPage
  <2> QED  BY <1>0, <2>4, <2>5, <2>6, <2>7, <2>8, JobMoves
<1>6. ASSUME NEW a \in Searchers, Finishes(a) \/ Generates(a) PROVE AnswersInv'
  <2>1. webJob' = [webJob EXCEPT ![a] = NoJob] /\ UNCHANGED <<sessionResults, loadedPages, questions>>
    BY <1>6 DEF Finishes, Generates
  <2> QED  BY <1>0, <2>1, NoJobFacts, JobMoves
<1>7. ASSUME NEW a \in Searchers, OtherProvider(a, "brave", "serper") \/ OtherProvider(a, "serper", "store")
      PROVE  AnswersInv'
  BY <1>7, ProviderMoves
<1> QED  BY <1>1, <1>2, <1>3, <1>4, <1>5, <1>6, <1>7, PromoteMoves, StoreMoves DEF AnswersNext

\* A site that the question names and that a search has found is among the
\* results the model is given, through the ranking, the merge and the three
\* limits (web_search, execute_web_search); and nothing that is blacklisted is.
\* For any wanted sites, as many as the smallest limit, and any results.
THEOREM WantedStaysShown == AnswersSpec => []WantedShown
<1>1. AnswersInv => WantedShown
  <2> SUFFICES ASSUME AnswersInv, NEW a \in Searchers, webJob[a].at = "generate"
               PROVE  /\ \A i \in DOMAIN Wanted : Wanted[i] \in webJob[a].found => Wanted[i] \in SitesOf(webJob[a].results)
                      /\ \A i \in DOMAIN webJob[a].results : webJob[a].results[i] \notin Blacklisted
    BY DEF WantedShown
  <2>1. webJob[a] \in JobRecord /\ JobOK(webJob[a])
    BY DEF AnswersInv, AnswersTyped
  <2>2. DOMAIN Wanted = 1 .. Len(Wanted)
    <3> DEFINE W == ToSet(Wanted)
    <3>1. Wanted \in Seq(W)
      BY AnswerLimits
    <3> HIDE DEF W
    <3> QED  BY <3>1
  <2>3. webJob[a].results \in Seq(Safe)
    BY <2>1 DEF JobRecord
  <2>4. \A i \in DOMAIN webJob[a].results : webJob[a].results[i] \in Safe
    BY <2>3
  <2> QED  BY <2>1, <2>2, <2>4 DEF JobOK, Safe
<1> QED  BY <1>1, AnswersBegin, AnswersStep, PTL DEF AnswersSpec

\* The jobs say what their lists are.
LEMMA AnswersMean == AnswersInv => AnswersTypeOK
<1> SUFFICES ASSUME AnswersInv PROVE AnswersTypeOK
  OBVIOUS
<1>1. ASSUME NEW S, NEW n \in Nat, NEW s \in Seq(S), Len(s) <= n PROVE s \in BoundedSeq(S, n)
  <2>1. Len(s) \in 0 .. n /\ s \in [1 .. Len(s) -> S]
    BY <1>1
  <2> QED  BY <2>1 DEF BoundedSeq, SeqOf
<1>2. sessionResults \in BoundedSeq(Urls \ Blacklisted, SessionMax)
  BY <1>1, AnswerLimits DEF AnswersInv, AnswersTyped, Safe
<1>3. loadedPages \in [1 .. SessionMax -> Urls \union {NoPage}] /\ questions \in 0 .. QuestionsMax
  BY DEF AnswersInv, AnswersTyped
<1>4. ASSUME NEW a \in Searchers
      PROVE  /\ webJob[a].at \in {"idle", "search", "promote", "brave", "serper", "store", "generate", "load", "finish"}
             /\ webJob[a].tool \in {"none", "wiki", "rag", "web", "pages", "connection"}
             /\ webJob[a].tries \in 0 .. Retries
             /\ \A i \in DOMAIN webJob[a].missing : \E j \in DOMAIN Wanted : webJob[a].missing[i] = Wanted[j]
             /\ webJob[a].results \in Results /\ webJob[a].numbers \subseteq 1 .. SessionMax
             /\ webJob[a].extra \in Seq(Urls \ Blacklisted)
  <2>1. webJob[a] \in JobRecord /\ JobOK(webJob[a])
    BY DEF AnswersInv, AnswersTyped
  <2>2. \A i \in DOMAIN webJob[a].missing : \E j \in DOMAIN Wanted : webJob[a].missing[i] = Wanted[j]
    <3>1. webJob[a].missing \in Seq(ToSet(Wanted))
      BY <2>1 DEF JobRecord
    <3>2. \A i \in DOMAIN webJob[a].missing : webJob[a].missing[i] \in ToSet(Wanted)
      BY <3>1
    <3> QED  BY <3>2 DEF ToSet
  <2>3. webJob[a].results \in Seq(Urls) /\ Len(webJob[a].results) <= MaxResults
    <3>1. webJob[a].results \in Seq(Safe) /\ Len(webJob[a].results) <= MaxResults
      BY <2>1 DEF JobRecord, JobOK
    <3>2. \A i \in 1 .. Len(webJob[a].results) : webJob[a].results[i] \in Urls
      BY <3>1, ElementIn DEF Safe
    <3> QED  BY <3>1, <3>2, NarrowedList
  <2>4. webJob[a].results \in Results
    BY <1>1, <2>3, AnswerLimits DEF Results
  <2> QED  BY <2>1, <2>2, <2>4 DEF JobRecord, Safe
<1> QED  BY <1>2, <1>3, <1>4 DEF AnswersTypeOK

\* The types of the searches, with the limits: no list is longer than its, no
\* blacklisted URL is in the session's.
THEOREM AnswerTypesHold == AnswersSpec => []AnswersTypeOK
  BY AnswersMean, AnswersBegin, AnswersStep, PTL DEF AnswersSpec

-----------------------------------------------------------------------------
\* The parts of a query side by side: what each of them keeps by itself.
PartNames ==
    {"osint", "access", "answers", "rag", "model", "tests", "health", "lookups", "requests", "budget"}
QueriesInv ==
    /\ part \in PartNames
    /\ OsintInv
    /\ AccessInv /\ AccessBounded
    /\ AnswersInv
    /\ RagShapes
    /\ LlmInv
    /\ RunInv
    /\ HealthInv
    /\ WalkInv
    /\ TrailInv
    /\ BudgetInv

\* They start as they do alone.
LEMMA QueriesStart == MCQueriesInit => QueriesInv
<1> SUFFICES ASSUME MCQueriesInit PROVE QueriesInv
  OBVIOUS
<1>1. /\ part \in PartNames
      /\ OsintInit /\ AccessInit /\ AnswersInit /\ RagInit /\ LlmInit /\ DashboardInit /\ HealthInit
      /\ LookupsInit /\ ApiRequestsInit /\ ContextBudgetInit
  BY DEF MCQueriesInit, PartNames
<1> QED
  BY <1>1, OsintStarts, AccessBegins, BoundedBegins, AnswersBegin, ShapesBegin, CallsStart, DashboardStarts,
     HealthBegins, WalkStarts, TrailBegins, BudgetStart DEF QueriesInv

\* One of them takes a step, the others none.
LEMMA QueriesStep == QueriesInv /\ [MCQueriesNext]_MCQueriesVars => QueriesInv'
<1> SUFFICES ASSUME QueriesInv, [MCQueriesNext]_MCQueriesVars PROVE QueriesInv'
  OBVIOUS
<1>1. /\ UNCHANGED part
      /\ [OsintNext]_osintVars /\ [AccessNext]_accessVars /\ [AnswersNext]_answersVars /\ [RagNext]_ragVars
      /\ [LlmNext]_llmVars /\ [DashboardNext]_dashboardVars /\ [HealthNext]_healthVars
      /\ [LookupsNext]_lookupVars /\ [ApiRequestsNext]_requestVars /\ [ContextBudgetNext]_budgetVars
  BY DEF MCQueriesNext, MCQueriesVars, Still
<1> QED
  BY <1>1, OsintKept, AccessSteps, BoundedSteps, AnswersStep, ShapesStay, CallsStep, DashboardStep,
     HealthStep, WalkSteps, TrailStep, BudgetStep DEF QueriesInv

\* Roles, tokens and requests have values the code can give them.
LEMMA AccessMeans == AccessInv /\ AccessBounded => AccessTypeOK
  BY DEF AccessInv, AccessTypes, AccessBounded, CountsBounded, TokensTyped, AccessTypeOK

\* So have the runs of the test window.
LEMMA RunsTyped == RunInv => DashboardTypeOK
<1> SUFFICES ASSUME RunInv PROVE DashboardTypeOK
  OBVIOUS
<1>1. RunTyped /\ runner \in Runner
  BY DEF RunInv, RunTyped
<1>2. /\ runner.at \in RunnerSteps /\ runner.mode \in RunnerModes /\ runner.busy \subseteq Files
      /\ runner.todo \in Seq(Files)
  BY <1>1 DEF Runner
<1>3. ToSet(runner.todo) \subseteq Files
  BY <1>2 DEF ToSet
<1> QED  BY <1>1, <1>2, <1>3 DEF RunTyped, DashboardTypeOK, RunnerSteps, RunnerModes, Files

\* Every reachable state of every part is well typed, for all values of the
\* constants.
THEOREM QueriesTyped == MCQueriesSpec => []QueriesTypeOK
<1>1. QueriesInv => QueriesTypeOK
  <2> SUFFICES ASSUME QueriesInv PROVE QueriesTypeOK
    OBVIOUS
  <2>1. /\ OsintTypeOK /\ AccessTypeOK /\ AnswersTypeOK /\ RagTypeOK /\ LlmTypeOK
        /\ DashboardTypeOK /\ HealthTypeOK /\ LookupsTypeOK /\ ApiRequestsTypeOK
    BY OsintMeans, AccessMeans, AnswersMean, ShapesMean, PaceMeans, RunsTyped, HealthMeans, WalkMeans,
       TrailFollows DEF QueriesInv
  <2>2. ContextBudgetTypeOK
    BY DEF QueriesInv, BudgetInv
  <2> QED  BY <2>1, <2>2, Zenon DEF QueriesInv, PartNames, QueriesTypeOK
<1> QED  BY <1>1, QueriesStart, QueriesStep, PTL DEF MCQueriesSpec
=============================================================================
