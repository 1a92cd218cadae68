----------------------------- MODULE ApiServer -----------------------------
(***************************************************************************)
(* The API server (app.py): startup fills the runtime components, each of  *)
(* which may fail to come up; requests pass the middlewares and reach an   *)
(* endpoint; queries and the update of the configuration run in worker     *)
(* threads.  The process may be killed; a stop waits for its requests.     *)
(*                                                                         *)
(* A value of the configuration is the number of the update that set it,   *)
(* in the order the updates take config_lock.  What a request carries is   *)
(* left out: a check on it lets it pass or answers with an error.  The     *)
(* limiters, the keys and the agents have modules of their own.            *)
(***************************************************************************)
EXTENDS Naturals, FiniteSets

CONSTANTS
    Clients,       \* each with one request at a time
    Settings,      \* the keys of config.json
    UpdatesMax,    \* bound on the updates that take the lock
    KillsMax,      \* bound on the times the server is killed
    MayFail,       \* the creations that can fail at startup
    NoClient

\* Startup creates these, monitor and tracker together, manager and processor together.
Created == {"limiter", "health", "memory", "agent", "multihop", "adaptive"}
Components ==
    {"redis_rate_limiter", "system_monitor", "performance_tracker", "memory_store", "agent",
     "multihop_agent", "adaptive_manager", "adaptive_query_processor"}

ASSUME ApiAssumption ==
    /\ {UpdatesMax, KillsMax} \subseteq Nat
    /\ NoClient \notin Clients /\ Settings # {}
    /\ MayFail \subseteq Created

Partial == [s \in {} |-> 0]    \* what a file holds that was not written to the end

VARIABLES
    server,       \* "down" or "up"
    lost,         \* the creations that failed at the latest startup
    runtime,      \* the components of api.runtime that are not None
    config,       \* config, in memory
    configFile,   \* config.json
    configTmp,    \* config.json.tmp
    configLock,   \* the client whose worker thread holds config_lock
    request,      \* request[c]: where the request of c is
    answer,       \* the latest answer since the startup
    updates,      \* how many updates have taken the lock
    kills,
    kept          \* history: per setting, the latest update that was done

apiVars ==
    <<server, lost, runtime, config, configFile, configTmp, configLock, request, answer, updates, kills, kept>>

configFiles == <<configFile, configTmp>>
book == <<updates, kills, kept>>

Original == [s \in Settings |-> 0]
NoRequest == [at |-> "none", for |-> "none", setting |-> NoClient, nr |-> 0]
NoAnswer == [status |-> "none", path |-> "none"]
Statuses == {"none", "ok", "degraded", "refused", "unavailable", "error"}
Paths == {"none", "/health", "/query", "/query-adaptive", "/config", "/stats"}

ApiInit ==
    /\ server = "down"
    /\ lost = {}
    /\ runtime = {}
    /\ config = Original
    /\ configFile = Original
    /\ configTmp = Partial
    /\ configLock = NoClient
    /\ request = [c \in Clients |-> NoRequest]
    /\ answer = NoAnswer
    /\ updates = 0
    /\ kills = 0
    /\ kept = Original

\* What startup_event assigns to runtime when the creations in f fail.  The
\* tracker and the processor are assigned to local names.
Assigned(f) ==
    (IF "limiter" \in f THEN {} ELSE {"redis_rate_limiter"})
    \union (IF "health" \in f THEN {} ELSE {"system_monitor"})
    \union (IF "memory" \in f THEN {} ELSE {"memory_store"})
    \union (IF "agent" \in f THEN {} ELSE {"agent"})
    \union (IF "multihop" \in f THEN {} ELSE {"multihop_agent"})
    \union (IF "adaptive" \in f THEN {} ELSE {"adaptive_manager"})

\* The module reads config.json, or takes a configuration of its own; then
\* startup_event.  A startup that is aborted (no Tor, a DEV_MODE server that is
\* bound to a network, no persistent secret, strict mode) leaves it down.
Startup ==
    /\ server = "down"
    /\ server' = "up"
    /\ config' = IF configFile = Partial THEN Original ELSE configFile
    /\ \E f \in SUBSET MayFail : lost' = f /\ runtime' = Assigned(f)
    /\ answer' = NoAnswer
    /\ UNCHANGED <<configFiles, configLock, request, book>>

Answers(c, path, status) ==
    /\ answer' = [status |-> status, path |-> path]
    /\ request' = [request EXCEPT ![c] = NoRequest]
    /\ UNCHANGED <<server, lost, runtime>>

\* Requests that the limiter answers with 429, the origin check with 403, the
\* route's dependencies with 401, 403 or 429, the request's model with 422
Refused(c) ==
    /\ server = "up" /\ request[c].at = "none"
    /\ \E path \in Paths \ {"none", "/health"} : Answers(c, path, "refused")
    /\ UNCHANGED <<config, configFiles, configLock, book>>

Working(c, at, path) ==
    /\ request' = [request EXCEPT ![c] = [NoRequest EXCEPT !.at = at, !.for = path]]
    /\ UNCHANGED <<server, lost, runtime, answer>>

\* health_check
Health(c) ==
    /\ server = "up" /\ request[c].at = "none"
    /\ Answers(c, "/health",
               IF {"agent", "multihop_agent", "memory_store", "system_monitor", "performance_tracker"} \subseteq runtime
               THEN "ok" ELSE "degraded")
    /\ UNCHANGED <<config, configFiles, configLock, book>>

\* query_endpoint, _run_multihop_query, _run_standard_query: the query is for one
\* of the agents; it goes to a worker thread.
Query(c) ==
    /\ server = "up" /\ request[c].at = "none"
    /\ \E agent \in {"agent", "multihop_agent"} :
         IF agent \in runtime THEN Working(c, "thread", "/query") ELSE Answers(c, "/query", "unavailable")
    /\ UNCHANGED <<config, configFiles, configLock, book>>

\* adaptive_query_endpoint
QueryAdaptive(c) ==
    /\ server = "up" /\ request[c].at = "none"
    /\ IF "adaptive_query_processor" \in runtime THEN Working(c, "thread", "/query-adaptive")
       ELSE Answers(c, "/query-adaptive", "unavailable")
    /\ UNCHANGED <<config, configFiles, configLock, book>>

\* The thread's result, or the exception it ends with
QueryDone(c) ==
    /\ request[c].at = "thread"
    /\ \E status \in {"ok", "error"} : Answers(c, request[c].for, status)
    /\ UNCHANGED <<config, configFiles, configLock, book>>

\* stats_endpoint, get_config, context_status, security_info, csrf-token, root
Read(c) ==
    /\ server = "up" /\ request[c].at = "none"
    /\ \E status \in {"ok", "error"} : Answers(c, "/stats", status)
    /\ UNCHANGED <<config, configFiles, configLock, book>>

-----------------------------------------------------------------------------
\* update_config: an unknown category or key is refused, the rest goes to a thread.
Update(c) ==
    /\ server = "up" /\ request[c].at = "none"
    /\ \/ Answers(c, "/config", "refused")
       \/ \E s \in Settings :
            /\ request' = [request EXCEPT ![c] = [at |-> "lock", for |-> "/config", setting |-> s, nr |-> 0]]
            /\ UNCHANGED <<server, lost, runtime, answer>>
    /\ UNCHANGED <<config, configFiles, configLock, book>>

Assign(c) ==
    /\ request[c].at = "lock" /\ updates < UpdatesMax
    /\ updates' = updates + 1
    /\ config' = [config EXCEPT ![request[c].setting] = updates + 1]
    /\ request' = [request EXCEPT ![c].at = "open", ![c].nr = updates + 1]
    /\ UNCHANGED <<server, lost, runtime, answer, configFiles, kills, kept>>

\* Faulty variant: the update does not take the lock.
TakeNoLock(c) == Assign(c) /\ UNCHANGED configLock

\* with config_lock: the value in memory is changed first
TakeLock(c) == configLock = NoClient /\ configLock' = c /\ Assign(c)

OpenTmpFile(c) ==
    /\ request[c].at = "open"
    /\ configTmp' = Partial
    /\ request' = [request EXCEPT ![c].at = "dump"]
    /\ UNCHANGED <<server, lost, runtime, answer, config, configFile, configLock, book>>

DumpConfig(c) ==
    /\ request[c].at = "dump"
    /\ configTmp' = config
    /\ request' = [request EXCEPT ![c].at = "replace"]
    /\ UNCHANGED <<server, lost, runtime, answer, config, configFile, configLock, book>>

Unlock(c) == configLock' = IF configLock = c THEN NoClient ELSE configLock

ReplaceConfig(c) ==
    /\ request[c].at = "replace"
    /\ configFile' = configTmp
    /\ configTmp' = Partial
    /\ kept' = [kept EXCEPT ![request[c].setting] = request[c].nr]
    /\ Unlock(c)
    /\ Answers(c, "/config", "ok")
    /\ UNCHANGED <<config, updates, kills>>

\* open, dump or replace raises: the answer is an error, memory keeps the value.
UpdateFails(c) ==
    /\ request[c].at \in {"open", "dump", "replace"}
    /\ Unlock(c)
    /\ Answers(c, "/config", "error")
    /\ UNCHANGED <<config, configFiles, book>>

-----------------------------------------------------------------------------
\* shutdown_event; uvicorn lets the requests end first
Shutdown ==
    /\ server = "up" /\ \A c \in Clients : request[c] = NoRequest
    /\ server' = "down"
    /\ runtime' = {}
    /\ UNCHANGED <<lost, config, configFiles, configLock, request, answer, book>>

KillServer ==
    /\ server = "up" /\ kills < KillsMax
    /\ kills' = kills + 1
    /\ server' = "down"
    /\ runtime' = {}
    /\ configLock' = NoClient
    /\ request' = [c \in Clients |-> NoRequest]
    /\ UNCHANGED <<lost, config, configFiles, answer, updates, kept>>

ApiStep(c) ==
    \/ Refused(c) \/ Health(c) \/ Query(c) \/ QueryAdaptive(c) \/ QueryDone(c) \/ Read(c)
    \/ Update(c) \/ TakeLock(c) \/ OpenTmpFile(c) \/ DumpConfig(c) \/ ReplaceConfig(c) \/ UpdateFails(c)

ApiNext == Startup \/ Shutdown \/ KillServer \/ \E c \in Clients : ApiStep(c)

ApiSpec == ApiInit /\ [][ApiNext]_apiVars

-----------------------------------------------------------------------------
Configs == [Settings -> 0 .. UpdatesMax] \union {Partial}

ApiTypeOK ==
    /\ server \in {"down", "up"}
    /\ lost \subseteq Created
    /\ runtime \subseteq Components
    /\ config \in Configs /\ configFile \in Configs /\ configTmp \in Configs
    /\ configLock \in Clients \union {NoClient}
    /\ request \in [Clients -> [at : {"none", "thread", "lock", "open", "dump", "replace"},
                                for : {"none", "/query", "/query-adaptive", "/config"},
                                setting : Settings \union {NoClient}, nr : 0 .. UpdatesMax]]
    /\ answer \in [status : Statuses, path : Paths]
    /\ updates \in 0 .. UpdatesMax /\ kills \in 0 .. KillsMax
    /\ kept \in [Settings -> 0 .. UpdatesMax]

\* config.json can always be read, and a setting in it is never older than the
\* latest update of it that was answered with success, however many updates
\* run at a time, fail in between, or are cut off by the end of the process.
ConfigKept ==
    configFile # Partial /\ \A s \in Settings : configFile[s] >= kept[s]

\* A query is answered with 503 only when the component it needs could not be
\* created at startup.
UnavailableMeansLost ==
    answer.status = "unavailable" =>
        lost \cap (IF answer.path = "/query" THEN {"agent", "multihop"} ELSE {"adaptive"}) # {}
=============================================================================
