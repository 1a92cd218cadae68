---------------------------- MODULE MCServices ----------------------------
(***************************************************************************)
(* The services around the agents, side by side, for TLC: they share no    *)
(* state, and in a behaviour one of them runs.  The memory store is here   *)
(* with one thread, as in the command line program, and with room for      *)
(* every way to meet a quota.                                              *)
(***************************************************************************)
EXTENDS MemoryStore, RedisLimiter, RequestWindows, Credentials, ArenaRuns,
        PluginLoading, SafeFetch, ParallelSearch, ApiServer, CommandLine, TLC

CONSTANTS main

MCHome == main :> "store"
MCPartOrder == <<"manifest", "summary">>

MCConfiguration == CHOOSE c \in Configurations : TRUE

VARIABLE service    \* the one that runs

MCServicesInit ==
    /\ service \in {"memory", "limiter", "windows", "credentials", "arena",
                    "plugins", "fetch", "search", "api", "program"}
    /\ Init /\ LimiterInit /\ WindowsInit /\ CredentialsInit /\ ArenaInit
    /\ PluginInit /\ (service = "plugins" \/ program = "api")
    /\ SearchInit /\ (service = "search" \/ kind = "map")
    /\ FetchInit /\ ApiInit
    /\ CommandLineInit
    /\ service = "program" \/ (forced = NoModel /\ named = "other" /\ saved = MCConfiguration)

Still(name, step, unchanged) == IF service = name THEN step ELSE unchanged

MCServicesNext ==
    /\ UNCHANGED service
    /\ Still("memory", Next, UNCHANGED vars)
    /\ Still("limiter", LimiterNext, UNCHANGED limiterVars)
    /\ Still("windows", WindowsNext, UNCHANGED windowsVars)
    /\ Still("credentials", CredentialsNext, UNCHANGED credentialsVars)
    /\ Still("arena", ArenaNext, UNCHANGED arenaVars)
    /\ Still("plugins", PluginNext, UNCHANGED pluginVars)
    /\ Still("fetch", FetchNext, UNCHANGED fetchVars)
    /\ Still("search", SearchNext, UNCHANGED searchVars)
    /\ Still("api", ApiNext, UNCHANGED apiVars)
    /\ Still("program", CommandLineNext, UNCHANGED commandLineVars)

MCServicesVars ==
    <<service, vars, limiterVars, windowsVars, credentialsVars, arenaVars, pluginVars,
      fetchVars, searchVars, apiVars, commandLineVars>>

MCServicesSpec == MCServicesInit /\ [][MCServicesNext]_MCServicesVars /\ SearchFairness

\* Every variable of every service has a value the code can give it.
ServicesTypeOK ==
    /\ TypeOK /\ LimiterTypeOK /\ WindowsTypeOK /\ CredentialsTypeOK /\ ArenaTypeOK
    /\ PluginTypeOK /\ FetchTypeOK /\ SearchTypeOK /\ ApiTypeOK
    /\ CommandLineTypeOK
=============================================================================
