--------------------------- MODULE PluginLoading ---------------------------
(***************************************************************************)
(* PluginManager (core/plugin_manager.py) on top of the plugin part of     *)
(* UnifiedLoader (core/unified_loader.py).  A program has a manager and    *)
(* its loader (the plugin driver of the arena), or the loader alone (the   *)
(* plugin endpoints of the API server); either runs one call at a time.    *)
(* Every function of a plugin may raise.  A plugin without init_plugin or  *)
(* cleanup_plugin is one for which they do not raise.  The calls that only *)
(* tests make (enable, disable, the reload and clear_cache of the loader)  *)
(* are left out.                                                           *)
(***************************************************************************)
CONSTANTS Plugins

VARIABLES
    program,   \* "manager" or "api"
    loaded     \* the plugins: what the manager lists, the instance it made
               \* last, what the loader has cached, the state of the module

pluginVars == <<program, loaded>>

PluginStates == {"none", "running", "faulty", "stopped"}
Modules == {"absent", "raw", "ready", "broken"}

PluginInit ==
    /\ program \in {"manager", "api"}
    /\ loaded = [listed |-> {}, instance |-> [p \in Plugins |-> "none"],
                 cached |-> {}, module |-> [p \in Plugins |-> "absent"]]


Cached(s, p, m) == [s EXCEPT !.cached = @ \union {p}, !.module[p] = m]

\* UnifiedLoader.load_plugin: the states after it returns, and after it raises.
\* A module that was imported once comes from the module cache.
LoaderReturns(s, p) == IF p \in s.cached THEN {s} ELSE {Cached(s, p, "ready")}
LoaderRaises(s, p) ==
    IF p \in s.cached THEN {}
    ELSE {Cached(s, p, "broken")} \union (IF s.module[p] = "absent" THEN {s} ELSE {})

\* UnifiedLoader.unload_plugin
LoaderUnloads(s, p) ==
    IF p \notin s.cached THEN {s}
    ELSE {[s EXCEPT !.cached = @ \ {p}, !.module[p] = "raw"], [s EXCEPT !.module[p] = "broken"]}

\* PluginManager.load_plugin: the allowlist, the hash, the loader, the class of
\* the plugin and its initialize.  Everything that fails is logged.
ManagerLoads(s, p) ==
    IF p \in s.listed THEN {s}
    ELSE {s} \union LoaderRaises(s, p) \union LoaderReturns(s, p)
         \union {[t EXCEPT !.listed = @ \union {p}, !.instance[p] = "running"] : t \in LoaderReturns(s, p)}

\* Faulty variant: the plugin is struck off the list after the loader's unload.
ManagerUnloadsLate(s, p) ==
    IF p \notin s.listed THEN {s}
    ELSE {[s EXCEPT !.instance[p] = "faulty"]}
         \union {IF p \in t.cached THEN t ELSE [t EXCEPT !.listed = @ \ {p}] :
                    t \in LoaderUnloads([s EXCEPT !.instance[p] = "stopped"], p)}

\* PluginManager.unload_plugin: shutdown may raise, then cleanup_plugin
ManagerUnloads(s, p) ==
    IF p \notin s.listed THEN {s}
    ELSE {[s EXCEPT !.instance[p] = "faulty"]}
         \union LoaderUnloads([s EXCEPT !.instance[p] = "stopped", !.listed = @ \ {p}], p)

LoadPlugin(p) == program = "manager" /\ loaded' \in ManagerLoads(loaded, p)
UnloadPlugin(p) == program = "manager" /\ loaded' \in ManagerUnloads(loaded, p)
ReloadPlugin(p) ==
    /\ program = "manager"
    /\ loaded' \in UNION {ManagerLoads(s, p) : s \in ManagerUnloads(loaded, p)}

\* POST /plugins/{plugin_name}/load and /unload
LoadEndpoint(p) == program = "api" /\ loaded' \in LoaderReturns(loaded, p) \union LoaderRaises(loaded, p)
UnloadEndpoint(p) == program = "api" /\ loaded' \in LoaderUnloads(loaded, p)

PluginNext ==
    /\ \E p \in Plugins :
         LoadPlugin(p) \/ UnloadPlugin(p) \/ ReloadPlugin(p) \/ LoadEndpoint(p) \/ UnloadEndpoint(p)
    /\ UNCHANGED program

PluginSpec == PluginInit /\ [][PluginNext]_pluginVars

-----------------------------------------------------------------------------
PluginTypeOK ==
    /\ program \in {"manager", "api"}
    /\ loaded \in [listed : SUBSET Plugins, instance : [Plugins -> PluginStates],
                   cached : SUBSET Plugins, module : [Plugins -> Modules]]

\* Whatever raised before, a plugin that the manager lists has not been shut
\* down, and its module is still loaded and not cleaned up.
ListedPluginsRun ==
    \A p \in loaded.listed :
        /\ loaded.instance[p] # "stopped"
        /\ p \in loaded.cached /\ loaded.module[p] \in {"ready", "broken"}
=============================================================================
