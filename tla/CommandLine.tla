---------------------------- MODULE CommandLine ----------------------------
(***************************************************************************)
(* The interactive program (main.py, cli/bootstrap.py, cli/commands.py,    *)
(* cli/settings_editor.py): its start, the questions it asks about its     *)
(* settings, and the restart of its agents.                                *)
(*                                                                         *)
(* One thread does it all.  The configuration is one dictionary that the   *)
(* program shares with its agents and that the editor changes in place; it *)
(* comes from the file named by --config, and other programs, the API      *)
(* server among them, write that file too.  Of the settings those are kept *)
(* that the program itself looks at or adjusts.  Tor mode, the cache sweep *)
(* and the commands on session, cache and memory are steps of Lookups,     *)
(* Cache, Session and MemoryStore.                                         *)
(***************************************************************************)
EXTENDS Naturals

CONSTANTS
    Models,
    Installed,      \* those that the local server has; it may change no more
    NoModel,
    TokenLimits,    \* llm.max_tokens: up to 2048, between, from 16000 on
    EditsMax,       \* bound on the edits, and on the writes of other programs
    RestartsMax     \* bound on the restarts of the agents

ASSUME CommandLineAssumption ==
    /\ {"low", "high"} \subseteq TokenLimits /\ TokenLimits \subseteq {"low", "middle", "high"}
    /\ Installed \subseteq Models /\ NoModel \notin Models
    /\ {EditsMax, RestartsMax} \subseteq Nat

Files == {"config.json", "other"}    \* the default of --config, and any other
Configurations == [provider : {"ollama", "cloud"}, model : Models, tokens : TokenLimits]

VARIABLES
    named,         \* args.config
    forced,        \* args.model
    saved,         \* what that file holds; another one is written, but never read
    settings,      \* the dictionary, that of the agent once there is one
    reread,        \* what a restart has read
    agents,        \* which making the agents are of, 0 for None: the one that the
                   \* commands act on, the multi-hop agent, and the two that the
                   \* adaptive processor asks
    prompt,        \* where the program is
    apart,         \* history: the dictionary may differ from the file
    edits, restarts

commandLineVars ==
    <<named, forced, saved, settings, reread, agents, prompt, apart, edits, restarts>>
launch == <<named, forced>>

AllOf(n) == [search |-> n, multihop |-> n, asks |-> n, hops |-> n]

CommandLineInit ==
    /\ named \in Files /\ forced \in Models \union {NoModel}
    /\ saved \in Configurations
    /\ settings = saved /\ reread = settings
    /\ agents = AllOf(0) /\ prompt = "start" /\ apart = FALSE
    /\ edits = 0 /\ restarts = 0

-----------------------------------------------------------------------------
\* adjust_config_for_provider: a limit that fits the other kind of provider.
Adjusted(c) ==
    IF c.provider = "ollama" /\ c.tokens = "low" THEN [c EXCEPT !.tokens = "high"]
    ELSE IF c.provider = "cloud" /\ c.tokens = "high" THEN [c EXCEPT !.tokens = "low"]
    ELSE c

\* --model replaces the model of what was loaded, in the dictionary only.
Forced(c) == IF forced = NoModel THEN c ELSE [c EXCEPT !.model = forced]

\* save_config: all of the dictionary, in a file that is renamed, or an exception
\* that is reported and forgotten.  Where the user is asked first, a no is the
\* same.
Saves(file, c) ==
    \/ saved' = (IF file = named THEN c ELSE saved) /\ apart' = (file # named)
    \/ UNCHANGED saved /\ apart' = TRUE

Goes(place) == prompt' = place

-----------------------------------------------------------------------------
\* Faulty variant: the adjusted limit is not written back.
LoadsOnly ==
    /\ prompt = "start"
    /\ settings' = Forced(Adjusted(saved)) /\ apart' = FALSE
    /\ Goes("checks")
    /\ UNCHANGED <<launch, saved, reread, agents, edits, restarts>>

\* The file is read and adjusted; only a limit that changed is written back.
LoadsAndAdjusts ==
    /\ prompt = "start"
    /\ LET c == Adjusted(saved) IN
       /\ IF c # saved THEN Saves(named, c) ELSE UNCHANGED saved /\ apart' = FALSE
       /\ settings' = Forced(c)
    /\ Goes("checks")
    /\ UNCHANGED <<launch, reread, agents, edits, restarts>>

\* startup_check: a missing directory ends the program; without a local server
\* the user is asked what to do; a cloud provider is only warned about.
ChecksStart ==
    /\ prompt = "checks"
    /\ \/ Goes("ended")
       \/ settings.provider = "cloud" /\ Goes("creates")
       \/ settings.provider = "ollama" /\ (Goes("no server") \/ Goes("verifies"))
    /\ UNCHANGED <<launch, saved, settings, reread, agents, apart, edits, restarts>>

\* The user configures a provider, which ends the program whether it is saved
\* or not; goes on without a model; or leaves.
ConfiguresProvider ==
    /\ prompt = "no server" /\ Goes("ended")
    /\ \E provider \in {"ollama", "cloud"}, model \in Models :
       LET c == Adjusted([settings EXCEPT !.provider = provider, !.model = model]) IN
       /\ settings' = c
       /\ Saves("config.json", c)
    /\ UNCHANGED <<launch, reread, agents, edits, restarts>>

GoesOnWithoutServer ==
    /\ prompt = "no server" /\ (Goes("creates") \/ Goes("ended"))
    /\ UNCHANGED <<launch, saved, settings, reread, agents, apart, edits, restarts>>

\* The model has to be installed: when others are, the user picks one, for good
\* or for this session, and a script gets the first.
VerifiesModel ==
    /\ prompt = "verifies" /\ Goes("creates")
    /\ IF settings.model \in Installed \/ Installed = {}
         THEN UNCHANGED <<saved, settings, apart>>
         ELSE \E model \in Installed :
              /\ settings' = [settings EXCEPT !.model = model]
              /\ Saves(named, settings')
    /\ UNCHANGED <<launch, reread, agents, edits, restarts>>

\* Search agent, multi-hop agent, processor: at the start all of them or none.
CreatesAgents ==
    /\ prompt = "creates"
    /\ \/ agents' = AllOf(1) /\ Goes("asks")
       \/ UNCHANGED agents /\ Goes("ended")
    /\ UNCHANGED <<launch, saved, settings, reread, apart, edits, restarts>>

-----------------------------------------------------------------------------
\* /settings: the editor changes the dictionary, category by category.  What is
\* not a value of a setting is refused by its prompt.
EditsSettings ==
    /\ prompt = "asks" /\ edits < EditsMax
    /\ \E c \in Configurations : settings' = c
    /\ edits' = edits + 1 /\ apart' = TRUE /\ Goes("save?")
    /\ UNCHANGED <<launch, saved, reread, agents, restarts>>

\* Yes to "Save settings?" writes the default file, whatever the program was
\* started with.
SavesSettings ==
    /\ prompt = "save?" /\ Goes("restart?")
    /\ Saves("config.json", settings)
    /\ UNCHANGED <<launch, settings, reread, agents, edits, restarts>>

\* A no, or an interrupt, at either question: the dictionary stays as edited.
KeepsTalking ==
    /\ prompt \in {"save?", "restart?"} /\ Goes("asks")
    /\ UNCHANGED <<launch, saved, settings, reread, agents, apart, edits, restarts>>

\* /restart, or yes after /settings: the file is read again, but not adjusted.
\* One that cannot be read ends the program.
Reloads ==
    /\ prompt \in {"asks", "restart?"} /\ restarts < RestartsMax
    /\ restarts' = restarts + 1
    /\ \/ reread' = Forced(saved) /\ Goes("rebuilds")
       \/ UNCHANGED reread /\ Goes("ended")
    /\ UNCHANGED <<launch, saved, settings, agents, apart, edits>>

\* _reinitialize_agents hands over all three, or raises with the search agent,
\* and the old ones stay.
Restarts ==
    /\ prompt = "rebuilds"
    /\ \/ agents' = AllOf(restarts + 1) /\ settings' = reread /\ Goes("asks")
          /\ apart' = (reread # Forced(saved))
       \/ UNCHANGED <<agents, settings, apart>> /\ Goes("asks")
    /\ UNCHANGED <<launch, saved, reread, edits, restarts>>

\* Faulty variant: each agent that can be made replaces its predecessor.
RestartsEach ==
    /\ prompt = "rebuilds" /\ settings' = reread /\ apart' = TRUE
    /\ agents' = [agents EXCEPT !.search = restarts + 1]
    /\ Goes("asks")
    /\ UNCHANGED <<launch, saved, reread, edits, restarts>>

\* Without a multi-hop agent or a processor there is a search agent only, and
\* the interactive mode, which wants a processor, ends at once.
RestartsHalf ==
    /\ prompt = "rebuilds" /\ settings' = reread /\ apart' = TRUE
    /\ \E multihop \in {0, restarts + 1} :
       agents' = [search |-> restarts + 1, multihop |-> multihop, asks |-> 0, hops |-> 0]
    /\ Goes("ended")
    /\ UNCHANGED <<launch, saved, reread, edits, restarts>>

\* /exit, and the end of a direct query.
Leaves ==
    /\ prompt = "asks" /\ Goes("ended")
    /\ UNCHANGED <<launch, saved, settings, reread, agents, apart, edits, restarts>>

\* Another program, or the user, writes the file the program was started with.
OthersWrite ==
    /\ edits < EditsMax /\ edits' = edits + 1
    /\ saved' \in Configurations /\ apart' = TRUE
    /\ UNCHANGED <<launch, settings, reread, agents, prompt, restarts>>

CommandLineNext ==
    \/ LoadsAndAdjusts \/ ChecksStart \/ ConfiguresProvider \/ GoesOnWithoutServer
    \/ VerifiesModel \/ CreatesAgents
    \/ EditsSettings \/ SavesSettings \/ KeepsTalking
    \/ Reloads \/ Restarts \/ RestartsHalf \/ Leaves \/ OthersWrite

CommandLineSpec == CommandLineInit /\ [][CommandLineNext]_commandLineVars

-----------------------------------------------------------------------------
CommandLineTypeOK ==
    /\ named \in Files /\ forced \in Models \union {NoModel}
    /\ {saved, settings, reread} \subseteq Configurations
    /\ agents \in [{"search", "multihop", "asks", "hops"} -> 0 .. RestartsMax + 1]
    /\ prompt \in {"start", "checks", "no server", "verifies", "creates", "asks", "save?",
                   "restart?", "rebuilds", "ended"}
    /\ apart \in BOOLEAN /\ edits \in 0 .. EditsMax /\ restarts \in 0 .. RestartsMax

\* While the program takes questions, whatever failed at a restart, the agents
\* that the processor asks are those that the commands act on.
AgentsBelong ==
    /\ agents.search # 0
    /\ agents.search = agents.asks /\ agents.multihop = agents.hops
    /\ agents.search = agents.multihop

\* And the settings in force are those of the file the program was started with,
\* as it is now, with the model of --model or without, unless a save failed or was
\* declined, or another program wrote the file.
ProgramWhole ==
    prompt \in {"asks", "save?", "restart?", "rebuilds"} =>
        AgentsBelong /\ (~apart => settings \in {saved, Forced(saved)})
=============================================================================
