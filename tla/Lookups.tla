------------------------------ MODULE Lookups ------------------------------
(***************************************************************************)
(* What the OSINT analyses ask of the network: name lookups under the      *)
(* default time-out of the process's sockets, raw connections, web         *)
(* requests, and profile pages for which robots.txt is read first; and Tor *)
(* mode, which the startup of the program activates and verifies before    *)
(* any of it.                                                              *)
(*                                                                         *)
(* An analysis goes through its stages in order, each of which may fail by *)
(* itself.  What the answers contain is left out, except whether a name    *)
(* has addresses and whether a profile exists.                             *)
(***************************************************************************)
EXTENDS Naturals, Sequences

CONSTANTS
    Analysts,      \* worker threads
    Analyses,      \* the kinds of analysis they are asked for
    Platforms,     \* number of the sites a name is looked for on
    EnoughFound,   \* 3 in the code: with fewer, variations of the name are tried
    LookupsMax     \* bound on the analyses

ASSUME LookupsAssumption ==
    /\ Analyses \subseteq {"domain", "company", "email", "ip", "username"}
    /\ Platforms \in Nat \ {0} /\ EnoughFound \in Nat /\ LookupsMax \in Nat

Sites == 1 .. Platforms     \* in the order they are tried

DomainStages == <<"a", "aaaa", "records", "reverse", "geolocation", "port">>
Stages == [domain   |-> DomainStages,
           company  |-> <<"searches">> \o DomainStages,
           email    |-> <<"host", "breaches", "profiles", "breaches">>,
           ip       |-> <<"services", "pointer", "whois">>,
           username |-> <<"profiles">>]

InBlock == {"a", "aaaa", "reverse"}             \* under _socket_timeout
Raw == InBlock \union {"records", "port", "host", "pointer"}    \* no proxy can carry them
Web == {"searches", "geolocation", "services", "whois", "breaches"}
NeedsAddress == {"reverse", "geolocation"}

NoRequest == [raw |-> FALSE, tor |-> FALSE, site |-> 0, unread |-> FALSE]
Resting == [at |-> "idle", todo |-> <<>>, old |-> "none", address |-> FALSE,
            place |-> 1, round |-> 1, found |-> 0, robots |-> [s \in Sites |-> "unknown"]]

VARIABLES
    torWanted,       \* what environment and configuration say
    torActive,       \* tor_mode._active_config is set
    proxies,         \* of the environment: "own" or "tor"
    startup,         \* "begins", "verifies", "serves" or "refused"
    socketDefault,   \* socket.getdefaulttimeout(): "none" or "five"
    analyst,         \* by thread, where it is
    rules,           \* by site, what robots.txt says, "none" without one
    sent,            \* the last request that went out (history)
    overlapped,      \* two blocks were open at a time (history)
    lookups          \* analyses begun

torVars == <<torWanted, torActive, proxies, startup>>
lookupVars == <<torWanted, torActive, proxies, startup, socketDefault, analyst, rules, sent,
                overlapped, lookups>>

LookupsInit ==
    /\ torWanted \in BOOLEAN /\ torActive = FALSE /\ proxies = "own" /\ startup = "begins"
    /\ socketDefault = "none" /\ analyst = [t \in Analysts |-> Resting]
    /\ rules \in [Sites -> {"allow", "deny", "none"}]
    /\ sent = NoRequest /\ overlapped = FALSE /\ lookups = 0

-----------------------------------------------------------------------------
\* initialize_tor_mode: a configuration that cannot be read, or a check that
\* fails, ends the program.
ConfigurationFails ==
    /\ startup = "begins" /\ startup' = "refused"
    /\ UNCHANGED <<torWanted, torActive, proxies>>

WithoutTor ==
    /\ startup = "begins" /\ ~torWanted /\ startup' = "serves"
    /\ UNCHANGED <<torWanted, torActive, proxies>>

Activate ==
    /\ startup = "begins" /\ torWanted /\ startup' = "verifies"
    /\ torActive' = TRUE /\ proxies' = "tor"
    /\ UNCHANGED torWanted

Verified ==
    /\ startup = "verifies" /\ startup' = "serves"
    /\ UNCHANGED <<torWanted, torActive, proxies>>

\* What a plausible change would do: go on without Tor.
GoesOnWithout ==
    /\ startup = "verifies" /\ startup' = "serves"
    /\ torActive' = FALSE /\ proxies' = "own"
    /\ UNCHANGED torWanted

CheckFails ==
    /\ startup = "verifies" /\ startup' = "refused"
    /\ torActive' = FALSE /\ proxies' = "own"
    /\ UNCHANGED torWanted

-----------------------------------------------------------------------------
AnalystAt(t, place) == analyst[t].at = place
Stage(t) == Head(analyst[t].todo)
Site(t) == analyst[t].place

Becomes(t, record) == analyst' = [analyst EXCEPT ![t] = record]
Request(raw, site, unread) ==
    sent' = [raw |-> raw, tor |-> torActive, site |-> site, unread |-> unread]

\* The stage is over; without an address those that need one are left out.
Rest(t, address) ==
    LET rest == Tail(analyst[t].todo)
        kept == SelectSeq(rest, LAMBDA s : address \/ s \notin NeedsAddress)
    IN  IF kept = <<>> THEN Resting
        ELSE [Resting EXCEPT !.at = "stage", !.todo = kept, !.address = address]
StageDone(t, address) == Becomes(t, Rest(t, address))

\* A private address is not looked up, nor what is no domain or address.
Analyse(t) ==
    /\ AnalystAt(t, "idle") /\ startup = "serves" /\ lookups < LookupsMax
    /\ lookups' = lookups + 1
    /\ \/ \E kind \in Analyses :
            Becomes(t, [Resting EXCEPT !.at = "stage", !.todo = Stages[kind], !.address = TRUE])
       \/ UNCHANGED analyst
    /\ UNCHANGED <<socketDefault, sent, overlapped>>

\* A request through the proxy, or a raw one, which Tor mode leaves out: such
\* a name has no addresses.  A company may turn out to have no domain.
AsksWeb(t) ==
    /\ AnalystAt(t, "stage") /\ Stage(t) \in Web
    /\ Request(FALSE, 0, FALSE)
    /\ \/ StageDone(t, analyst[t].address)
       \/ Stage(t) = "searches" /\ Becomes(t, Resting)
    /\ UNCHANGED <<socketDefault, overlapped, lookups>>

SkipsRaw(t) ==
    /\ AnalystAt(t, "stage") /\ Stage(t) \in Raw /\ torActive
    /\ StageDone(t, analyst[t].address /\ Stage(t) # "a")
    /\ UNCHANGED <<socketDefault, sent, overlapped, lookups>>

AsksRaw(t) ==
    /\ AnalystAt(t, "stage") /\ Stage(t) \in Raw \ InBlock /\ ~torActive
    /\ Request(TRUE, 0, FALSE)
    /\ StageDone(t, analyst[t].address)
    /\ UNCHANGED <<socketDefault, overlapped, lookups>>

-----------------------------------------------------------------------------
\* _socket_timeout: the default is read, set, and put back whatever happens.
InsideBlock(t) == analyst[t].at \in {"set", "resolve", "restore"}

ReadsDefault(t) ==
    /\ AnalystAt(t, "stage") /\ Stage(t) \in InBlock /\ ~torActive
    /\ Becomes(t, [analyst[t] EXCEPT !.at = "set", !.old = socketDefault])
    /\ overlapped' = (overlapped \/ \E u \in Analysts \ {t} : InsideBlock(u))
    /\ UNCHANGED <<socketDefault, sent, lookups>>

SetsDefault(t) ==
    /\ AnalystAt(t, "set") /\ socketDefault' = "five"
    /\ Becomes(t, [analyst[t] EXCEPT !.at = "resolve"])
    /\ UNCHANGED <<sent, overlapped, lookups>>

\* A plausible change without the finally clause: an error leaves the block.
ResolvesBarely(t) ==
    /\ AnalystAt(t, "resolve")
    /\ Request(TRUE, 0, FALSE)
    /\ \/ Becomes(t, [analyst[t] EXCEPT !.at = "restore"])
       \/ StageDone(t, FALSE)
    /\ UNCHANGED <<socketDefault, overlapped, lookups>>

Resolves(t) ==
    /\ AnalystAt(t, "resolve")
    /\ Request(TRUE, 0, FALSE)
    /\ \E known \in BOOLEAN :
         Becomes(t, [analyst[t] EXCEPT !.at = "restore",
                                       !.address = IF Stage(t) = "a" THEN known ELSE @])
    /\ UNCHANGED <<socketDefault, overlapped, lookups>>

RestoresDefault(t) ==
    /\ AnalystAt(t, "restore") /\ socketDefault' = analyst[t].old
    /\ StageDone(t, analyst[t].address)
    /\ UNCHANGED <<sent, overlapped, lookups>>

-----------------------------------------------------------------------------
\* robots.txt of a site is read once an analysis; when that fails the site
\* counts as one without it.
ReadsRobots(t) ==
    /\ AnalystAt(t, "stage") /\ Stage(t) = "profiles" /\ analyst[t].robots[Site(t)] = "unknown"
    /\ Request(FALSE, 0, FALSE)
    /\ \E answer \in {rules[Site(t)], "none"} :
         Becomes(t, [analyst[t] EXCEPT !.robots[Site(t)] = answer])
    /\ UNCHANGED <<socketDefault, overlapped, lookups>>

\* The next site; after the last one, variations of the name when too few
\* sites know it, on the same sites.
NextSite(t, found) ==
    IF analyst[t].place < Platforms
    THEN Becomes(t, [analyst[t] EXCEPT !.place = @ + 1, !.found = found])
    ELSE IF analyst[t].round = 1 /\ found < EnoughFound
         THEN Becomes(t, [analyst[t] EXCEPT !.place = 1, !.round = 2, !.found = found])
         ELSE StageDone(t, analyst[t].address)

Forbidden(t) ==
    /\ AnalystAt(t, "stage") /\ Stage(t) = "profiles" /\ analyst[t].robots[Site(t)] = "deny"
    /\ NextSite(t, analyst[t].found)
    /\ UNCHANGED <<socketDefault, sent, overlapped, lookups>>

\* The profile counts once the first request finds it, though the second fails.
ProbesProfile(t) ==
    /\ AnalystAt(t, "stage") /\ Stage(t) = "profiles"
    /\ analyst[t].robots[Site(t)] \in {"allow", "none"}
    /\ Request(FALSE, Site(t), analyst[t].robots[Site(t)] = "none")
    /\ \E known \in {0, 1} :
         NextSite(t, analyst[t].found + (IF analyst[t].round = 1 THEN known ELSE 0))
    /\ UNCHANGED <<socketDefault, overlapped, lookups>>

LookupsNext ==
    \/ /\ ConfigurationFails \/ WithoutTor \/ Activate \/ Verified \/ CheckFails
       /\ UNCHANGED <<socketDefault, analyst, rules, sent, overlapped, lookups>>
    \/ /\ \E t \in Analysts :
            \/ Analyse(t) \/ AsksWeb(t) \/ SkipsRaw(t) \/ AsksRaw(t)
            \/ ReadsDefault(t) \/ SetsDefault(t) \/ Resolves(t) \/ RestoresDefault(t)
            \/ ReadsRobots(t) \/ Forbidden(t) \/ ProbesProfile(t)
       /\ UNCHANGED <<torVars, rules>>

LookupsSpec == LookupsInit /\ [][LookupsNext]_lookupVars

-----------------------------------------------------------------------------
LookupsTypeOK ==
    /\ startup \in {"begins", "verifies", "serves", "refused"}
    /\ torActive \in BOOLEAN /\ proxies \in {"own", "tor"}
    /\ socketDefault \in {"none", "five"}
    /\ \A t \in Analysts : analyst[t].place \in 1 .. Platforms /\ analyst[t].found <= Platforms

\* What goes out is what was asked for: with Tor wanted, only requests that
\* went through it (tor_mode.initialize_tor_mode and the guards of the raw
\* lookups); and a profile page is requested against robots.txt only when
\* that could not be read.
RequestsAllowed ==
    /\ torWanted /\ sent # NoRequest => sent.tor /\ ~sent.raw
    /\ sent.site # 0 => rules[sent.site] # "deny" \/ sent.unread

\* As long as no two blocks were open at a time, the default time-out is the
\* one from before whenever none is open (domain_intel._socket_timeout).
AloneRestores ==
    ~overlapped /\ (\A t \in Analysts : ~InsideBlock(t)) => socketDefault = "none"

\* The docstring of _socket_timeout: "Temporarily set the global socket
\* timeout, restoring it afterwards."
TimeoutRestored == (\A t \in Analysts : ~InsideBlock(t)) => socketDefault = "none"
=============================================================================
