------------------------------ MODULE Session ------------------------------
(***************************************************************************)
(* The session of the search agent (core/agent/session.py) and the path of *)
(* a query through it (SearchAgent.query in core/agent/agent.py).  A query *)
(* may be answered from the response cache, which leaves no trace; if not  *)
(* it searches or loads pages of an earlier search, asks the model, and    *)
(* records the turn: history, loaded pages, cache, session.json.  Worker   *)
(* threads share the agent; commands clear, save and load the session.     *)
(*                                                                         *)
(* A turn, and the results of its search, are known by its number.  A page *)
(* is known by its key in loaded_pages_cache: the number of a result, an   *)
(* integer until json.dump makes a string of it; of cached_at the order    *)
(* counts.  The cache is taken as a map that may lose entries; module      *)
(* Cache has its inside.                                                   *)
(***************************************************************************)
EXTENDS Naturals, Sequences, FiniteSets

CONSTANTS
    Queriers,      \* threads that run SearchAgent.query
    Commanders,    \* threads that clear, save and load
    Questions,
    ResultNums,    \* numbers of the results of a search
    Outcomes,      \* whether the model gives an answer: TRUE, FALSE or either
    MaxHistory,    \* max_history
    MaxPages,      \* MAX_CACHED_PAGES
    MaxTurns,      \* bound: queries that reach an agent
    None, Garbled

ASSUME NumberAssumption == ResultNums \subseteq Nat /\ Outcomes \subseteq BOOLEAN
ASSUME LimitAssumption == {MaxHistory, MaxPages, MaxTurns} \subseteq Nat \ {0}

Threads == Queriers \union Commanders
Turns == 1 .. MaxTurns

PageKey == {"int", "str"} \X ResultNums
Answer == [turn : Turns, ok : BOOLEAN]
Snapshot == [history : Seq(Turns), results : 0 .. MaxTurns, pages : [PageKey -> Nat]]

ASSUME MarkAssumption ==
    /\ None # Garbled
    /\ None \notin Snapshot \union Answer \union Questions /\ Garbled \notin Snapshot

VARIABLES
    turns,      \* number of the latest query
    history,    \* conversation_history, as numbers of turns
    results,    \* last_search_results: the turn that searched, 0 if empty
    pages,      \* loaded_pages_cache: the age of each key, 1 the youngest, 0 if it is not there
    cache,      \* cache[q]: the answer the response cache holds
    file, tmp,  \* what session.json and session.json.tmp hold
    job,        \* job[t]: where thread t is in which operation, and its locals
    cleared,    \* history: latest turn when a clear was last reported done
    unsaved,    \* history: a change was not followed by a save
    crossed,    \* history: a clear or a load overlapped another operation
    clash       \* history: two saves overlapped

state == <<history, results, pages>>
disk == <<file, tmp>>
marks == <<cleared, unsaved, crossed, clash>>
vars == <<turns, state, cache, disk, job, marks>>

Idle == [at |-> "idle", turn |-> 0, key |-> None, num |-> 0, ok |-> TRUE,
         kept |-> <<>>, gone |-> {}, dump |-> None]

At(t, label) == job[t].at = label
Goto(t, label) == job' = [job EXCEPT ![t].at = label]
Done(t) == job' = [job EXCEPT ![t] = Idle]
Quiet == \A t \in Threads : At(t, "idle")

Last(s, n) == IF Len(s) > n THEN SubSeq(s, Len(s) - n + 1, Len(s)) ELSE s

NoPages == [k \in PageKey |-> 0]
Loaded == {k \in PageKey : pages[k] # 0}

\* loaded_pages_cache[k] = ..., with the time of day
AsYoungest(k) ==
    [j \in PageKey |-> IF j = k THEN 1 ELSE IF j \in Loaded THEN pages[j] + 1 ELSE 0]

\* json.dump and json.load: keys come back as strings; of two keys with the same
\* number the one written last, which is the integer, remains.
AsStored(p) ==
    [k \in PageKey |->
        IF k[1] = "int" THEN 0
        ELSE IF p[<<"int", k[2]>>] # 0 THEN p[<<"int", k[2]>>] ELSE p[k]]

Current == [history |-> history, results |-> results, pages |-> AsStored(pages)]

Empty == [history |-> <<>>, results |-> 0, pages |-> NoPages]

Init ==
    /\ turns = 0 /\ cleared = 0
    /\ history = <<>> /\ results = 0
    /\ pages = NoPages
    /\ cache = [q \in Questions |-> None]
    /\ file = None /\ tmp = None
    /\ job = [t \in Threads |-> Idle]
    /\ unsaved = FALSE /\ crossed = FALSE /\ clash = FALSE

\* A clear or a load has the session to itself or crosses what others do.
Clearing(t) == job[t].at \in {"clear_cache", "unlink"}

BeginQuery(t) ==
    /\ t \in Queriers
    /\ At(t, "idle")
    /\ turns < MaxTurns
    /\ turns' = turns + 1
    /\ crossed' = (crossed \/ \E u \in Threads : Clearing(u))

BeginReplacing(t) ==
    /\ t \in Commanders
    /\ At(t, "idle")
    /\ crossed' = (crossed \/ ~Quiet)

-----------------------------------------------------------------------------
\* query: a question that may be answered from the cache (q) and is not in it, or one
\* that must be answered afresh (None): context mode, explicit search
AskFresh(t) ==
    /\ BeginQuery(t)
    /\ \E q \in Questions \union {None} :
          /\ cache' = IF q = None THEN cache ELSE [cache EXCEPT ![q] = None]
          /\ job' = [job EXCEPT ![t] = [Idle EXCEPT !.at = "route", !.turn = turns', !.key = q]]
    /\ UNCHANGED <<state, disk, cleared, unsaved, clash>>

\* query: "source n", never cached; without results the answer says so
AskAboutResults(t) ==
    /\ BeginQuery(t)
    /\ \E n \in ResultNums :
          job' = [job EXCEPT ![t] =
             IF results = 0 THEN [Idle EXCEPT !.at = "generate", !.turn = turns']
             ELSE [Idle EXCEPT !.at = "load", !.turn = turns', !.num = n]]
    /\ UNCHANGED <<state, cache, disk, cleared, unsaved, clash>>

\* execute_web_search and the OSINT searches: the results replace the last ones
Search(t) ==
    /\ At(t, "route")
    /\ results' = job[t].turn
    /\ Goto(t, "generate")
    /\ UNCHANGED <<turns, history, pages, cache, disk, marks>>

\* _load_one_result_page: the page is read, or is not, and the next in the order of the
\* numbers looked up in the results
LoadPage(t) ==
    /\ At(t, "load")
    /\ pages' \in {pages, AsYoungest(<<"int", job[t].num>>)}
    /\ \/ job' = [job EXCEPT ![t] = [@ EXCEPT !.at = "generate", !.num = 0]]
       \/ /\ results # 0
          /\ \E n \in ResultNums : n > job[t].num /\ job' = [job EXCEPT ![t].num = n]
    /\ UNCHANGED <<turns, history, results, cache, disk, marks>>

Asking(t) == job[t].at \in {"route", "load", "generate"}

\* An exception reaches query, which apologises and records nothing.
QueryFails(t) ==
    /\ Asking(t)
    /\ Done(t)
    /\ unsaved' = TRUE
    /\ UNCHANGED <<turns, state, cache, disk, cleared, crossed, clash>>

-----------------------------------------------------------------------------
\* record_history: the keys of the oldest pages beyond MAX_CACHED_PAGES
Oldest == {k \in Loaded : Cardinality({j \in Loaded : pages[j] < pages[k]}) >= MaxPages}

\* The model answers, or generate_final_answer turns its failure into an answer that says
\* sorry.  record_history: the append, and the slice of a history that is too long.
AppendTurn(t) ==
    /\ Asking(t) /\ ~At(t, "load")
    /\ history' = Append(history, job[t].turn)
    /\ \E ok \in Outcomes :
          job' = [job EXCEPT ![t] =
             IF Len(history') > MaxHistory
             THEN [@ EXCEPT !.at = "trim", !.num = 0, !.ok = ok, !.kept = Last(history', MaxHistory)]
             ELSE [@ EXCEPT !.at = "evict", !.num = 0, !.ok = ok, !.gone = Oldest]]
    /\ UNCHANGED <<turns, results, pages, cache, disk, marks>>

\* Faulty variant: the entry is added to a slice that has it already.
TrimTwice(t) ==
    /\ At(t, "trim")
    /\ history' = Append(job[t].kept, job[t].turn)
    /\ job' = [job EXCEPT ![t] = [@ EXCEPT !.at = "evict", !.kept = <<>>, !.gone = Oldest]]
    /\ UNCHANGED <<turns, results, pages, cache, disk, marks>>

\* record_history: the assignment of the slice
Trim(t) ==
    /\ At(t, "trim")
    /\ history' = job[t].kept
    /\ job' = [job EXCEPT ![t] = [@ EXCEPT !.at = "evict", !.kept = <<>>, !.gone = Oldest]]
    /\ UNCHANGED <<turns, results, pages, cache, disk, marks>>

\* record_history: del, which raises when another thread has deleted the key
DeletePage(t) ==
    /\ At(t, "evict")
    /\ job[t].gone # {}
    /\ \E k \in job[t].gone :
       IF k \in Loaded
       THEN /\ pages' = [pages EXCEPT ![k] = 0]
            /\ job' = [job EXCEPT ![t].gone = @ \ {k}]
            /\ unsaved' = unsaved
       ELSE /\ pages' = pages
            /\ Done(t)
            /\ unsaved' = TRUE
    /\ UNCHANGED <<turns, history, results, cache, disk, cleared, crossed, clash>>

\* Faulty variant: a turn that is not cached is not saved either.
StoreAnswerOrStop(t) ==
    /\ At(t, "evict")
    /\ job[t].gone = {}
    /\ cache' = IF job[t].key = None THEN cache
                ELSE [cache EXCEPT ![job[t].key] = [turn |-> job[t].turn, ok |-> job[t].ok]]
    /\ IF job[t].key = None THEN Done(t) ELSE Goto(t, "save")
    /\ UNCHANGED <<turns, state, disk, marks>>

\* _record_query_result: cache.set, whose failure is only logged
StoreAnswer(t) ==
    /\ At(t, "evict")
    /\ job[t].gone = {}
    /\ cache' \in IF job[t].key = None THEN {cache}
                  ELSE {cache, [cache EXCEPT ![job[t].key] = [turn |-> job[t].turn, ok |-> job[t].ok]]}
    /\ Goto(t, "save")
    /\ UNCHANGED <<turns, state, disk, marks>>

-----------------------------------------------------------------------------
\* Another save is between opening and renaming the temp file.
Contended(t) == \E u \in Threads \ {t} : At(u, "replace")

BeginSave(t) ==
    /\ \/ At(t, "save")
       \/ At(t, "idle") /\ t \in Commanders
    /\ clash' = (clash \/ Contended(t))

\* save: open the temp file and dump
Dump(t) ==
    /\ BeginSave(t)
    /\ tmp' = Current
    /\ job' = [job EXCEPT ![t] = [Idle EXCEPT !.at = "replace", !.dump = Current]]
    /\ unsaved' = FALSE
    /\ UNCHANGED <<turns, state, cache, file, cleared, crossed>>

\* Faulty variant: the session is written into the file itself.
SaveFailsInPlace(t) ==
    /\ BeginSave(t)
    /\ file' = Garbled
    /\ Done(t)
    /\ unsaved' = TRUE
    /\ UNCHANGED <<turns, state, cache, tmp, cleared, crossed>>

\* save: an exception in between is logged and forgotten; what is left of the temp file
\* is read only if another save renames it
SaveFails(t) ==
    /\ BeginSave(t)
    /\ tmp' = IF Contended(t) THEN Garbled ELSE None
    /\ Done(t)
    /\ unsaved' = TRUE
    /\ UNCHANGED <<turns, state, cache, file, cleared, crossed>>

\* save: tmp_file.replace.  Of two savers the first installs what either has written or a
\* mixture; the second finds no temp file and fails, but has written into the file itself.
Replace(t) ==
    /\ At(t, "replace")
    /\ Done(t)
    /\ LET mixed == {job[t].dump, Garbled} IN
       IF tmp # None
       THEN /\ file' \in {tmp} \union (IF Contended(t) THEN mixed ELSE {})
            /\ tmp' = None
            /\ unsaved' = unsaved
       ELSE /\ file' \in {file} \union (IF file = None THEN {} ELSE mixed)
            /\ tmp' = tmp
            /\ unsaved' = TRUE
    /\ UNCHANGED <<turns, state, cache, cleared, crossed, clash>>

-----------------------------------------------------------------------------
\* What load leaves in memory when the file holds f.
Holds(f) == history' = f.history /\ results' = f.results /\ pages' = f.pages

\* load: a file that is missing or cannot be parsed changes nothing.  Its limits on the
\* lists (200, 50) are above what is ever saved.
Load(t) ==
    /\ BeginReplacing(t)
    /\ file \notin {None, Garbled}
    /\ Holds(file)
    /\ unsaved' = FALSE
    /\ UNCHANGED <<turns, cache, disk, job, cleared, clash>>

\* clear_session: clear_state
ClearState(t) ==
    /\ BeginReplacing(t)
    /\ Holds(Empty)
    /\ Goto(t, "clear_cache")
    /\ UNCHANGED <<turns, cache, disk, cleared, unsaved, clash>>

\* clear_session: cache.clear
ClearCache(t) ==
    /\ At(t, "clear_cache")
    /\ cache' = [q \in Questions |-> None]
    /\ Goto(t, "unlink")
    /\ UNCHANGED <<turns, state, disk, marks>>

\* Faulty variant: the clear goes on when the cache could not be cleared.
ClearGoesOn(t) ==
    /\ At(t, "clear_cache")
    /\ \E gone \in SUBSET Questions :
          cache' = [q \in Questions |-> IF q \in gone THEN None ELSE cache[q]]
    /\ Goto(t, "unlink")
    /\ unsaved' = TRUE
    /\ UNCHANGED <<turns, state, disk, cleared, crossed, clash>>

\* clear_session: cache.clear raises half-way, or unlink: the file stays, the caller is told
ClearFails(t) ==
    /\ Clearing(t)
    /\ \E gone \in IF At(t, "unlink") THEN {{}} ELSE SUBSET Questions :
          cache' = [q \in Questions |-> IF q \in gone THEN None ELSE cache[q]]
    /\ Done(t)
    /\ unsaved' = TRUE
    /\ UNCHANGED <<turns, state, disk, cleared, crossed, clash>>

\* clear_session: the session file is deleted, the clear reported
Unlink(t) ==
    /\ At(t, "unlink")
    /\ file' = None
    /\ cleared' = turns
    /\ unsaved' = FALSE
    /\ Done(t)
    /\ UNCHANGED <<turns, state, cache, tmp, crossed, clash>>

\* The process ends at any point; the next agent loads the session.  A temp file left
\* behind is never read, only written over: it counts as gone.
Restart ==
    /\ Holds(IF file \in {None, Garbled} THEN Empty ELSE file)
    /\ job' = [t \in Threads |-> Idle]
    /\ tmp' = None
    /\ unsaved' = FALSE
    /\ UNCHANGED <<turns, cache, file, cleared, crossed, clash>>

Query(t) ==
    \/ AskFresh(t) \/ AskAboutResults(t)
    \/ Search(t) \/ LoadPage(t) \/ QueryFails(t)
    \/ AppendTurn(t) \/ Trim(t) \/ DeletePage(t) \/ StoreAnswer(t)

Save(t) == Dump(t) \/ SaveFails(t) \/ Replace(t)

Command(t) ==
    \/ Load(t) \/ ClearState(t) \/ ClearCache(t) \/ ClearFails(t) \/ Unlink(t)

Next == (\E t \in Threads : Query(t) \/ Save(t) \/ Command(t)) \/ Restart

Spec == Init /\ [][Next]_vars

-----------------------------------------------------------------------------
Labels == {"idle", "route", "load", "generate", "trim", "evict", "save", "replace",
           "clear_cache", "unlink"}

Job == [at : Labels, turn : 0 .. MaxTurns, key : Questions \union {None},
        num : ResultNums \union {0}, ok : BOOLEAN, kept : Seq(Turns),
        gone : SUBSET PageKey, dump : Snapshot \union {None}]

Typed ==
    /\ turns \in 0 .. MaxTurns /\ cleared \in 0 .. MaxTurns
    /\ history \in Seq(Turns)
    /\ results \in 0 .. MaxTurns
    /\ pages \in [PageKey -> Nat]
    /\ cache \in [Questions -> Answer \union {None}]
    /\ file \in Snapshot \union {None, Garbled}
    /\ tmp \in Snapshot \union {None, Garbled}
    /\ job \in [Threads -> Job]
    /\ unsaved \in BOOLEAN /\ crossed \in BOOLEAN /\ clash \in BOOLEAN

Distinct(s) == \A i, j \in DOMAIN s : s[i] = s[j] => i = j

\* Above all: no turn is recorded twice, whatever interleaves.
TypeOK == Typed /\ Distinct(history)

\* session.json can be loaded, whenever the process ends, as long as no two saves
\* overlapped (session.py:76, "a crash mid-write can no longer truncate/corrupt").
ReadableUnlessClash == file = Garbled => clash

\* When nothing is under way, the file holds what the session holds, though queries and
\* their saves interleaved: a restart then loses nothing.  Excepted are a query or a save
\* that failed, and a clear or a load in the middle of something (agent.py, "Auto-save
\* session after each query").
QuietIsSaved ==
    Quiet /\ ~unsaved /\ ~crossed /\ ~clash =>
        Current = IF file = None THEN Empty ELSE file

\* Of the turns before a clear that was reported done nothing comes back, from the file,
\* the cache or a thread, as long as no clear or load crossed another operation
\* (clear_session, "Clear all session data").
ClearedStaysCleared ==
    ~crossed =>
        LET Gone(n) == n \in 1 .. cleared IN
        /\ ~Gone(results) /\ \A i \in DOMAIN history : ~Gone(history[i])
        /\ \A q \in Questions : cache[q] # None => ~Gone(cache[q].turn)
        /\ file \notin {None, Garbled} =>
              ~Gone(file.results) /\ \A i \in DOMAIN file.history : ~Gone(file.history[i])

\* A follow-up question finds the context it is built from: loaded pages can be put in the
\* order of their keys (_loaded_pages_context_sections sorts them and raises if numbers
\* and strings are mixed, upon which the whole context is dropped).
FollowUpHasContext ==
    history # <<>> => \A j, k \in Loaded : j[1] = k[1]
=============================================================================
