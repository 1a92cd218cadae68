--------------------------- MODULE SearchAnswers ---------------------------
(***************************************************************************)
(* The tools of a question (core/agent/tools_flow.py, result_flow.py):     *)
(* the web search with its three providers, its retries and its second     *)
(* searches for the sites the question names (tools/web_search.py), the    *)
(* results that the session keeps under their numbers, the pages loaded    *)
(* by number, and the list of sources under an answer.                     *)
(*                                                                         *)
(* A result is its URL.  The score of a result (tools/search_ranking.py)   *)
(* depends on texts that are left out: a ranking is any order.             *)
(***************************************************************************)
EXTENDS Naturals, FiniteSets, Sequences, SequencesExt, Lists

CONSTANTS
    Searchers,        \* worker threads, on one session
    Urls,
    Blacklisted,      \* of them
    SiteOf,           \* the site of a URL
    Wanted,           \* the sites that a question names: at most two
    Retries,          \* max_retries of _ddgs_with_retry
    MaxResults,       \* search.max_results
    SessionMax,       \* search.session_max_results
    ContextMax,       \* search.context_max_results
    QuestionsMax,     \* bound on the questions
    NoPage

ASSUME AnswersAssumption ==
    /\ Blacklisted \subseteq Urls /\ Wanted \in Seq(ToSet(Wanted))
    /\ {Retries, MaxResults, SessionMax, ContextMax, QuestionsMax} \subseteq Nat
    /\ Len(Wanted) <= MaxResults /\ MaxResults > 0
    /\ Len(Wanted) <= SessionMax /\ Len(Wanted) <= ContextMax
    /\ \A i, j \in DOMAIN Wanted : Wanted[i] = Wanted[j] => i = j

Results == BoundedSeq(Urls, MaxResults)
NoJob == [at |-> "idle", tool |-> "none", tries |-> 0, missing |-> <<>>, results |-> <<>>, extra |-> <<>>,
          numbers |-> {}, found |-> {}]

VARIABLES
    webJob,           \* webJob[a]: the question of a thread and where it is
    sessionResults,   \* last_search_results of the session
    loadedPages,      \* loaded_pages_cache: the URL behind a number
    answer,           \* the answer given last: its context and its list of sources
    questions

answersVars == <<webJob, sessionResults, loadedPages, answer, questions>>

AnswersInit ==
    /\ webJob = [a \in Searchers |-> NoJob]
    /\ sessionResults = <<>>
    /\ loadedPages = [n \in 1 .. SessionMax |-> NoPage]
    /\ answer = [results |-> <<>>, sources |-> <<>>]
    /\ questions = 0

-----------------------------------------------------------------------------
SitesOf(results) == {SiteOf[results[i]] : i \in DOMAIN results}

\* _filter_safe_results
Allowed(results) == Filtered(results, Urls \ Blacklisted)

\* rerank_results: any order of them
Rankings(results) ==
    {[i \in DOMAIN results |-> results[p[i]]] :
        p \in {q \in [DOMAIN results -> DOMAIN results] : IsInjective(q)}}

\* _merge_unique_results, and what the session keeps of a list: each URL once
Unique(results) ==
    LET places == [i \in DOMAIN results |-> i]
        first == Filtered(places, {i \in DOMAIN results : \A j \in 1 .. i - 1 : results[j] # results[i]})
    IN [n \in DOMAIN first |-> results[first[n]]]

Cut(results, n) == SubSeq(results, 1, IF Len(results) < n THEN Len(results) ELSE n)

\* _promote_domain_matches: the first result of each wanted site to the front,
\* then the others
Promoted(results) ==
    LET matching == Filtered(Wanted, SitesOf(results))
        firstOf(site) == results[CHOOSE i \in DOMAIN results :
                            /\ SiteOf[results[i]] = site
                            /\ \A j \in 1 .. i - 1 : SiteOf[results[j]] # site]
        front == [i \in DOMAIN matching |-> firstOf(matching[i])]
    IN front \o Filtered(results, Urls \ {front[i] : i \in DOMAIN front})

\* Faulty variant: the list is cut to its length first.
BestOfFirst(results) == Promoted(Cut(results, MaxResults))

\* What search_with_fallback returns of the ranked results
Best(results) == Cut(Promoted(results), MaxResults)

-----------------------------------------------------------------------------
\* query_with_tools: a search, another tool, or results of an earlier search by
\* number, loaded one after the other or (a connection) without keeping them
AsksQuestion(a) ==
    /\ webJob[a].at = "idle" /\ questions < QuestionsMax
    /\ questions' = questions + 1
    /\ \/ \E tool \in {"wiki", "rag", "none"} :
            webJob' = [webJob EXCEPT ![a] = [NoJob EXCEPT !.at = "generate", !.tool = tool]]
       \/ webJob' = [webJob EXCEPT ![a] = [NoJob EXCEPT !.at = "search", !.tool = "web"]]
       \/ \E numbers \in SUBSET (1 .. SessionMax) :
            /\ numbers # {} /\ \A n \in numbers : n <= Len(sessionResults)
            /\ \E tool \in {"pages", "connection"} :
                 webJob' = [webJob EXCEPT ![a] = [NoJob EXCEPT !.at = "load", !.tool = tool, !.numbers = numbers]]
    /\ UNCHANGED <<sessionResults, loadedPages, answer>>

\* The site searches that are left, after one that gave `more`
NextSearch(a, results, extra, missing, more) ==
    webJob' = [webJob EXCEPT ![a] = [webJob[a] EXCEPT
        !.at = IF results = <<>> THEN "brave" ELSE IF missing = <<>> THEN "promote" ELSE "search",
        !.tries = 0, !.results = results, !.extra = extra, !.missing = missing,
        !.found = @ \union SitesOf(more)]]

\* What a search of a has found, blacklisted URLs removed: for the question
\* itself, or for a site; a site without any is looked for by itself.
Found(a, ranked) ==
    IF webJob[a].missing = <<>>
    THEN NextSearch(a, ranked, <<>>, Filtered(Wanted, ToSet(Wanted) \ SitesOf(ranked)), ranked)
    ELSE NextSearch(a, webJob[a].results, webJob[a].extra \o ranked, Tail(webJob[a].missing), ranked)

\* A search that answers: web_search.  One for a site finds pages of it.
SearchAnswers(a) ==
    /\ webJob[a].at = "search"
    /\ \E raw \in Results :
         /\ webJob[a].missing # <<>> => SitesOf(raw) \subseteq {Head(webJob[a].missing)}
         /\ \E ranked \in Rankings(Allowed(raw)) : Found(a, ranked)
    /\ UNCHANGED <<sessionResults, loadedPages, answer, questions>>

\* _ddgs_with_retry: another try, or none is left and nothing was found
SearchFails(a) ==
    /\ webJob[a].at = "search"
    /\ IF webJob[a].tries < Retries THEN webJob' = [webJob EXCEPT ![a].tries = @ + 1] ELSE Found(a, <<>>)
    /\ UNCHANGED <<sessionResults, loadedPages, answer, questions>>

\* The results of the site searches are merged in and all are ranked again.
Promotes(a) ==
    /\ webJob[a].at = "promote"
    /\ \E ranked \in IF webJob[a].extra = <<>> THEN {webJob[a].results}
                      ELSE Rankings(Unique(webJob[a].results \o webJob[a].extra)) :
         webJob' = [webJob EXCEPT ![a].at = "store", ![a].results = Best(ranked), ![a].extra = <<>>]
    /\ UNCHANGED <<sessionResults, loadedPages, answer, questions>>

\* brave_search, then serper_search: what the first that does not raise has
\* found is returned, though it be nothing.
OtherProvider(a, at, next) ==
    /\ webJob[a].at = at
    /\ \/ \E raw \in Results : \E ranked \in Rankings(Allowed(raw)) :
            webJob' = [webJob EXCEPT ![a].at = "store", ![a].results = ranked]
       \/ webJob' = [webJob EXCEPT ![a].at = next]
    /\ UNCHANGED <<sessionResults, loadedPages, answer, questions>>

\* execute_web_search: results go to the session, under their numbers; none
\* leave there what is there.
Stores(a) ==
    LET compact == Cut(Unique(webJob[a].results), SessionMax) IN
    /\ webJob[a].at = "store"
    /\ sessionResults' = IF compact = <<>> THEN sessionResults ELSE compact
    /\ webJob' = [webJob EXCEPT ![a].at = "generate", ![a].results = Cut(compact, ContextMax)]
    /\ UNCHANGED <<loadedPages, answer, questions>>

\* The next page by number, as the session has it now; it may not be readable.
LoadsPage(a) ==
    /\ webJob[a].at = "load"
    /\ \E n \in webJob[a].numbers :
         /\ \A m \in webJob[a].numbers : n <= m
         /\ webJob' = [webJob EXCEPT ![a].numbers = @ \ {n},
                               ![a].at = IF webJob[a].numbers = {n} THEN "finish" ELSE "load"]
         /\ loadedPages' \in {loadedPages} \union
                (IF webJob[a].tool = "pages" /\ n <= Len(sessionResults) /\ sessionResults[n] \notin Blacklisted
                 THEN {[loadedPages EXCEPT ![n] = sessionResults[n]]} ELSE {})
    /\ UNCHANGED <<sessionResults, answer, questions>>

\* The answer, without a list of sources of the session
Finishes(a) ==
    /\ webJob[a].at = "finish"
    /\ webJob' = [webJob EXCEPT ![a] = NoJob]
    /\ answer' = [results |-> <<>>, sources |-> <<>>]
    /\ UNCHANGED <<sessionResults, loadedPages, questions>>

\* generate_final_answer: under the answer, the results that the session has
\* now; none under the apology for a model that failed
Generates(a) ==
    /\ webJob[a].at = "generate"
    /\ \E sources \in {sessionResults, <<>>} :
         answer' = [results |-> webJob[a].results, sources |-> sources]
    /\ webJob' = [webJob EXCEPT ![a] = NoJob]
    /\ UNCHANGED <<sessionResults, loadedPages, questions>>

AnswersNext ==
    \E a \in Searchers :
        \/ AsksQuestion(a) \/ SearchAnswers(a) \/ SearchFails(a) \/ Promotes(a)
        \/ OtherProvider(a, "brave", "serper") \/ OtherProvider(a, "serper", "store")
        \/ Stores(a) \/ LoadsPage(a) \/ Finishes(a) \/ Generates(a)

AnswersSpec == AnswersInit /\ [][AnswersNext]_answersVars

-----------------------------------------------------------------------------
AnswersTypeOK ==
    /\ \A a \in Searchers :
         /\ webJob[a].at \in {"idle", "search", "promote", "brave", "serper", "store", "generate", "load", "finish"}
         /\ webJob[a].tool \in {"none", "wiki", "rag", "web", "pages", "connection"}
         /\ webJob[a].tries \in 0 .. Retries
         /\ \A i \in DOMAIN webJob[a].missing : \E j \in DOMAIN Wanted : webJob[a].missing[i] = Wanted[j]
         /\ webJob[a].results \in Results /\ webJob[a].numbers \subseteq 1 .. SessionMax
         /\ webJob[a].extra \in Seq(Urls \ Blacklisted)
    /\ sessionResults \in BoundedSeq(Urls \ Blacklisted, SessionMax)
    /\ loadedPages \in [1 .. SessionMax -> Urls \union {NoPage}]
    /\ questions \in 0 .. QuestionsMax

\* A site that the question names and that a search has found is among the
\* results the model is given, through the ranking, the merge and the three
\* limits; and nothing that is blacklisted is.
WantedShown ==
    \A a \in Searchers : (webJob[a].at = "generate" /\ webJob[a].tool = "web") =>
        /\ \A i \in DOMAIN Wanted : Wanted[i] \in webJob[a].found => Wanted[i] \in SitesOf(webJob[a].results)
        /\ \A i \in DOMAIN webJob[a].results : webJob[a].results[i] \notin Blacklisted
=============================================================================
