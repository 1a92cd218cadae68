---------------------------- MODULE OsintQueries ----------------------------
(***************************************************************************)
(* A question on its way through SearchAgent.query: intelligence stored    *)
(* from the message, the response cache, the routing to refusal, OSINT,    *)
(* memory or model, the compliance check with its terms and its audit      *)
(* log, the lookups and what they leave in the memory store and in the     *)
(* session.                                                                *)
(*                                                                         *)
(* The store holds at most one value of a kind, so a kind stands for the   *)
(* value.  The steps inside the cache, the store and the saved session are *)
(* those of Cache, MemoryStore and Session.                                *)
(***************************************************************************)
EXTENDS Naturals, FiniteSets

CONSTANTS
    Askers,          \* worker threads and users, one question at a time each
    Kinds,           \* of what is looked up
    BreachSources,   \* registered at BreachManager
    GeneralLimit,    \* osint.general_osint_limit, an hour
    AsksMax          \* bound on the questions

ASSUME OsintAssumption ==
    /\ IsFiniteSet(Askers)
    /\ Kinds \subseteq {"email", "phone", "ip", "username", "domain"}
    /\ GeneralLimit \in Nat /\ AsksMax \in Nat

Forgettable == {"email", "phone", "ip", "username"}    \* known to _process_forget_command
Alarms == {"pwned", "leaked"}
Unchecked == {"unknown"}
OwnChecks == {"lists", "leakcheck"}                    \* of EmailVulnerabilityIntel
InText == {"email", "phone"}                           \* found in a text by MemoryIntelFlow

Questions ==
    [intent : {"lookup", "forget"}, kind : Kinds]
    \union [intent : {"search", "company", "recall", "remember", "remember these",
                      "forget all", "talk"}, kind : {"none"}]

NoAnswer == [text |-> "none", of |-> {}]
OsintAnswers ==
    [text : {"none", "refused", "blocked", "report", "deleted", "not found", "unknown type",
             "memory", "words", "sorry"}, of : SUBSET Kinds]
Nobody == [at |-> "idle", question |-> [intent |-> "talk", kind |-> "none"], tools |-> FALSE,
           cacheable |-> FALSE, recent |-> 0, answer |-> NoAnswer, found |-> {}]

VARIABLES
    remembered,    \* the kinds in the memory store
    breached,      \* the breach data of the email in it: alarms, or not checked yet
    responses,     \* the response cache
    lastAnswer,    \* the response of the latest turn
    lastQuery,     \* last_search_query of the session
    lastResults,   \* the question whose results last_search_results holds
    termsFile,     \* terms_accepted.json: "absent", "empty" (being written) or "accepted"
    asked,           \* asked[a]: the question of a and where it is
    reply,         \* the answer given last, with its question
    asks,
    approved,      \* lines "approved" in the audit log
    lookedUp,      \* history: questions that went to the external services
    accepted,      \* history: accept_terms has saved the terms
    throughout     \* history, per asker: the kinds remembered ever since its question

sessionSearch == <<lastQuery, lastResults>>
osintHistory == <<accepted, asks>>
osintVars ==
    <<remembered, breached, responses, lastAnswer, lastQuery, lastResults, termsFile, asked, reply,
      asks, approved, lookedUp, accepted, throughout>>

NoQuestion == Nobody.question

OsintInit ==
    /\ remembered = {} /\ breached = Unchecked
    /\ responses = [q \in Questions |-> NoAnswer]
    /\ lastAnswer = NoAnswer
    /\ lastQuery = NoQuestion /\ lastResults = NoQuestion
    /\ termsFile = "absent"
    /\ asked = [a \in Askers |-> Nobody]
    /\ reply = [question |-> NoQuestion, answer |-> NoAnswer, throughout |-> {}]
    /\ asks = 0 /\ approved = 0 /\ lookedUp = 0
    /\ accepted = FALSE
    /\ throughout = [a \in Askers |-> {}]

\* The memory store now holds m.
MemoryBecomes(m) ==
    /\ remembered' = m
    /\ breached' = IF "email" \in m \cap remembered THEN breached ELSE Unchecked
    /\ throughout' = [a \in Askers |-> throughout[a] \cap m]

KeepsMemory == UNCHANGED <<remembered, breached, throughout>>

AskGoes(a, at) == asked' = [asked EXCEPT ![a].at = at]
Answered(a, text, of) ==
    asked' = [asked EXCEPT ![a].at = "record", ![a].answer = [text |-> text, of |-> of]]

-----------------------------------------------------------------------------
\* query, up to the cache: what the message asks to remember is stored first,
\* from the message itself or from the latest response; a leading '<' (context)
\* makes it direct, and that and an explicit web search skip the cache.
Asks(a) ==
    /\ asked[a].at = "idle" /\ asks < AsksMax
    /\ asks' = asks + 1
    /\ \E q \in Questions, tools, context \in BOOLEAN :
         /\ asked' = [asked EXCEPT ![a] = [Nobody EXCEPT
                !.at = IF context THEN "route" ELSE "cache",
                !.question = q, !.tools = tools /\ ~context, !.cacheable = ~context]]
         /\ LET m == remembered \union
                    (CASE q.intent = "remember" -> InText \cap Kinds
                       [] q.intent = "remember these" -> lastAnswer.of \cap InText
                       [] OTHER -> {})
            IN /\ remembered' = m
               /\ throughout' = [throughout EXCEPT ![a] = m]
    /\ UNCHANGED <<breached, responses, lastAnswer, sessionSearch, termsFile, reply,
                   approved, lookedUp, accepted>>

Replies(a, answer) ==
    /\ asked' = [asked EXCEPT ![a] = Nobody]
    /\ reply' = [question |-> asked[a].question, answer |-> answer, throughout |-> throughout[a]]

\* _get_cached_response: the answer is returned as it is, and not recorded.
FromCache(a) ==
    /\ asked[a].at = "cache" /\ responses[asked[a].question] # NoAnswer
    /\ Replies(a, responses[asked[a].question])
    /\ UNCHANGED <<responses, lastAnswer, sessionSearch, termsFile, approved, lookedUp,
                   osintHistory>>
    /\ KeepsMemory

\* Nothing there, or it is expired or cannot be read
NotCached(a) ==
    /\ asked[a].at = "cache"
    /\ AskGoes(a, "route")
    /\ UNCHANGED <<responses, lastAnswer, sessionSearch, termsFile, reply, approved,
                   lookedUp, osintHistory>>
    /\ KeepsMemory

\* _query_direct and query_with_tools: an injection pattern is refused, and
\* "forget all" is one; operators go to the OSINT flow; a company is
\* recognised with tools, a question about the memory without.
Route(a) ==
    LET q == asked[a].question IN
    /\ asked[a].at = "route"
    /\ CASE q.intent = "forget all" -> Answered(a, "refused", {})
         [] q.intent \in {"lookup", "forget", "search"} \/ (q.intent = "company" /\ asked[a].tools)
              -> AskGoes(a, "compliance")
         [] q.intent = "recall" /\ ~asked[a].tools -> Answered(a, "memory", remembered)
         [] OTHER -> AskGoes(a, IF asked[a].tools THEN "tools" ELSE "model")
    /\ UNCHANGED <<responses, lastAnswer, sessionSearch, termsFile, reply, approved,
                   lookedUp, osintHistory>>
    /\ KeepsMemory

\* execute_web_search leaves its results in the session; the other tools and a
\* search without results leave it as it is.
UseTools(a) ==
    /\ asked[a].at = "tools"
    /\ AskGoes(a, "model")
    /\ \/ lastQuery' = asked[a].question /\ lastResults' = asked[a].question
       \/ UNCHANGED sessionSearch
    /\ UNCHANGED <<responses, lastAnswer, termsFile, reply, approved, lookedUp, osintHistory>>
    /\ KeepsMemory

\* The model may repeat what is in its context.
ModelAnswers(a) ==
    /\ asked[a].at = "model"
    /\ \E of \in {{}, lastAnswer.of} : Answered(a, "words", of)
    /\ UNCHANGED <<responses, lastAnswer, sessionSearch, termsFile, reply, approved,
                   lookedUp, osintHistory>>
    /\ KeepsMemory

-----------------------------------------------------------------------------
\* Faulty variant: a check that fails lets the question pass.
AllowsUnlogged(a) ==
    /\ asked[a].at = "compliance" /\ termsFile = "accepted" /\ asked[a].recent < GeneralLimit
    /\ asked' = [asked EXCEPT ![a].at = "work", ![a].recent = 1]
    /\ approved' \in {approved, approved + 1}

\* check_query passes: each question has a compliance object of its own, so that
\* "recent" is its own request only.
Approves(a) ==
    /\ asked[a].at = "compliance" /\ termsFile = "accepted" /\ asked[a].recent < GeneralLimit
    /\ asked' = [asked EXCEPT ![a].at = "work", ![a].recent = 1]
    /\ approved' = approved + 1

CheckPasses(a) ==
    /\ Approves(a)
    /\ UNCHANGED <<responses, lastAnswer, sessionSearch, termsFile, reply, lookedUp,
                   osintHistory>>
    /\ KeepsMemory

\* The terms cannot be read as accepted, the text is on the blacklist, the limit is
\* reached, or a log cannot be written
Blocks(a) ==
    /\ asked[a].at = "compliance"
    /\ Answered(a, "blocked", {})
    /\ UNCHANGED <<responses, lastAnswer, sessionSearch, termsFile, reply, approved,
                   lookedUp, osintHistory>>
    /\ KeepsMemory

\* query_all: a source that is not configured is not asked, and one that fails
\* has found nothing; so are the lists on disk and the public API of LeakCheck.
ManagerFinds(knowing) == {knowing \cap answering : answering \in SUBSET BreachSources}
OwnChecksFind(knowing) == {knowing \cap answering : answering \in SUBSET OwnChecks}

\* check_data_breaches: the email is pwned when a source of the manager has it.
Pwned(found) == IF found = {} THEN {} ELSE {"pwned"}

\* check_vulnerability: it is leaked when another check has it, too; the sources
\* of the manager that are the same checks are passed over.
Leaked(found) == IF found \subseteq {"LocalDB", "LeakCheck"} THEN {} ELSE {"leaked"}

\* Both ask the manager, one after the other.
BreachesFound ==
    {found \in SUBSET Alarms :
       \E knowing \in SUBSET (BreachSources \union OwnChecks) :
         \E first, second \in ManagerFinds(knowing), own \in OwnChecksFind(knowing) :
           found = Pwned(first) \union Leaked(second \union own)}

\* The external services: analyze_*, discover_profiles, the breach sources
LooksUp(a) ==
    /\ asked[a].at = "work" /\ asked[a].question.intent = "lookup"
    /\ lookedUp' = lookedUp + 1
    /\ \/ \E found \in IF asked[a].question.kind = "email" THEN BreachesFound ELSE {{}} :
            asked' = [asked EXCEPT ![a].at = "persist", ![a].found = found]
       \/ Answered(a, "report", {asked[a].question.kind})    \* not valid, not found, or failed
    /\ UNCHANGED <<responses, lastAnswer, sessionSearch, termsFile, reply, approved,
                   osintHistory>>
    /\ KeepsMemory

\* What was found is remembered, unless the store raises or its quota is met; a
\* phone is not.  Only a phone brings results with its query; the others leave
\* those of an earlier search beside it.
Persists(a) ==
    LET kind == asked[a].question.kind IN
    /\ asked[a].at = "persist"
    /\ \E stored \in IF kind = "phone" THEN {{}} ELSE {{}, {kind}} :
         /\ remembered' = remembered \union stored
         /\ breached' = IF stored = {"email"} THEN asked[a].found ELSE breached
    /\ lastQuery' = IF kind = "email" THEN lastQuery ELSE asked[a].question
    /\ lastResults' = IF kind = "phone" THEN asked[a].question ELSE lastResults
    /\ Answered(a, "report", {kind})
    /\ UNCHANGED <<responses, lastAnswer, termsFile, reply, approved, lookedUp,
                   osintHistory, throughout>>

\* _execute_osint_search, or handle_company_query, which remembers a likely domain
RunsLookup(a) ==
    /\ asked[a].at = "work" /\ asked[a].question.intent \in {"search", "company"}
    /\ lookedUp' = lookedUp + 1
    /\ \/ lastQuery' = asked[a].question /\ lastResults' = asked[a].question
       \/ UNCHANGED sessionSearch
    /\ \E stored \in IF asked[a].question.intent = "company" THEN {{}, {"domain"} \cap Kinds} ELSE {{}} :
         remembered' = remembered \union stored
    /\ Answered(a, "report", {})
    /\ UNCHANGED <<breached, responses, lastAnswer, termsFile, reply, approved,
                   osintHistory, throughout>>

\* _process_forget_command
Forgets(a) ==
    LET kind == asked[a].question.kind IN
    /\ asked[a].at = "work" /\ asked[a].question.intent = "forget"
    /\ Answered(a, CASE kind \notin Forgettable -> "unknown type"
                     [] kind \in remembered \cap Forgettable -> "deleted"
                     [] OTHER -> "not found", {})
    /\ MemoryBecomes(IF kind \in Forgettable THEN remembered \ {kind} ELSE remembered)
    /\ UNCHANGED <<responses, lastAnswer, sessionSearch, termsFile, reply, approved,
                   lookedUp, osintHistory>>

\* The model without tools, an OSINT search, a company or a phone may raise: the
\* apology of query is not recorded.
Raises(a) ==
    /\ \/ asked[a].at = "model" /\ ~asked[a].tools
       \/ asked[a].at = "work" /\ (asked[a].question.intent \in {"search", "company"} \/ asked[a].question.kind = "phone")
    /\ Replies(a, [text |-> "sorry", of |-> {}])
    /\ UNCHANGED <<responses, lastAnswer, sessionSearch, termsFile, approved, lookedUp,
                   osintHistory>>
    /\ KeepsMemory

\* _record_query_result; the cache may fail to keep it
Records(a) ==
    /\ asked[a].at = "record"
    /\ lastAnswer' = asked[a].answer
    /\ \/ asked[a].cacheable /\ responses' = [responses EXCEPT ![asked[a].question] = asked[a].answer]
       \/ UNCHANGED responses
    /\ Replies(a, asked[a].answer)
    /\ UNCHANGED <<sessionSearch, termsFile, approved, lookedUp, osintHistory>>
    /\ KeepsMemory

-----------------------------------------------------------------------------
\* clear_memory, or the memory endpoints
ClearMemory ==
    /\ MemoryBecomes({})
    /\ UNCHANGED <<responses, lastAnswer, sessionSearch, termsFile, asked, reply, approved,
                   lookedUp, osintHistory>>

\* accept_terms at the start of the command line program: the file is opened, then written;
\* it may end in between.
SavesTerms ==
    /\ \/ termsFile # "accepted" /\ termsFile' = "empty" /\ UNCHANGED accepted
       \/ termsFile = "empty" /\ termsFile' = "accepted" /\ accepted' = TRUE
    /\ UNCHANGED <<responses, lastAnswer, sessionSearch, asked, reply, asks, approved,
                   lookedUp>>
    /\ KeepsMemory

OsintStep(a) ==
    \/ Asks(a) \/ FromCache(a) \/ NotCached(a) \/ Route(a) \/ UseTools(a) \/ ModelAnswers(a)
    \/ CheckPasses(a) \/ Blocks(a) \/ LooksUp(a) \/ Persists(a) \/ RunsLookup(a) \/ Forgets(a)
    \/ Raises(a) \/ Records(a)

OsintNext == ClearMemory \/ SavesTerms \/ \E a \in Askers : OsintStep(a)

OsintSpec == OsintInit /\ [][OsintNext]_osintVars

-----------------------------------------------------------------------------
OsintTypeOK ==
    /\ remembered \subseteq Kinds
    /\ breached \in (SUBSET Alarms) \union {Unchecked}
    /\ responses \in [Questions -> OsintAnswers] /\ lastAnswer \in OsintAnswers
    /\ lastQuery \in Questions /\ lastResults \in Questions
    /\ termsFile \in {"absent", "empty", "accepted"}
    /\ asked \in [Askers -> [at : {"idle", "cache", "route", "tools", "model", "compliance", "work", "persist", "record"},
                           question : Questions, tools : BOOLEAN, cacheable : BOOLEAN, recent : 0 .. 1,
                           answer : OsintAnswers, found : SUBSET Alarms]]
    /\ reply \in [question : Questions, answer : OsintAnswers, throughout : SUBSET Kinds]
    /\ asks \in 0 .. AsksMax /\ approved \in 0 .. AsksMax /\ lookedUp \in 0 .. AsksMax
    /\ accepted \in BOOLEAN
    /\ throughout \in [Askers -> SUBSET Kinds]

\* No question reaches an external service that is not in the audit log as
\* approved, and none before the terms have been accepted, whatever fails or is
\* being written meanwhile.
LookupsAudited ==
    /\ lookedUp + Cardinality({a \in Askers : asked[a].at = "work" /\ asked[a].question.intent # "forget"}) <= approved
    /\ lookedUp > 0 => accepted

\* An entry that a reply calls deleted was absent from the store at some moment
\* of the question.
ForgottenIsForgotten ==
    reply.answer.text = "deleted" => reply.question.kind \notin reply.throughout
=============================================================================
