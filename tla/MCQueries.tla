---------------------------- MODULE MCQueries ----------------------------
(***************************************************************************)
(* What serves a query and what watches over it, side by side, for TLC:    *)
(* the parts share no state, and in a behaviour one of them runs.          *)
(***************************************************************************)
EXTENDS OsintQueries, AccessStores, SearchAnswers, RagStore, LlmCalls, TestDashboard,
        HealthMonitor, Lookups, ApiRequests, ContextBudget, TLC

\* Two pages of wanted sites, two of another, one on the blacklist.
MCUrls == {"u1", "u2", "o1", "o2", "bad"}
MCSiteOf == "u1" :> "d1" @@ "u2" :> "d2" @@ "o1" :> "o" @@ "o2" :> "o" @@ "bad" :> "o"
MCWanted == <<"d1", "d2">>
MCTestFiles == <<"t1", "t2">>
MCRules == <<"slow">>

VARIABLE part    \* the one that runs

\* Where the others start does not matter: one of their initial states is enough.
MCQueriesInit ==
    /\ part \in {"osint", "access", "answers", "rag", "model", "tests", "health", "lookups",
                 "requests", "budget"}
    /\ OsintInit /\ AccessInit /\ AnswersInit
    /\ RagInit /\ (part = "rag" \/ ~fallback)
    /\ LlmInit /\ (part = "model" \/ provider = "ollama")
    /\ DashboardInit /\ HealthInit
    /\ LookupsInit /\ (part = "lookups" \/ (~torWanted /\ rules = [s \in Sites |-> "none"]))
    /\ ApiRequestsInit
    /\ ContextBudgetInit
    /\ part = "budget" \/ <<window, configured>> = <<CHOOSE w \in Windows : TRUE, 0>>

Still(name, step, unchanged) == IF part = name THEN step ELSE unchanged

MCQueriesNext ==
    /\ UNCHANGED part
    /\ Still("osint", OsintNext, UNCHANGED osintVars)
    /\ Still("access", AccessNext, UNCHANGED accessVars)
    /\ Still("answers", AnswersNext, UNCHANGED answersVars)
    /\ Still("rag", RagNext, UNCHANGED ragVars)
    /\ Still("model", LlmNext, UNCHANGED llmVars)
    /\ Still("tests", DashboardNext, UNCHANGED dashboardVars)
    /\ Still("health", HealthNext, UNCHANGED healthVars)
    /\ Still("lookups", LookupsNext, UNCHANGED lookupVars)
    /\ Still("requests", ApiRequestsNext, UNCHANGED requestVars)
    /\ Still("budget", ContextBudgetNext, UNCHANGED budgetVars)

MCQueriesVars ==
    <<part, osintVars, accessVars, answersVars, ragVars, llmVars, dashboardVars,
      healthVars, lookupVars, requestVars, budgetVars>>

MCQueriesSpec == MCQueriesInit /\ [][MCQueriesNext]_MCQueriesVars

\* Every variable of the part that runs has a value the code can give it.
QueriesTypeOK ==
    CASE part = "osint" -> OsintTypeOK
      [] part = "access" -> AccessTypeOK
      [] part = "answers" -> AnswersTypeOK
      [] part = "rag" -> RagTypeOK
      [] part = "model" -> LlmTypeOK
      [] part = "tests" -> DashboardTypeOK
      [] part = "health" -> HealthTypeOK
      [] part = "lookups" -> LookupsTypeOK
      [] part = "requests" -> ApiRequestsTypeOK
      [] part = "budget" -> ContextBudgetTypeOK
=============================================================================
