------------------------------ MODULE MultiHop ------------------------------
(***************************************************************************)
(* MultiHopReasoningAgent (core/langgraph_agent.py): one query walks the   *)
(* graph router -> initial search -> analyze -> (follow-up -> analyze)* -> *)
(* synthesize -> critique -> (follow-up ... | end).  What the language     *)
(* model answers is a choice: whether the information is complete and a    *)
(* score in percent.  Texts are left out; an answer is known by the hop    *)
(* after which it was written.  Every node may raise, which ends the query *)
(* with an error result.  The graph's state belongs to one invocation, so  *)
(* one query at a time shows all there is to see.                          *)
(***************************************************************************)
EXTENDS Integers

CONSTANTS
    HopRequests,     \* values of max_hops the constructor is called with
    Ceiling,         \* MAX_HOPS_CEILING
    Threshold,       \* confidence_threshold, in percent
    Scores,          \* scores, in percent, that _parse_marker_score returns
    EnableCritique   \* enable_critique

ASSUME HopAssumption == HopRequests \subseteq Int /\ Ceiling \in Nat \ {0}
ASSUME ScoreAssumption == Threshold \in Nat /\ Scores \subseteq Nat
ASSUME CritiqueAssumption == EnableCritique \in BOOLEAN

VARIABLES
    max_hops,         \* self.max_hops
    web_search,       \* the registry holds a web_search tool
    node,             \* the node that runs next; "idle" or "end" between queries
    current_step,
    needs_more_info,
    answer,           \* 0: None; n: written when current_step was n
    search_queries,   \* how many searches were made for this query
    confidence,       \* in percent
    llm_calls,        \* calls of llm.generate completed for this query
    result            \* the dictionary the last query returned

graphVars == <<max_hops, web_search, node, current_step, needs_more_info, answer,
               search_queries, confidence, llm_calls, result>>

\* The nodes a query in progress can be at.
RunningNodes == {"router", "initial_search", "analyze", "follow_up", "synthesize", "critique"}

NoResult == [status |-> "none", answer |-> 0, confidence |-> 0, steps |-> 0]

\* Faulty variant: only the upper end is clamped.
ClampHopsAbove(h) == IF h > Ceiling THEN Ceiling ELSE h

\* max(1, min(int(max_hops), MAX_HOPS_CEILING))
ClampHops(h) ==
    IF h > Ceiling THEN Ceiling ELSE IF h < 1 THEN 1 ELSE h

\* A score line is missing or unreadable: the caller's default stands.
ParsedScores(default) == Scores \union {default}

GraphInit ==
    /\ max_hops \in {ClampHops(h) : h \in HopRequests}
    /\ web_search \in BOOLEAN
    /\ node = "idle"
    /\ current_step = 0
    /\ needs_more_info = TRUE
    /\ answer = 0
    /\ search_queries = 0
    /\ confidence = 0
    /\ llm_calls = 0
    /\ result = NoResult

-----------------------------------------------------------------------------
\* query(): a fresh ReasoningState enters the graph.
Query ==
    /\ node \in {"idle", "end"}
    /\ node' = "router"
    /\ current_step' = 0
    /\ needs_more_info' = TRUE
    /\ answer' = 0
    /\ search_queries' = 0
    /\ confidence' = 0
    /\ llm_calls' = 0
    /\ result' = NoResult
    /\ UNCHANGED <<max_hops, web_search>>

\* The class the router asks for is written to the path and never read.
Router ==
    /\ node = "router"
    /\ llm_calls' = llm_calls + 1
    /\ current_step' = 0
    /\ node' = "initial_search"
    /\ UNCHANGED <<max_hops, web_search, needs_more_info, answer, search_queries,
                   confidence, result>>

\* Faulty variant: the first search does not count as a hop.
InitialSearchUncounted ==
    /\ node = "initial_search"
    /\ search_queries' = IF web_search THEN search_queries + 1 ELSE search_queries
    /\ node' = "analyze"
    /\ UNCHANGED <<max_hops, web_search, current_step, needs_more_info, answer,
                   confidence, llm_calls, result>>

InitialSearch ==
    /\ node = "initial_search"
    /\ search_queries' = IF web_search THEN search_queries + 1 ELSE search_queries
    /\ current_step' = current_step + 1
    /\ node' = "analyze"
    /\ UNCHANGED <<max_hops, web_search, needs_more_info, answer, confidence,
                   llm_calls, result>>

\* Faulty variant: off by one.
HopsRemainOffByOne == current_step <= max_hops

HopsRemain == current_step < max_hops

\* _should_continue_search, on the value analyze has just written.
ShouldContinueSearch(needs) ==
    IF needs /\ HopsRemain THEN "follow_up" ELSE "synthesize"

\* A missing COMPLETE marker counts as complete, a missing score as 50.
Analyze ==
    /\ node = "analyze"
    /\ llm_calls' = llm_calls + 1
    /\ \E complete \in BOOLEAN, score \in ParsedScores(50) :
          /\ confidence' = score
          /\ needs_more_info' = (~complete /\ HopsRemain)
          /\ node' = ShouldContinueSearch(~complete /\ HopsRemain)
    /\ UNCHANGED <<max_hops, web_search, current_step, answer, search_queries, result>>

\* Faulty variant: the edge of the follow-up leads back to the critique.
FollowUpSkipsSynthesis ==
    /\ node = "follow_up"
    /\ llm_calls' = llm_calls + 1
    /\ search_queries' = search_queries + 1
    /\ current_step' = current_step + 1
    /\ node' = IF answer > 0 THEN "critique" ELSE "analyze"
    /\ UNCHANGED <<max_hops, web_search, needs_more_info, answer, confidence, result>>

\* An empty follow-up query makes no search but uses up the hop.
FollowUp ==
    /\ node = "follow_up"
    /\ llm_calls' = llm_calls + 1
    /\ \E emptyQuery \in BOOLEAN :
          search_queries' = IF web_search /\ ~emptyQuery THEN search_queries + 1
                                                         ELSE search_queries
    /\ current_step' = current_step + 1
    /\ node' = "analyze"
    /\ UNCHANGED <<max_hops, web_search, needs_more_info, answer, confidence, result>>

\* invoke() comes back from END with this answer and this confidence.
Finish(written, score) ==
    /\ node' = "end"
    /\ result' = [status |-> "ok", answer |-> written, confidence |-> score,
                  steps |-> current_step]

Synthesize ==
    /\ node = "synthesize"
    /\ llm_calls' = llm_calls + 1
    /\ answer' = current_step
    /\ IF EnableCritique THEN node' = "critique" /\ UNCHANGED result
                         ELSE Finish(current_step, confidence)
    /\ UNCHANGED <<max_hops, web_search, current_step, needs_more_info,
                   search_queries, confidence>>

ShouldImprove(score, needs) == score < Threshold /\ HopsRemain /\ needs

Critique ==
    /\ node = "critique"
    /\ llm_calls' = llm_calls + 1
    /\ \E good \in BOOLEAN, score \in ParsedScores(confidence) :
          /\ confidence' = score
          /\ needs_more_info' = (~good /\ HopsRemain)
          /\ IF ShouldImprove(score, ~good /\ HopsRemain)
                THEN node' = "follow_up" /\ UNCHANGED result
                ELSE Finish(answer, score)
    /\ UNCHANGED <<max_hops, web_search, current_step, answer, search_queries>>

\* The LLM client or the search tool raises inside a node: the state is dropped.
NodeRaises ==
    /\ node \in RunningNodes
    /\ node' = "end"
    /\ result' = [NoResult EXCEPT !.status = "error"]
    /\ UNCHANGED <<max_hops, web_search, current_step, needs_more_info, answer,
                   search_queries, confidence, llm_calls>>

GraphStep ==
    \/ Router \/ InitialSearch \/ Analyze \/ FollowUp \/ Synthesize \/ Critique
    \/ NodeRaises

GraphNext == Query \/ GraphStep

GraphSpec == GraphInit /\ [][GraphNext]_graphVars

-----------------------------------------------------------------------------
\* Types of the agent's fields and of the reasoning state (ReasoningState).
GraphTypeOK ==
    /\ max_hops \in 1 .. Ceiling
    /\ web_search \in BOOLEAN
    /\ node \in RunningNodes \union {"idle", "end"}
    /\ current_step \in Nat
    /\ needs_more_info \in BOOLEAN
    /\ answer \in Nat
    /\ search_queries \in Nat
    /\ confidence \in Nat
    /\ llm_calls \in Nat
    /\ result \in [status : {"none", "ok", "error"}, answer : Nat, confidence : Nat,
                   steps : Nat]

\* A query of n allowed hops makes at most n searches and completes at most 4n
\* calls of the language model, however often the critique sends it back: the
\* bound on cost that MAX_HOPS_CEILING is there for.
CostBounded ==
    /\ search_queries <= current_step
    /\ current_step <= max_hops
    /\ max_hops <= Ceiling
    /\ llm_calls <= 4 * max_hops

\* An answer that is returned was synthesized after the last search: the critique
\* loop never returns an answer that ignores what a later follow-up found.
AnswerUsesAllHops ==
    result.status = "ok" => /\ result.answer = result.steps
                            /\ result.steps = current_step
                            /\ result.steps > 0

\* MultiHop implements ResearchBudget: hops are steps, an answer is known by the
\* step it was written at.
Budget == INSTANCE ResearchBudget WITH
              budget <- max_hops,
              hops <- current_step,
              written <- answer,
              open <- node \in RunningNodes,
              outcome <- result.status

ImplementsBudget == Budget!Spec

=============================================================================
