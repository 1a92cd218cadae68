---------------------------- MODULE AdaptiveQuery ----------------------------
(***************************************************************************)
(* AdaptiveQueryProcessor and AdaptiveHopManager (core/adaptive_*.py) over *)
(* the two agents: a query is classified, the class and the load of the    *)
(* machine select an agent, the agent answers, and an answer of low        *)
(* confidence is tried again with a stronger agent.  The reasoning graph   *)
(* is MultiHop's, step by step; SearchAgent.query is one step here.  The   *)
(* load changes at any time: each decision reads it again.                 *)
(***************************************************************************)
EXTENDS MultiHop, Sequences

CONSTANTS
    AttemptLimits,         \* values of max_escalation_attempts
    Estimates,             \* what _estimate_confidence returns, in percent
    ConfidenceLow,         \* AdaptiveConfig.confidence_low, in percent
    MaxHopsLow, MaxHopsMid, MaxHopsHigh, DegradedHops,  \* AdaptiveConfig
    FallbackOnConstraint   \* AdaptiveConfig.fallback_on_resource_constraint

ASSUME AdaptiveAssumption ==
    /\ AttemptLimits \subseteq Int
    /\ Estimates \subseteq Nat
    /\ ConfidenceLow \in Nat
    /\ {MaxHopsLow, MaxHopsMid, MaxHopsHigh, DegradedHops} \subseteq Nat
    /\ FallbackOnConstraint \in BOOLEAN

VARIABLES
    processor,    \* the processor's fields: its attempt limit, and the agents it got
    constrained,  \* what check_resource_constraints would say now
    phase,        \* where process_query is
    request,      \* the query in progress
    strategy,     \* the strategy in force
    attempt,
    reply,        \* result of the last attempt, with the attempt that made it
    history       \* escalation_history: the complexities gone from and to

procVars == <<processor, constrained, phase, request, strategy, attempt, reply, history>>
vars == <<graphVars, procVars>>

Levels == {"low", "mid", "high"}
Rank == [l \in Levels |-> IF l = "low" THEN 0 ELSE IF l = "mid" THEN 1 ELSE 2]

\* max(1, max_escalation_attempts)
ClampAttempts(n) == IF n < 1 THEN 1 ELSE n

Requests == [forced : Levels \union {"none"},  \* force_complexity, "none" if invalid
             search_intent : BOOLEAN,          \* has_search_intent
             escalate : BOOLEAN]               \* enable_escalation

NoReply == [attempt |-> 0, agent |-> "none", confidence |-> 0, error |-> FALSE, use_tools |-> FALSE]

\* decide_agent_strategy once the complexity is known: a constrained machine
\* turns HIGH into MID, and the complexity left selects agent, tools and hops.
Degrade(c, load) ==
    IF load /\ FallbackOnConstraint /\ c = "high" THEN "mid" ELSE c

StrategyFor(c, load) ==
    [complexity |-> c,
     agent_type |-> IF c = "high" THEN "MultiHopReasoningAgent" ELSE "SearchAgent",
     use_tools |-> c # "low",
     max_hops |-> IF c = "low" THEN MaxHopsLow
                  ELSE IF c = "mid" THEN MaxHopsMid
                  ELSE IF load THEN DegradedHops ELSE MaxHopsHigh]

Decide(c, load) == StrategyFor(Degrade(c, load), load)

\* Faulty variant: the floor is missing.
ClassifiedWithoutFloor(c, searchIntent) == c

\* analyze_query_complexity: the LLM, or the heuristic when it raises, may say any
\* level; an explicit search request is never below MID.
Classified(c, searchIntent) == IF searchIntent /\ c = "low" THEN "mid" ELSE c

Stronger(c) == IF c = "low" THEN "mid" ELSE "high"

\* Faulty variant: every new strategy counts as a stronger one.
SameStrategyNever(s, t) == FALSE

\* should_escalate refuses a new strategy that is the old one under another name.
SameStrategy(s, t) ==
    /\ s.agent_type = t.agent_type
    /\ s.use_tools = t.use_tools
    /\ s.max_hops = t.max_hops

ProcInit ==
    /\ processor \in [max_attempts : {ClampAttempts(n) : n \in AttemptLimits},
                      agent : BOOLEAN, multihop_agent : BOOLEAN]
    /\ constrained \in BOOLEAN
    /\ phase = "idle"
    /\ request = [forced |-> "none", search_intent |-> FALSE, escalate |-> FALSE]
    /\ strategy = Decide("low", FALSE)
    /\ attempt = 0
    /\ reply = NoReply
    /\ history = <<>>

Init == GraphInit /\ ProcInit

-----------------------------------------------------------------------------
\* process_query is called.
Receive ==
    /\ phase \in {"idle", "done"}
    /\ request' \in Requests
    /\ phase' = "decide"
    /\ attempt' = 1
    /\ reply' = NoReply
    /\ history' = <<>>
    /\ UNCHANGED <<graphVars, processor, constrained, strategy>>

\* Phase 1 of process_query.
DecideStrategy ==
    /\ phase = "decide"
    /\ \E c \in Levels :
          LET level == IF request.forced # "none" THEN request.forced
                       ELSE Classified(c, request.search_intent)
          IN  strategy' = Decide(level, constrained)
    /\ phase' = "execute"
    /\ UNCHANGED <<graphVars, processor, constrained, request, attempt, reply, history>>

\* What _execute_strategy returns is the reply of this attempt.
Answered(score, failed) ==
    /\ reply' = [attempt |-> attempt, agent |-> strategy.agent_type,
                 confidence |-> score, error |-> failed, use_tools |-> strategy.use_tools]
    /\ phase' = "judge"

\* The agent is None, or SearchAgent.query raises.
ExecuteFails ==
    /\ phase = "execute"
    /\ strategy.agent_type = "MultiHopReasoningAgent" => ~processor.multihop_agent
    /\ Answered(0, TRUE)
    /\ UNCHANGED <<graphVars, processor, constrained, request, strategy, attempt, history>>

ExecuteSearchAgent ==
    /\ phase = "execute"
    /\ strategy.agent_type = "SearchAgent"
    /\ processor.agent
    /\ \E score \in Estimates : Answered(score, FALSE)
    /\ UNCHANGED <<graphVars, processor, constrained, request, strategy, attempt, history>>

\* multihop_agent.query(query): the hops of the strategy are not passed on.
ExecuteMultihop ==
    /\ phase = "execute"
    /\ strategy.agent_type = "MultiHopReasoningAgent"
    /\ processor.multihop_agent
    /\ Query
    /\ phase' = "multihop"
    /\ UNCHANGED <<processor, constrained, request, strategy, attempt, reply, history>>

\* A step of the reasoning graph while process_query waits for it.
WalkGraph ==
    /\ phase = "multihop"
    /\ GraphStep
    /\ UNCHANGED procVars

\* Faulty variant: waits for a walk that ends well.
MultihopReturnsOk ==
    /\ phase = "multihop"
    /\ node = "end"
    /\ result.status = "ok"
    /\ Answered(result.confidence, FALSE)
    /\ UNCHANGED <<graphVars, processor, constrained, request, strategy, attempt, history>>

\* query() never raises: a failed walk is a result with confidence 0.
MultihopReturns ==
    /\ phase = "multihop"
    /\ node = "end"
    /\ Answered(result.confidence, FALSE)
    /\ UNCHANGED <<graphVars, processor, constrained, request, strategy, attempt, history>>

\* should_escalate, with the load read now; the telemetry it emits is left out.
MayEscalate(next) ==
    /\ request.escalate
    /\ attempt < processor.max_attempts
    /\ strategy.agent_type # "MultiHopReasoningAgent"
    /\ attempt <= 2
    /\ reply.confidence < ConfidenceLow
    /\ ~SameStrategy(next, strategy)

\* Faulty variant: the loop tests the attempts after it has escalated.
JudgeTestsLate ==
    /\ phase = "judge"
    /\ LET next == Decide(Stronger(strategy.complexity), constrained)
       IN  IF /\ request.escalate
              /\ strategy.agent_type # "MultiHopReasoningAgent"
              /\ reply.confidence < ConfidenceLow
              /\ ~SameStrategy(next, strategy)
              THEN /\ history' = Append(history, [from |-> strategy.complexity,
                                                  to |-> next.complexity])
                   /\ strategy' = next
                   /\ attempt' = attempt + 1
                   /\ phase' = IF attempt < processor.max_attempts THEN "execute" ELSE "done"
              ELSE /\ phase' = "done"
                   /\ UNCHANGED <<history, strategy, attempt>>
    /\ UNCHANGED <<graphVars, processor, constrained, request, reply>>

Judge ==
    /\ phase = "judge"
    /\ LET next == Decide(Stronger(strategy.complexity), constrained)
       IN  IF MayEscalate(next)
              THEN /\ history' = Append(history, [from |-> strategy.complexity,
                                                  to |-> next.complexity])
                   /\ strategy' = next
                   /\ attempt' = attempt + 1
                   /\ phase' = "execute"
              ELSE /\ phase' = "done"
                   /\ UNCHANGED <<history, strategy, attempt>>
    /\ UNCHANGED <<graphVars, processor, constrained, request, reply>>

\* The monitor's next sample crosses a threshold.
LoadChanges ==
    /\ constrained' = ~constrained
    /\ UNCHANGED <<graphVars, processor, phase, request, strategy, attempt, reply, history>>

Work ==
    \/ DecideStrategy \/ ExecuteFails \/ ExecuteSearchAgent \/ ExecuteMultihop
    \/ WalkGraph \/ MultihopReturns \/ Judge

Next == Receive \/ Work \/ LoadChanges

\* A worker thread that was given a query goes on with it.
Fairness == WF_vars(Work)

Spec == Init /\ [][Next]_vars /\ Fairness

-----------------------------------------------------------------------------
Strategies == [complexity : Levels, agent_type : {"SearchAgent", "MultiHopReasoningAgent"},
               use_tools : BOOLEAN, max_hops : Nat]

\* Types of the fields process_query keeps.
TypeOK ==
    /\ GraphTypeOK
    /\ processor \in [max_attempts : Nat \ {0}, agent : BOOLEAN, multihop_agent : BOOLEAN]
    /\ constrained \in BOOLEAN
    /\ phase \in {"idle", "decide", "execute", "multihop", "judge", "done"}
    /\ request \in Requests
    /\ strategy \in Strategies
    /\ attempt \in Nat
    /\ reply \in [attempt : Nat, agent : {"none", "SearchAgent", "MultiHopReasoningAgent"},
                  confidence : Nat, error : BOOLEAN, use_tools : BOOLEAN]
    /\ history \in Seq([from : Levels, to : Levels])

\* The response of process_query reports the strategy that made its answer: after
\* an escalation the answer of the first attempt is never returned under the name
\* of the second agent.
ReportedStrategyAnswered ==
    phase = "done" => /\ reply.attempt = attempt
                      /\ reply.agent = strategy.agent_type
                      /\ reply.use_tools = strategy.use_tools
                      /\ Len(history) = attempt - 1

\* Each escalation goes to a stronger strategy than the one before, even when the
\* machine becomes constrained between two attempts and HIGH is degraded to MID.
EscalationClimbs ==
    /\ \A i \in 1 .. Len(history) : Rank[history[i].from] < Rank[history[i].to]
    /\ Len(history) > 0 /\ phase # "decide" => history[Len(history)].to = strategy.complexity
    /\ attempt <= processor.max_attempts

\* A query that asks for a web search is answered by an agent with tools, unless
\* the caller forced LOW (adaptive_hops.py:179).
SearchIntentGetsTools ==
    (phase = "done" /\ request.search_intent /\ request.forced # "low") => reply.use_tools

\* Every query process_query takes is answered.
EveryQueryAnswered == (phase = "decide") ~> (phase = "done")

\* The graph inside the processor still implements the budget.
GraphImplementsBudget == Budget!Spec
=============================================================================
