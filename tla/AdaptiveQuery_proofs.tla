------------------------ MODULE AdaptiveQuery_proofs ------------------------
(***************************************************************************)
(* Proofs about MultiHop, for every constructor argument, every ceiling    *)
(* and every set of scores, and about AdaptiveQuery above it: what a       *)
(* response reports, and how it escalates, for every configuration and     *)
(* every limit of attempts.                                                *)
(***************************************************************************)
EXTENDS AdaptiveQuery, TLAPS

\* Calls of the language model completed when a node is about to run: one by the
\* router, then at most four per hop (analysis, synthesis, critique, follow-up).
CallsBefore ==
    /\ node = "router" => llm_calls = 0
    /\ node = "initial_search" => llm_calls <= 1
    /\ node = "analyze" => llm_calls <= 4 * current_step - 3
    /\ node = "synthesize" => llm_calls <= 4 * current_step - 2
    /\ node = "critique" => llm_calls <= 4 * current_step - 1
    /\ node = "follow_up" => llm_calls <= 4 * current_step
    /\ llm_calls <= 4 * max_hops

\* How far the hop counter is when a node is about to run.
StepsBefore ==
    /\ node \in {"router", "initial_search"} => current_step = 0 /\ search_queries = 0
    /\ node \in {"analyze", "synthesize", "critique", "follow_up"} => current_step > 0
    /\ node = "follow_up" => current_step < max_hops
    /\ current_step <= max_hops
    /\ search_queries <= current_step

\* The answer the critique reads, and the one returned, is that of the last hop.
AnswerBefore ==
    /\ node = "critique" => answer = current_step
    /\ node \in RunningNodes => result.status = "none"
    /\ result.status = "ok" => /\ node = "end"
                               /\ answer = current_step
                               /\ result.answer = answer
                               /\ result.steps = current_step
                               /\ result.steps > 0

GraphInv == GraphTypeOK /\ StepsBefore /\ CallsBefore /\ AnswerBefore

\* ClampHops returns a number of hops within the allowed range, for any argument.
LEMMA ClampInRange == ASSUME NEW h \in Int PROVE ClampHops(h) \in 1 .. Ceiling
  BY HopAssumption DEF ClampHops

\* The invariant holds of an idle agent.
LEMMA GraphInitInv == GraphInit => GraphInv
  <1>1. ASSUME GraphInit PROVE max_hops \in 1 .. Ceiling
    BY <1>1, ClampInRange, HopAssumption DEF GraphInit
  <1>2. ASSUME GraphInit PROVE GraphTypeOK
    BY <1>1, <1>2 DEF GraphInit, GraphTypeOK, NoResult, RunningNodes
  <1>3. ASSUME GraphInit PROVE StepsBefore /\ CallsBefore /\ AnswerBefore
    BY <1>1, <1>3, HopAssumption
       DEF GraphInit, StepsBefore, CallsBefore, AnswerBefore, NoResult, RunningNodes
  <1> QED BY <1>2, <1>3 DEF GraphInv

\* Every node of the graph, and the start of a query, preserves the invariant.
LEMMA GraphNextInv == GraphInv /\ [GraphNext]_graphVars => GraphInv'
  <1> SUFFICES ASSUME GraphInv, [GraphNext]_graphVars PROVE GraphInv'
    OBVIOUS
  <1> USE HopAssumption, ScoreAssumption, CritiqueAssumption
         DEF GraphInv, GraphTypeOK, StepsBefore, CallsBefore, AnswerBefore, RunningNodes
  <1>1. CASE Query
    BY <1>1 DEF Query, NoResult
  <1>2. CASE Router
    BY <1>2 DEF Router
  <1>3. CASE InitialSearch
    BY <1>3 DEF InitialSearch
  <1>4. CASE Analyze
    BY <1>4 DEF Analyze, ParsedScores, ShouldContinueSearch, HopsRemain
  <1>5. CASE FollowUp
    BY <1>5 DEF FollowUp
  <1>6. CASE Synthesize
    BY <1>6 DEF Synthesize, Finish
  <1>7. CASE Critique
    BY <1>7 DEF Critique, ParsedScores, ShouldImprove, HopsRemain, Finish
  <1>8. CASE NodeRaises
    BY <1>8 DEF NodeRaises, NoResult
  <1>9. CASE UNCHANGED graphVars
    BY <1>9 DEF graphVars
  <1> QED
    BY <1>1, <1>2, <1>3, <1>4, <1>5, <1>6, <1>7, <1>8, <1>9 DEF GraphNext, GraphStep

\* The inductive invariant holds in every behaviour of the graph.
THEOREM GraphInvariant == GraphSpec => []GraphInv
  BY GraphInitInv, GraphNextInv, PTL DEF GraphSpec

\* The invariant bounds the searches and the model calls.
LEMMA InvImpliesCost == GraphInv => CostBounded
  BY HopAssumption DEF GraphInv, GraphTypeOK, StepsBefore, CallsBefore, CostBounded

\* The invariant orders the answer after the last search.
LEMMA InvImpliesAnswer == GraphInv => AnswerUsesAllHops
  BY DEF GraphInv, AnswerBefore, AnswerUsesAllHops

\* The agent's fields and the reasoning state keep their types.
THEOREM GraphTypes == GraphSpec => []GraphTypeOK
  BY GraphInvariant, PTL DEF GraphInv

\* No query makes more searches than its hops, or more than four calls of the
\* language model per hop, for any ceiling and any argument of the constructor.
THEOREM GraphCost == GraphSpec => []CostBounded
  BY GraphInvariant, InvImpliesCost, PTL

\* A returned answer was written after the last search of its query.
THEOREM GraphAnswer == GraphSpec => []AnswerUsesAllHops
  BY GraphInvariant, InvImpliesAnswer, PTL

-----------------------------------------------------------------------------
\* The mapped initial states are initial states of the budget.
LEMMA InitImplementsBudget == GraphInit => Budget!Init
  <1>1. ASSUME GraphInit PROVE max_hops \in 1 .. Ceiling
    BY <1>1, ClampInRange, HopAssumption DEF GraphInit
  <1> QED BY <1>1 DEF GraphInit, Budget!Init, RunningNodes, NoResult

\* Each node is a step of the budget or leaves it as it is.
LEMMA NextImplementsBudget ==
    GraphInv /\ GraphInv' /\ [GraphNext]_graphVars => [Budget!Next]_(Budget!vars)
  <1> SUFFICES ASSUME GraphInv, GraphInv', [GraphNext]_graphVars
               PROVE  [Budget!Next]_(Budget!vars)
    OBVIOUS
  <1> USE DEF GraphInv, GraphTypeOK, StepsBefore, AnswerBefore, RunningNodes
  <1>1. CASE Query
    <2>1. Budget!Start
      BY <1>1 DEF Query, NoResult, Budget!Start
    <2> QED BY <2>1 DEF Budget!Next
  <1>2. CASE Router
    BY <1>2 DEF Router, Budget!vars
  <1>3. CASE InitialSearch
    <2>1. Budget!Search
      BY <1>3 DEF InitialSearch, Budget!Search
    <2> QED BY <2>1 DEF Budget!Next
  <1>4. CASE Analyze
    BY <1>4 DEF Analyze, ShouldContinueSearch, Budget!vars
  <1>5. CASE FollowUp
    <2>1. Budget!Search
      BY <1>5 DEF FollowUp, Budget!Search
    <2> QED BY <2>1 DEF Budget!Next
  <1>6. CASE Synthesize
    <2>1. CASE EnableCritique
      <3>1. Budget!Write
        BY <1>6, <2>1 DEF Synthesize, Budget!Write
      <3> QED BY <3>1 DEF Budget!Next
    <2>2. CASE ~EnableCritique
      <3>1. Budget!Return
        BY <1>6, <2>2 DEF Synthesize, Finish, Budget!Return
      <3> QED BY <3>1 DEF Budget!Next
    <2> QED BY <2>1, <2>2
  <1>7. CASE Critique
    <2>1. PICK good \in BOOLEAN, score \in ParsedScores(confidence) :
              IF ShouldImprove(score, ~good /\ HopsRemain)
                 THEN node' = "follow_up" /\ UNCHANGED result
                 ELSE Finish(answer, score)
      BY <1>7 DEF Critique
    <2>2. CASE ShouldImprove(score, ~good /\ HopsRemain)
      BY <1>7, <2>1, <2>2 DEF Critique, Budget!vars
    <2>3. CASE ~ShouldImprove(score, ~good /\ HopsRemain)
      <3>1. Budget!Return
        BY <1>7, <2>1, <2>3 DEF Critique, Finish, Budget!Return
      <3> QED BY <3>1 DEF Budget!Next
    <2> QED BY <2>2, <2>3
  <1>8. CASE NodeRaises
    <2>1. Budget!GiveUp
      BY <1>8 DEF NodeRaises, NoResult, Budget!GiveUp
    <2> QED BY <2>1 DEF Budget!Next
  <1>9. CASE UNCHANGED graphVars
    BY <1>9 DEF graphVars, Budget!vars
  <1> QED
    BY <1>1, <1>2, <1>3, <1>4, <1>5, <1>6, <1>7, <1>8, <1>9 DEF GraphNext, GraphStep

\* The reasoning graph implements the budget a caller relies on.
THEOREM GraphImplements == GraphSpec => ImplementsBudget
  <1>1. GraphSpec => [][Budget!Next]_(Budget!vars)
    BY GraphInvariant, NextImplementsBudget, PTL DEF GraphSpec
  <1> QED
    BY <1>1, InitImplementsBudget, PTL DEF GraphSpec, ImplementsBudget, Budget!Spec

-----------------------------------------------------------------------------

\* A strategy is what its complexity says it is.
StrategyShape ==
    /\ strategy.agent_type = "MultiHopReasoningAgent" <=> strategy.complexity = "high"
    /\ strategy.use_tools <=> strategy.complexity # "low"
    /\ strategy.complexity = "mid" => strategy.max_hops = MaxHopsMid

\* Attempts are counted with the escalations that led to them.
AttemptsCounted ==
    /\ phase # "idle" => Len(history) = attempt - 1
    /\ phase = "idle" => history = <<>>
    /\ phase = "decide" => attempt = 1
    /\ attempt <= processor.max_attempts

\* The reply that is judged or returned is that of the strategy in force.
ReplyMatches ==
    phase \in {"judge", "done"} => /\ reply.attempt = attempt
                                   /\ reply.agent = strategy.agent_type
                                   /\ reply.use_tools = strategy.use_tools

\* Escalations climb, and the last one led to the strategy in force.
HistoryClimbs ==
    /\ \A i \in 1 .. Len(history) : Rank[history[i].from] < Rank[history[i].to]
    /\ Len(history) > 0 => history[Len(history)].to = strategy.complexity

\* Once decided, a query that asks for a search is above LOW.
IntentAboveLow ==
    (phase \notin {"idle", "decide"} /\ request.search_intent /\ request.forced # "low")
        => strategy.complexity # "low"

AdaptiveInv ==
    /\ TypeOK
    /\ GraphInv
    /\ StrategyShape
    /\ AttemptsCounted
    /\ ReplyMatches
    /\ HistoryClimbs
    /\ IntentAboveLow

-----------------------------------------------------------------------------
\* The limit of attempts is at least one, whatever the constructor was given.
LEMMA ClampAttemptsPositive == \A n \in AttemptLimits : ClampAttempts(n) \in Nat \ {0}
  BY AdaptiveAssumption DEF ClampAttempts

\* What decide_agent_strategy returns for a level and a load.
LEMMA DecideShape ==
    ASSUME NEW c \in Levels, NEW load \in BOOLEAN
    PROVE  /\ Decide(c, load) \in Strategies
           /\ Decide(c, load).agent_type = "MultiHopReasoningAgent"
                <=> Decide(c, load).complexity = "high"
           /\ Decide(c, load).use_tools <=> Decide(c, load).complexity # "low"
           /\ Decide(c, load).complexity = "mid" => Decide(c, load).max_hops = MaxHopsMid
           /\ c # "low" => Decide(c, load).complexity # "low"
           /\ Decide(c, load).complexity \in {c, "mid"}
           /\ c # "high" => Decide(c, load).complexity = c
  BY AdaptiveAssumption DEF Decide, Degrade, StrategyFor, Strategies, Levels

\* A strategy that may replace another one is of a higher complexity.
LEMMA EscalationRises ==
    ASSUME TypeOK, StrategyShape,
           NEW next, next = Decide(Stronger(strategy.complexity), constrained),
           MayEscalate(next)
    PROVE  Rank[strategy.complexity] < Rank[next.complexity]
  <1>1. strategy.complexity \in {"low", "mid"}
    BY DEF TypeOK, Strategies, Levels, StrategyShape, MayEscalate
  <1>2. constrained \in BOOLEAN
    BY DEF TypeOK
  <1>3. CASE strategy.complexity = "low"
    <2>1. next.complexity = "mid"
      BY <1>2, <1>3, DecideShape DEF Stronger, Levels
    <2> QED BY <1>3, <2>1 DEF Rank, Levels
  <1>4. CASE strategy.complexity = "mid"
    <2>1. next \in Strategies /\ next.complexity \in {"high", "mid"}
      BY <1>2, <1>4, DecideShape DEF Stronger, Levels
    <2>2. next.complexity # "mid"
      <3>1. SUFFICES ASSUME next.complexity = "mid" PROVE FALSE
        OBVIOUS
      <3>2. next.max_hops = strategy.max_hops
        BY <1>2, <1>4, <3>1, DecideShape DEF Stronger, Levels, StrategyShape
      <3>3. next.use_tools = strategy.use_tools
        <4>1. next.use_tools /\ next.use_tools \in BOOLEAN
          BY <1>2, <1>4, <2>1, <3>1, DecideShape DEF Stronger, Levels, Strategies
        <4>2. strategy.use_tools /\ strategy.use_tools \in BOOLEAN
          BY <1>4 DEF StrategyShape, TypeOK, Strategies
        <4> QED BY <4>1, <4>2
      <3>4. next.agent_type = strategy.agent_type
        <4>1. next.agent_type # "MultiHopReasoningAgent"
          BY <1>2, <1>4, <3>1, DecideShape DEF Stronger, Levels
        <4> QED BY <1>4, <2>1, <4>1 DEF StrategyShape, TypeOK, Strategies
      <3> QED BY <3>2, <3>3, <3>4 DEF MayEscalate, SameStrategy
    <2> QED BY <1>4, <2>1, <2>2 DEF Rank, Levels
  <1> QED BY <1>1, <1>3, <1>4

\* The invariant holds when the processor is made.
LEMMA AdaptiveInitInv == Init => AdaptiveInv
  <1> SUFFICES ASSUME Init PROVE AdaptiveInv
    OBVIOUS
  <1>1. GraphInv
    BY GraphInitInv DEF Init
  <1>2. /\ strategy \in Strategies
        /\ StrategyShape
    BY DecideShape DEF Init, ProcInit, StrategyShape, Levels
  <1>3. processor \in [max_attempts : Nat \ {0}, agent : BOOLEAN, multihop_agent : BOOLEAN]
    BY ClampAttemptsPositive DEF Init, ProcInit
  <1>4. TypeOK
    <2>1. request \in Requests /\ reply = NoReply /\ attempt = 0 /\ phase = "idle"
      BY DEF Init, ProcInit, Requests
    <2>2. history \in Seq([from : Levels, to : Levels]) /\ constrained \in BOOLEAN
      BY DEF Init, ProcInit
    <2> QED BY <1>1, <1>2, <1>3, <2>1, <2>2 DEF TypeOK, GraphInv, NoReply
  <1>5. AttemptsCounted /\ ReplyMatches /\ HistoryClimbs /\ IntentAboveLow
    BY <1>3 DEF Init, ProcInit, AttemptsCounted, ReplyMatches, HistoryClimbs, IntentAboveLow
  <1> QED BY <1>1, <1>2, <1>4, <1>5 DEF AdaptiveInv

-----------------------------------------------------------------------------
\* A new query starts over with an empty history.
LEMMA ReceiveInv == AdaptiveInv /\ Receive => AdaptiveInv'
  <1> SUFFICES ASSUME AdaptiveInv, Receive PROVE AdaptiveInv'
    OBVIOUS
  <1>1. GraphInv' /\ GraphTypeOK'
    BY GraphNextInv DEF AdaptiveInv, Receive, GraphInv
  <1>2. TypeOK'
    BY <1>1 DEF AdaptiveInv, TypeOK, Receive, NoReply
  <1>3. StrategyShape' /\ ReplyMatches' /\ IntentAboveLow'
    BY DEF AdaptiveInv, StrategyShape, ReplyMatches, IntentAboveLow, Receive
  <1>4. AttemptsCounted' /\ HistoryClimbs'
    BY DEF AdaptiveInv, TypeOK, AttemptsCounted, HistoryClimbs, Receive
  <1> QED BY <1>1, <1>2, <1>3, <1>4 DEF AdaptiveInv

\* The first strategy serves the request.
LEMMA DecideInv == AdaptiveInv /\ DecideStrategy => AdaptiveInv'
  <1> SUFFICES ASSUME AdaptiveInv, DecideStrategy PROVE AdaptiveInv'
    OBVIOUS
  <1> DEFINE Level(c) == IF request.forced # "none" THEN request.forced
                         ELSE Classified(c, request.search_intent)
  <1>1. PICK c \in Levels : strategy' = Decide(Level(c), constrained)
    BY DEF DecideStrategy
  <1>2. Level(c) \in Levels /\ constrained \in BOOLEAN
    BY <1>1 DEF AdaptiveInv, TypeOK, Requests, Levels, Classified
  <1>3. strategy' \in Strategies /\ StrategyShape'
    BY <1>1, <1>2, DecideShape DEF StrategyShape
  <1>4. GraphInv' /\ GraphTypeOK'
    BY GraphNextInv DEF AdaptiveInv, DecideStrategy, GraphInv
  <1>5. TypeOK'
    BY <1>3, <1>4 DEF AdaptiveInv, TypeOK, DecideStrategy
  <1>6. AttemptsCounted' /\ ReplyMatches' /\ HistoryClimbs'
    BY DEF AdaptiveInv, AttemptsCounted, ReplyMatches, HistoryClimbs, DecideStrategy, TypeOK
  <1>7. IntentAboveLow'
    <2>1. (request.search_intent /\ request.forced # "low") => Level(c) # "low"
      BY DEF Classified
    <2> QED BY <1>1, <1>2, <2>1, DecideShape DEF IntentAboveLow, DecideStrategy
  <1> QED BY <1>3, <1>4, <1>5, <1>6, <1>7 DEF AdaptiveInv

\* The attempts answered by SearchAgent, by an error, or by a finished walk.
LEMMA AnsweredInv ==
    AdaptiveInv /\ (ExecuteFails \/ ExecuteSearchAgent \/ MultihopReturns) => AdaptiveInv'
  <1> SUFFICES ASSUME AdaptiveInv, ExecuteFails \/ ExecuteSearchAgent \/ MultihopReturns
               PROVE  AdaptiveInv'
    OBVIOUS
  <1>1. PICK score \in Nat, failed \in BOOLEAN : Answered(score, failed)
    BY AdaptiveAssumption
       DEF ExecuteFails, ExecuteSearchAgent, MultihopReturns, AdaptiveInv, TypeOK, GraphTypeOK
  <1>2. UNCHANGED <<graphVars, processor, constrained, request, strategy, attempt, history>>
    BY DEF ExecuteFails, ExecuteSearchAgent, MultihopReturns
  <1>3. phase \in {"execute", "multihop"} /\ phase' = "judge"
    BY <1>1 DEF ExecuteFails, ExecuteSearchAgent, MultihopReturns, Answered
  <1>4. GraphInv' /\ GraphTypeOK'
    BY <1>2, GraphNextInv DEF AdaptiveInv, GraphInv
  <1>5. TypeOK'
    BY <1>1, <1>2, <1>3, <1>4 DEF AdaptiveInv, TypeOK, Answered, Strategies
  <1>6. StrategyShape' /\ ReplyMatches'
    BY <1>1, <1>2 DEF AdaptiveInv, StrategyShape, ReplyMatches, Answered
  <1>7. AttemptsCounted' /\ HistoryClimbs' /\ IntentAboveLow'
    BY <1>2, <1>3 DEF AdaptiveInv, AttemptsCounted, HistoryClimbs, IntentAboveLow
  <1> QED BY <1>4, <1>5, <1>6, <1>7 DEF AdaptiveInv

\* A step of the graph leaves the processor's part alone.
LEMMA WalkInv == AdaptiveInv /\ (ExecuteMultihop \/ WalkGraph) => AdaptiveInv'
  <1> SUFFICES ASSUME AdaptiveInv, ExecuteMultihop \/ WalkGraph PROVE AdaptiveInv'
    OBVIOUS
  <1>1. UNCHANGED <<processor, constrained, request, strategy, attempt, reply, history>>
    BY DEF ExecuteMultihop, WalkGraph, procVars
  <1>2. phase \in {"execute", "multihop"} /\ phase' = "multihop"
    BY DEF ExecuteMultihop, WalkGraph, procVars
  <1>3. GraphInv' /\ GraphTypeOK'
    BY GraphNextInv DEF AdaptiveInv, GraphInv, ExecuteMultihop, WalkGraph, GraphNext
  <1>4. TypeOK'
    BY <1>1, <1>2, <1>3 DEF AdaptiveInv, TypeOK
  <1>5. StrategyShape' /\ AttemptsCounted' /\ ReplyMatches' /\ HistoryClimbs' /\ IntentAboveLow'
    BY <1>1, <1>2
       DEF AdaptiveInv, StrategyShape, AttemptsCounted, ReplyMatches, HistoryClimbs, IntentAboveLow
  <1> QED BY <1>3, <1>4, <1>5 DEF AdaptiveInv

\* An escalation goes to a stronger strategy, or there is none.
LEMMA JudgeInv == AdaptiveInv /\ Judge => AdaptiveInv'
  <1> SUFFICES ASSUME AdaptiveInv, Judge PROVE AdaptiveInv'
    OBVIOUS
  <1> DEFINE next == Decide(Stronger(strategy.complexity), constrained)
  <1>1. GraphInv' /\ GraphTypeOK'
    BY GraphNextInv DEF AdaptiveInv, Judge, GraphInv
  <1>2. UNCHANGED <<processor, constrained, request, reply>> /\ phase = "judge"
    BY DEF Judge
  <1>3. Stronger(strategy.complexity) \in Levels \ {"low"} /\ constrained \in BOOLEAN
    BY DEF Stronger, Levels, AdaptiveInv, TypeOK
  <1>4. CASE MayEscalate(next)
    <2>1. /\ history' = Append(history, [from |-> strategy.complexity, to |-> next.complexity])
          /\ strategy' = next
          /\ attempt' = attempt + 1
          /\ phase' = "execute"
      BY <1>4 DEF Judge
    <2>2. strategy' \in Strategies /\ StrategyShape' /\ next.complexity # "low"
      BY <1>3, <2>1, DecideShape DEF StrategyShape
    <2>3. next.complexity \in Levels /\ strategy.complexity \in Levels
      BY <2>1, <2>2 DEF Strategies, AdaptiveInv, TypeOK
    <2>4. history \in Seq([from : Levels, to : Levels])
      BY DEF AdaptiveInv, TypeOK
    <2>5. history' \in Seq([from : Levels, to : Levels])
      BY <2>1, <2>3, <2>4
    <2>6. TypeOK'
      BY <1>1, <1>2, <2>1, <2>2, <2>5 DEF AdaptiveInv, TypeOK
    <2>7. AttemptsCounted' /\ ReplyMatches' /\ IntentAboveLow'
      BY <1>2, <1>4, <2>1, <2>2, <2>4
         DEF AdaptiveInv, TypeOK, AttemptsCounted, ReplyMatches, IntentAboveLow, MayEscalate
    <2>8. HistoryClimbs'
      <3>1. Rank[strategy.complexity] < Rank[next.complexity]
        BY <1>4, EscalationRises DEF AdaptiveInv
      <3>2. Len(history') = Len(history) + 1
        BY <2>1, <2>4
      <3>3. history'[Len(history')] = [from |-> strategy.complexity, to |-> next.complexity]
        BY <2>1, <2>4
      <3>4. \A i \in 1 .. Len(history) : history'[i] = history[i]
        BY <2>1, <2>4
      <3> QED BY <2>1, <2>4, <3>1, <3>2, <3>3, <3>4 DEF AdaptiveInv, HistoryClimbs
    <2> QED BY <1>1, <2>2, <2>6, <2>7, <2>8 DEF AdaptiveInv
  <1>5. CASE ~MayEscalate(next)
    <2>1. phase' = "done" /\ UNCHANGED <<history, strategy, attempt>>
      BY <1>5 DEF Judge
    <2>2. TypeOK'
      BY <1>1, <1>2, <2>1 DEF AdaptiveInv, TypeOK
    <2>3. StrategyShape' /\ AttemptsCounted' /\ ReplyMatches' /\ HistoryClimbs' /\ IntentAboveLow'
      BY <1>2, <2>1
         DEF AdaptiveInv, StrategyShape, AttemptsCounted, ReplyMatches, HistoryClimbs,
             IntentAboveLow
    <2> QED BY <1>1, <2>2, <2>3 DEF AdaptiveInv
  <1> QED BY <1>4, <1>5

\* The load is no part of what the invariant relates.
LEMMA LoadInv == AdaptiveInv /\ (LoadChanges \/ UNCHANGED vars) => AdaptiveInv'
  <1> SUFFICES ASSUME AdaptiveInv, LoadChanges \/ UNCHANGED vars PROVE AdaptiveInv'
    OBVIOUS
  <1>1. /\ UNCHANGED <<graphVars, processor, phase, request, strategy, attempt, reply, history>>
        /\ constrained' \in BOOLEAN
    BY DEF LoadChanges, vars, procVars, AdaptiveInv, TypeOK
  <1>2. GraphInv' /\ GraphTypeOK'
    BY <1>1, GraphNextInv DEF AdaptiveInv, GraphInv
  <1>3. TypeOK'
    BY <1>1, <1>2 DEF AdaptiveInv, TypeOK
  <1>4. StrategyShape' /\ AttemptsCounted' /\ ReplyMatches' /\ HistoryClimbs' /\ IntentAboveLow'
    BY <1>1
       DEF AdaptiveInv, StrategyShape, AttemptsCounted, ReplyMatches, HistoryClimbs, IntentAboveLow
  <1> QED BY <1>2, <1>3, <1>4 DEF AdaptiveInv

\* The invariant holds in every behaviour of the processor and its graph.
THEOREM AdaptiveInvariant == Spec => []AdaptiveInv
  <1>1. AdaptiveInv /\ [Next]_vars => AdaptiveInv'
    BY ReceiveInv, DecideInv, AnsweredInv, WalkInv, JudgeInv, LoadInv DEF Next, Work
  <1> QED BY <1>1, AdaptiveInitInv, PTL DEF Spec

-----------------------------------------------------------------------------
\* A response reports the strategy and the attempt that made its answer.
THEOREM ReportedStrategy == Spec => []ReportedStrategyAnswered
  <1>1. AdaptiveInv => ReportedStrategyAnswered
    BY DEF AdaptiveInv, ReplyMatches, AttemptsCounted, ReportedStrategyAnswered
  <1> QED BY <1>1, AdaptiveInvariant, PTL

\* Escalation only ever climbs, whatever the load does between two attempts.
THEOREM EscalationOnlyClimbs == Spec => []EscalationClimbs
  <1>1. AdaptiveInv => EscalationClimbs
    BY DEF AdaptiveInv, HistoryClimbs, AttemptsCounted, EscalationClimbs
  <1> QED BY <1>1, AdaptiveInvariant, PTL

\* An explicit search request is never answered without tools.
THEOREM SearchIntentServed == Spec => []SearchIntentGetsTools
  <1>1. AdaptiveInv => SearchIntentGetsTools
    <2> SUFFICES ASSUME AdaptiveInv, phase = "done", request.search_intent,
                        request.forced # "low"
                 PROVE  reply.use_tools
      BY DEF SearchIntentGetsTools
    <2>1. strategy.use_tools
      BY DEF AdaptiveInv, IntentAboveLow, StrategyShape
    <2>2. reply.use_tools = strategy.use_tools
      BY DEF AdaptiveInv, ReplyMatches
    <2> QED BY <2>1, <2>2
  <1> QED BY <1>1, AdaptiveInvariant, PTL

\* The cost bound of one walk holds for the walks the processor starts.
THEOREM AdaptiveCost == Spec => []CostBounded
  BY AdaptiveInvariant, InvImpliesCost, PTL DEF AdaptiveInv

-----------------------------------------------------------------------------
\* The processor moves the graph only by the graph's own steps.
LEMMA ProcessorWalks == [Next]_vars => [GraphNext]_graphVars
  <1> SUFFICES ASSUME [Next]_vars PROVE [GraphNext]_graphVars
    OBVIOUS
  <1>1. CASE ExecuteMultihop
    BY <1>1 DEF ExecuteMultihop, GraphNext
  <1>2. CASE WalkGraph
    BY <1>2 DEF WalkGraph, GraphNext
  <1>3. CASE Receive \/ DecideStrategy \/ LoadChanges
    BY <1>3 DEF Receive, DecideStrategy, LoadChanges
  <1>4. CASE ExecuteFails \/ ExecuteSearchAgent \/ MultihopReturns
    BY <1>4 DEF ExecuteFails, ExecuteSearchAgent, MultihopReturns
  <1>5. CASE Judge
    BY <1>5 DEF Judge
  <1>6. CASE UNCHANGED vars
    BY <1>6 DEF vars
  <1> QED BY <1>1, <1>2, <1>3, <1>4, <1>5, <1>6 DEF Next, Work

\* Inside the processor, under any load and any escalation, the reasoning graph
\* still implements the budget.
THEOREM ProcessorImplements == Spec => GraphImplementsBudget
  <1>1. Init => Budget!Init
    BY InitImplementsBudget DEF Init
  <1>2. AdaptiveInv /\ AdaptiveInv' /\ [Next]_vars => [Budget!Next]_(Budget!vars)
    BY ProcessorWalks, NextImplementsBudget DEF AdaptiveInv
  <1> QED
    BY <1>1, <1>2, AdaptiveInvariant, PTL DEF Spec, GraphImplementsBudget, Budget!Spec
=============================================================================
