--------------------------- MODULE ContextBudget ---------------------------
(***************************************************************************)
(* From the settings to the prompt that is sent: the token budgets an      *)
(* agent derives from its model's window, the sections of context that are *)
(* packed by priority, the prompt that ContextManager builds within its    *)
(* budget, and the client's own check before it sends.                     *)
(*                                                                         *)
(* A text is its length in characters, and tokens are estimated from it,   *)
(* as TextCleaner does without an encoder.  A prompt is its parts in       *)
(* order, so that a cut at the end shows what it takes away.               *)
(***************************************************************************)
EXTENDS Naturals, Sequences

CONSTANTS
    Windows,          \* windows of models, in tokens
    MaxTokens,        \* values of llm.max_tokens
    ContextLimits,    \* values of max_context_tokens
    SystemLengths,    \* characters of a system prompt
    QueryLengths,     \* of a question
    ContentLengths,   \* of the content of a section
    LabelLength       \* of a label: 25 at most in the code

ASSUME ContextBudgetAssumption ==
    /\ \A s \in {Windows, MaxTokens, ContextLimits, SystemLengths, QueryLengths,
                 ContentLengths} : s \subseteq Nat
    /\ 0 \notin Windows /\ LabelLength \in 0 .. 25

Least(a, b) == IF a <= b THEN a ELSE b
Most(a, b) == IF a >= b THEN a ELSE b
Above(a, b) == Most(a, b) - b                       \* max(0, a - b)

-----------------------------------------------------------------------------
\* _compute_token_budgets: what the client may generate, what is kept free of
\* the prompt, what remains for it.
SafeMaxTokens(w, c) ==
    Least(Least(c, Most(64, Above(w, 512))), w)

Reserve(w, c) ==
    LET reserve == Least(Least(SafeMaxTokens(w, c),
                               Most(256, w \div 5)), w)
    IN  IF reserve >= w THEN Most(64, w \div 4) ELSE reserve

\* ContextManager: a reserve of zero stands for a fifth of the window.
PromptBudget(w, c) ==
    LET reserve == Reserve(w, c)
    IN  Above(w, IF reserve > 0 THEN reserve
                      ELSE Least(16000, Most(256, w \div 5)))

-----------------------------------------------------------------------------
CharsPerToken == 4
Ellipsis == 3
Tokens(chars) == chars \div CharsPerToken

\* truncate_by_tokens: at the last space, when that is in the second half.
Truncations(chars, limit) ==
    LET most == limit * CharsPerToken
    IN  IF Tokens(chars) <= limit THEN {chars}
        ELSE {cut + Ellipsis : cut \in {most, Least(most, most \div 2 + 1)}}

ContextLabel == 16     \* a newline of the join, then the label
QuestionLabel == 17
Overhead == 20         \* tokens allowed for them
SectionOverhead == 10

VARIABLES
    stage,      \* "settings", "sections", "prompt", "check" or "sent"
    window,
    configured,
    ask,        \* lengths of system prompt, question, and the limit of the context
    sections,   \* lengths of the contents still to be packed, by priority
    remaining,  \* tokens left for them
    context,    \* characters packed
    prompt      \* characters of the prompt, and where its question ends

budgetVars == <<stage, window, configured, ask, sections, remaining, context, prompt>>

ContextBudgetInit ==
    /\ stage = "settings" /\ window \in Windows /\ configured \in MaxTokens
    /\ ask = [system |-> 0, query |-> 0, limit |-> 0]
    /\ sections = <<>> /\ remaining = 0 /\ context = 0
    /\ prompt = [chars |-> 0, question |-> 0]

\* A question comes with what the session has for it.
AsksModel ==
    /\ stage = "settings" /\ stage' = "sections"
    /\ \E s \in SystemLengths, q \in QueryLengths, l \in ContextLimits :
         /\ ask' = [system |-> s, query |-> q, limit |-> l]
         /\ remaining' = Least(l, PromptBudget(window, configured))
    /\ \E a, b \in ContentLengths : sections' \in {<<>>, <<a>>, <<a, b>>}
    /\ UNCHANGED <<window, configured, context, prompt>>

Separator == IF context = 0 THEN 0 ELSE 2
SectionLabel == LabelLength + 9
Truncated == 12     \* the label says so

\* build_prioritized_context: whole, cut to what is left, or not at all.
PacksWhole ==
    /\ stage = "sections" /\ sections # <<>> /\ remaining > 50
    /\ Tokens(Head(sections)) + SectionOverhead <= remaining
    /\ context' = context + Separator + SectionLabel + Head(sections)
    /\ remaining' = remaining - Tokens(Head(sections)) - SectionOverhead
    /\ sections' = Tail(sections)
    /\ UNCHANGED <<stage, window, configured, ask, prompt>>

PacksCut ==
    /\ stage = "sections" /\ sections # <<>> /\ remaining > 50
    /\ Tokens(Head(sections)) + SectionOverhead > remaining
    /\ \E cut \in Truncations(Head(sections), remaining - SectionOverhead) :
         context' = context + Separator + SectionLabel + Truncated + cut
    /\ remaining' = 0 /\ sections' = Tail(sections)
    /\ UNCHANGED <<stage, window, configured, ask, prompt>>

PackingEnds ==
    /\ stage = "sections" /\ (sections = <<>> \/ remaining <= 50)
    /\ stage' = "prompt"
    /\ UNCHANGED <<window, configured, ask, sections, remaining, context, prompt>>

\* allocate_budget, and one that forgets the labels.
Capped(tokens, limit) == IF limit > 0 THEN Least(tokens, limit) ELSE tokens
ContextAvailableBarely(a) ==
    Capped(Above(PromptBudget(window, configured), Tokens(a.system) + Tokens(a.query)), a.limit)
ContextAvailable(a) ==
    Capped(Above(PromptBudget(window, configured),
                 Tokens(a.system) + Tokens(a.query) + Overhead), a.limit)

\* build_prompt: system prompt, context, question; and a cut of the end should
\* it be too long.
BuildsPrompt ==
    /\ stage = "prompt" /\ stage' = "check"
    /\ \E part \in IF context > 0 /\ ContextAvailable(ask) > 0
                   THEN {ContextLabel + c : c \in Truncations(context, ContextAvailable(ask))}
                   ELSE {0} :
         LET whole == ask.system + part + QuestionLabel + ask.query
         IN  \E chars \in Truncations(whole, PromptBudget(window, configured)) :
               prompt' = [chars |-> chars, question |-> whole]
    /\ UNCHANGED <<window, configured, ask, sections, remaining, context>>

\* _preflight_token_check: the client takes off what it may generate.
ChecksPrompt ==
    LET input == Above(window, SafeMaxTokens(window, configured))
    IN  /\ stage = "check" /\ stage' = "sent"
        /\ prompt' = IF input > 0 /\ Tokens(prompt.chars) > input
                     THEN [prompt EXCEPT !.chars = input * CharsPerToken] ELSE prompt
        /\ UNCHANGED <<window, configured, ask, sections, remaining, context>>

NextQuestion ==
    /\ stage = "sent" /\ stage' = "settings"
    /\ ask' = [system |-> 0, query |-> 0, limit |-> 0]
    /\ sections' = <<>> /\ remaining' = 0 /\ context' = 0
    /\ prompt' = [chars |-> 0, question |-> 0]
    /\ UNCHANGED <<window, configured>>

ContextBudgetNext ==
    \/ AsksModel \/ PacksWhole \/ PacksCut \/ PackingEnds
    \/ BuildsPrompt \/ ChecksPrompt \/ NextQuestion

ContextBudgetSpec == ContextBudgetInit /\ [][ContextBudgetNext]_budgetVars

-----------------------------------------------------------------------------
ContextBudgetTypeOK ==
    /\ stage \in {"settings", "sections", "prompt", "check", "sent"}
    /\ window \in Windows /\ configured \in MaxTokens
    /\ remaining \in Nat /\ context \in Nat
    /\ prompt.chars \in Nat /\ prompt.question \in Nat

\* System prompt and question leave room for the labels.
Fits == Tokens(ask.system) + Tokens(ask.query) + Overhead <= PromptBudget(window, configured)

\* The prompt that ContextManager builds is within its budget, and has all of
\* the question whenever that fits at all: whatever the sections add, only
\* they are cut (allocate_budget, build_prompt).
BuiltPromptFits ==
    stage = "check" =>
        /\ Tokens(prompt.chars) <= PromptBudget(window, configured)
        /\ Fits => prompt.chars = prompt.question

\* The docstring of allocate_budget: "2. User query (never truncated)".
QuestionArrives == stage = "sent" /\ Fits => prompt.chars >= prompt.question
=============================================================================
