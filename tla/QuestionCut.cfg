\* A model with a window of 4096 tokens and the max_tokens of
\* config.json.example: is the question ever cut off?
CONSTANTS
    Windows = {4096}
    MaxTokens = {2048}
    ContextLimits = {1500, 2500}
    SystemLengths = {401}
    QueryLengths = {103, 1700}
    ContentLengths = {0, 5003, 40007}
    LabelLength = 25
SPECIFICATION ContextBudgetSpec
INVARIANT QuestionArrives
