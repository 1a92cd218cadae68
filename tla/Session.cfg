\* The API server: two workers serve queries, the event loop runs the commands.
CONSTANTS
    Queriers = {w1, w2}
    Commanders = {loop}
    Questions = {q1}
    ResultNums = {1, 2}
    Outcomes = {TRUE}
    MaxHistory = 1
    MaxPages = 1
    MaxTurns = 2
    None = None
    Garbled = Garbled
SPECIFICATION Spec
SYMMETRY Symmetry
INVARIANTS ReadableUnlessClash QuietIsSaved ClearedStaysCleared
