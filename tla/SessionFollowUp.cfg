\* The command line program: one thread for everything.
CONSTANTS
    Queriers = {main}
    Commanders = {main}
    Questions = {q1}
    ResultNums = {1, 2}
    Outcomes = {TRUE}
    MaxHistory = 2
    MaxPages = 3
    MaxTurns = 4
    None = None
    Garbled = Garbled
SPECIFICATION Spec
INVARIANT FollowUpHasContext
