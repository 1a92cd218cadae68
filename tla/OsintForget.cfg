\* One user; remembering, forgetting, remembering and forgetting again are four
\* questions.
CONSTANTS
    Askers = {"a1"}
    Kinds = {"email"}
    BreachSources = {"hibp"}
    GeneralLimit = 1
    AsksMax = 4
SPECIFICATION OsintSpec
INVARIANT ForgottenIsForgotten
CHECK_DEADLOCK FALSE
