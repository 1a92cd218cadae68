--------------------------- MODULE ResearchBudget ---------------------------
(***************************************************************************)
(* What a research query promises its caller, whatever the nodes of the    *)
(* reasoning graph decide: it may search a bounded number of times, it may *)
(* write an answer after any search, and it returns a written answer only  *)
(* if no search was made after the answer was written.  A query may also   *)
(* fail at any time.  MultiHop.tla is shown to implement this module.      *)
(***************************************************************************)
EXTENDS Integers

CONSTANT Ceiling  \* the largest budget a query can be given, at least 1

VARIABLES
    budget,   \* searches this agent may make for one query
    hops,     \* searches made for the query in progress
    written,  \* value of hops when the answer was last written, 0 before
    open,     \* a query is in progress
    outcome   \* what the last query returned

vars == <<budget, hops, written, open, outcome>>

Init ==
    /\ budget \in 1 .. Ceiling
    /\ hops = 0
    /\ written = 0
    /\ open = FALSE
    /\ outcome = "none"

Start ==
    /\ ~open
    /\ open' = TRUE
    /\ hops' = 0
    /\ written' = 0
    /\ outcome' = "none"
    /\ UNCHANGED budget

Search ==
    /\ open
    /\ hops < budget
    /\ hops' = hops + 1
    /\ UNCHANGED <<budget, written, open, outcome>>

Write ==
    /\ open
    /\ hops > 0
    /\ written' = hops
    /\ UNCHANGED <<budget, hops, open, outcome>>

\* The answer returned was written after the last search: already, or now.
Return ==
    /\ open
    /\ hops > 0
    /\ written' = hops
    /\ outcome' = "ok"
    /\ open' = FALSE
    /\ UNCHANGED <<budget, hops>>

GiveUp ==
    /\ open
    /\ outcome' = "error"
    /\ open' = FALSE
    /\ UNCHANGED <<budget, hops, written>>

Next == Start \/ Search \/ Write \/ Return \/ GiveUp

Spec == Init /\ [][Next]_vars

=============================================================================
