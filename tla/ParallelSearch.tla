--------------------------- MODULE ParallelSearch ---------------------------
(***************************************************************************)
(* The callers that give work to a thread pool and wait for it with a      *)
(* timeout: ParallelSearchManager._run_searches and parallel_map           *)
(* (utils/parallel_search.py), FactChecker._call_with_timeout              *)
(* (core/hallu/fact_checker.py).  A task is a search of one aspect, an     *)
(* item, or the one call of the fact checker.  A task that runs may never  *)
(* end.  The timeout may come at any moment while the caller waits.        *)
(***************************************************************************)
EXTENDS Naturals, FiniteSets

CONSTANTS
    Tasks,
    PoolSize     \* max_workers

ASSUME PoolAssumption == IsFiniteSet(Tasks) /\ PoolSize \in Nat \ {0}

VARIABLES
    kind,       \* "manager", "map" or "checker"
    caller,     \* where the caller is
    task,       \* the state of each future
    reported,   \* the futures the caller has an answer for, and which
    timedOut

searchVars == <<kind, caller, task, reported, timedOut>>

Kinds == {"manager", "map", "checker"}
Ended == {"ok", "failed", "cancelled"}

SearchInit ==
    /\ kind \in Kinds
    /\ caller = "start"
    /\ task = [a \in Tasks |-> "none"]
    /\ reported = [a \in {} |-> "none"]
    /\ timedOut = FALSE

Submitted == {a \in Tasks : task[a] # "none"}
Running == {a \in Tasks : task[a] = "running"}
Pending == Submitted \ DOMAIN reported

Report(a, answer) == reported' = [b \in DOMAIN reported \union {a} |-> IF b = a THEN answer ELSE reported[b]]

\* executor.submit: the fact checker has one task
Submit ==
    /\ caller = "start"
    /\ \E s \in SUBSET Tasks :
         /\ kind = "checker" => Cardinality(s) = 1
         /\ task' = [a \in Tasks |-> IF a \in s THEN "queued" ELSE "none"]
    /\ caller' = "wait"
    /\ UNCHANGED <<kind, reported, timedOut>>

\* Faulty variant: a thread for every task.
StartTaskUnbounded(a) ==
    /\ task[a] = "queued"
    /\ task' = [task EXCEPT ![a] = "running"]
    /\ UNCHANGED <<kind, caller, reported, timedOut>>

StartTask(a) ==
    /\ task[a] = "queued" /\ Cardinality(Running) < (IF kind = "checker" THEN 1 ELSE PoolSize)
    /\ task' = [task EXCEPT ![a] = "running"]
    /\ UNCHANGED <<kind, caller, reported, timedOut>>

EndTask(a) ==
    /\ task[a] = "running"
    /\ \E end \in {"ok", "failed"} : task' = [task EXCEPT ![a] = end]
    /\ UNCHANGED <<kind, caller, reported, timedOut>>

\* Faulty variant: the exception of a search is taken for its result.
CollectAny(a) ==
    /\ caller = "wait" /\ a \in Pending /\ task[a] \in {"ok", "failed"}
    /\ Report(a, "result")
    /\ UNCHANGED <<kind, caller, task, timedOut>>

\* a future that as_completed, or future.result, has waited for
Collect(a) ==
    /\ caller = "wait" /\ a \in Pending /\ task[a] \in {"ok", "failed"}
    /\ Report(a, IF task[a] = "ok" THEN "result" ELSE "error")
    /\ UNCHANGED <<kind, caller, task, timedOut>>

AllCollected ==
    /\ caller = "wait" /\ Pending = {}
    /\ caller' = "leave"
    /\ UNCHANGED <<kind, task, reported, timedOut>>

\* The fact checker and parallel_map leave the with block, the one with None,
\* the other with the exception; the manager goes through its futures.
Timeout ==
    /\ caller = "wait" /\ Pending # {}
    /\ timedOut' = TRUE
    /\ caller' = IF kind = "manager" THEN "cancel" ELSE "leave"
    /\ UNCHANGED <<kind, task, reported>>

\* future.cancel, which takes a queued task only
Cancel(a) ==
    /\ caller = "cancel" /\ a \in Pending
    /\ task' = IF task[a] = "queued" THEN [task EXCEPT ![a] = "cancelled"] ELSE task
    /\ Report(a, "timeout")
    /\ UNCHANGED <<kind, caller, timedOut>>

AllCancelled ==
    /\ caller = "cancel" /\ Pending = {}
    /\ caller' = "leave"
    /\ UNCHANGED <<kind, task, reported, timedOut>>

\* Faulty variant: the pool is always shut down waiting.
LeaveWaiting ==
    /\ caller = "leave"
    /\ \A a \in Submitted : task[a] \in Ended
    /\ caller' = "returned"
    /\ UNCHANGED <<kind, task, reported, timedOut>>

\* executor.shutdown: it waits for every task, except after a timeout of the
\* manager, which drops the queued ones
Leave ==
    /\ caller = "leave"
    /\ IF kind = "manager" /\ timedOut
       THEN task' = [a \in Tasks |-> IF task[a] = "queued" THEN "cancelled" ELSE task[a]]
       ELSE /\ \A a \in Submitted : task[a] \in Ended
            /\ UNCHANGED task
    /\ caller' = "returned"
    /\ UNCHANGED <<kind, reported, timedOut>>

CallerStep ==
    (\E a \in Tasks : Collect(a) \/ Cancel(a)) \/ AllCollected \/ AllCancelled \/ Leave

PoolStep == \E a \in Tasks : StartTask(a)

SearchNext == Submit \/ CallerStep \/ Timeout \/ PoolStep \/ \E a \in Tasks : EndTask(a)

\* The caller runs, time passes, and the pool takes up its tasks; whether a
\* task ends is up to the network.
SearchFairness ==
    /\ WF_searchVars(CallerStep)
    /\ WF_searchVars(Timeout)
    /\ WF_searchVars(PoolStep)

SearchSpec == SearchInit /\ [][SearchNext]_searchVars /\ SearchFairness

-----------------------------------------------------------------------------
SearchTypeOK ==
    /\ kind \in Kinds
    /\ caller \in {"start", "wait", "cancel", "leave", "returned"}
    /\ task \in [Tasks -> {"none", "queued", "running"} \union Ended]
    /\ \E s \in SUBSET Tasks : reported \in [s -> {"result", "error", "timeout"}]
    /\ timedOut \in BOOLEAN
    /\ Cardinality(Running) <= PoolSize

\* Every search is answered for, once: with a result or an error if and only
\* if it ended so before its answer was taken.  None starts any more.  (One that
\* ends while the timeout is handled counts as late.)
ReportIsComplete ==
    \A a \in Submitted :
        /\ a \in DOMAIN reported /\ task[a] # "queued"
        /\ reported[a] = "result" => task[a] = "ok"
        /\ reported[a] = "error" => task[a] = "failed"
        /\ reported[a] = "timeout" => timedOut

\* Once it has submitted its searches the manager returns, though searches
\* hang, and its report is complete.  The others wait forever at most for a
\* task that runs forever.
CallerReturns ==
    /\ (kind = "manager" /\ caller # "start") ~> (caller = "returned" /\ ReportIsComplete)
    /\ caller # "start" ~> (caller = "returned" \/ Running # {})
=============================================================================
