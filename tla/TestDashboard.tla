--------------------------- MODULE TestDashboard ---------------------------
(***************************************************************************)
(* The test dashboard (core/health/dashboard.py): the window's event loop, *)
(* the thread of a run, and the pool of the runner that starts a pytest    *)
(* process per file, one after the other or several at once                *)
(* (test_runner.py).  The thread of the run does not touch the results: it *)
(* posts an update per file, and at the end the completion, to the event   *)
(* loop, which adds them up (result_parser.py).                            *)
(*                                                                         *)
(* Of what pytest prints only the outcome of the file is kept.  "empty" is *)
(* an error with no test counted: a file that cannot be imported, or one   *)
(* without tests that runs into the timeout.  "partly" is a file that the  *)
(* report's counts call passed: of its tests some could not be set up.     *)
(***************************************************************************)
EXTENDS Naturals, FiniteSets, Sequences, SequencesExt, Lists

CONSTANTS
    TestFiles,        \* a sequence: what discover_tests finds
    PoolWorkers,      \* max_workers
    RunsMax           \* bound on the runs

ASSUME DashboardAssumption ==
    /\ TestFiles \in Seq(ToSet(TestFiles)) /\ IsInjective(TestFiles)
    /\ PoolWorkers \in Nat \ {0} /\ RunsMax \in Nat

Outcomes == {"passed", "failed", "skipped", "error", "timeout", "empty", "partly"}
NoRunner == [at |-> "idle", mode |-> "none", todo |-> <<>>, busy |-> {}, done |-> <<>>]

VARIABLES
    isRunning,        \* is_running: what the buttons follow
    stopRequested,    \* stop_requested of the runner
    runner,           \* the thread of the run: files to start, running, and finished futures
    updates,          \* root.after(0, ...): what the event loop has still to do
    results,          \* results of the parser
    status,           \* status_label
    dialog,           \* the question before a stop is open: nothing else can be pressed
    reported,         \* history: the results of this run, in order
    runs

dashboardVars == <<isRunning, stopRequested, runner, updates, results, status, dialog, reported, runs>>

DashboardInit ==
    /\ isRunning = FALSE /\ stopRequested = FALSE
    /\ runner = NoRunner
    /\ updates = <<>> /\ results = <<>> /\ reported = <<>>
    /\ status = "loaded" /\ dialog = FALSE /\ runs = 0

-----------------------------------------------------------------------------
\* get_summary counts the failed tests, and for a file with an error or a
\* timeout and none of them failed, all that it counted.
Failures(outcome) == IF outcome \in {"failed", "error", "timeout"} THEN 1 ELSE 0
AnyFailed == \E i \in DOMAIN results : Failures(results[i].outcome) > 0

\* _run_all_tests, which forgets the results there are, or _run_selected_test,
\* which does not; refused while tests run
Starts(mode, files, kept) ==
    /\ ~isRunning /\ ~dialog /\ runs < RunsMax
    /\ isRunning' = TRUE /\ runs' = runs + 1
    /\ results' = kept /\ reported' = <<>>
    /\ status' = "running"
    /\ runner' = [NoRunner EXCEPT !.at = "start", !.mode = mode, !.todo = files]
    /\ UNCHANGED <<stopRequested, updates, dialog>>

RunAllTests == Starts("all", TestFiles, <<>>)
RunSelectedTest == \E i \in DOMAIN TestFiles : Starts("one", <<TestFiles[i]>>, results)

\* The thread begins: run_all_tests, one file after the other or in the pool,
\* forgets a stop that came before; run_single_test neither forgets nor asks.
RunnerBegins ==
    /\ runner.at = "start"
    /\ \E mode \in IF runner.mode = "all" THEN {"loop", "pool"} ELSE {"one"} :
         runner' = [runner EXCEPT !.at = "loop", !.mode = mode]
    /\ stopRequested' = (stopRequested /\ runner.mode = "one")
    /\ UNCHANGED <<isRunning, updates, results, status, dialog, reported, runs>>

\* A file is started: the next one by the loop, unless a stop is asked for, or
\* by the pool, which has all of them and asks nobody.
StartsPytest ==
    /\ runner.at \in {"loop", "leaving"} /\ runner.todo # <<>>
    /\ IF runner.mode = "pool" THEN Cardinality(runner.busy) < PoolWorkers ELSE runner.busy = {}
    /\ runner.mode = "loop" => ~stopRequested
    /\ runner' = [runner EXCEPT !.busy = @ \union {Head(runner.todo)}, !.todo = Tail(@)]
    /\ UNCHANGED <<isRunning, stopRequested, updates, results, status, dialog, reported, runs>>

Reports(result) ==
    /\ updates' = Append(updates, result)
    /\ reported' = Append(reported, result)

\* pytest ends or is killed at the timeout: its output has an outcome.  The
\* loop reports it; of the pool, a future is finished.
PytestEnds ==
    /\ \E f \in runner.busy, outcome \in Outcomes :
         LET result == [file |-> f, outcome |-> outcome] IN
         IF runner.mode = "pool"
         THEN /\ runner' = [runner EXCEPT !.busy = @ \ {f}, !.done = Append(@, result)]
              /\ UNCHANGED <<updates, reported>>
         ELSE runner' = [runner EXCEPT !.busy = @ \ {f}] /\ Reports(result)
    /\ UNCHANGED <<isRunning, stopRequested, results, status, dialog, runs>>

\* as_completed: the next finished future is reported, or a stop ends the loop;
\* the pool is left only when it has run every file.
Collects ==
    /\ runner.mode = "pool" /\ runner.at = "loop" /\ runner.done # <<>>
    /\ IF stopRequested
       THEN runner' = [runner EXCEPT !.at = "leaving", !.done = <<>>] /\ UNCHANGED <<updates,
                                                                                     reported>>
       ELSE runner' = [runner EXCEPT !.done = Tail(@)] /\ Reports(Head(runner.done))
    /\ UNCHANGED <<isRunning, stopRequested, results, status, dialog, runs>>

\* Faulty variant: the pool is left while it runs files.
RunnerEndsAtOnce ==
    /\ \/ runner.at = "loop" /\ runner.todo = <<>> /\ runner.busy = {} /\ runner.done = <<>>
       \/ runner.at = "loop" /\ runner.mode = "loop" /\ stopRequested /\ runner.busy = {}
       \/ runner.at = "leaving"
    /\ runner' = [runner EXCEPT !.at = "idle"]
    /\ updates' = Append(updates, [file |-> "none", outcome |-> "complete"])
    /\ UNCHANGED <<isRunning, stopRequested, results, status, dialog, reported, runs>>

\* The run is over: the completion is posted.
RunnerEnds ==
    /\ \/ runner.at = "loop" /\ runner.todo = <<>> /\ runner.busy = {} /\ runner.done = <<>>
       \/ runner.at = "loop" /\ runner.mode = "loop" /\ stopRequested /\ runner.busy = {}
       \/ runner.at = "leaving" /\ runner.todo = <<>> /\ runner.busy = {}
    /\ runner' = NoRunner
    /\ updates' = Append(updates, [file |-> "none", outcome |-> "complete"])
    /\ UNCHANGED <<isRunning, stopRequested, results, status, dialog, reported, runs>>

\* A file cannot be run at all (no room for its report): the thread gives up.
RunnerFails ==
    /\ runner.at = "loop" /\ runner.mode # "pool" /\ runner.todo # <<>> /\ runner.busy = {}
    /\ runner.mode = "loop" => ~stopRequested
    /\ runner' = NoRunner
    /\ updates' = Append(updates, [file |-> "none", outcome |-> "crashed"])
    /\ UNCHANGED <<isRunning, stopRequested, results, status, dialog, reported, runs>>

\* The event loop takes what was posted first: _on_test_complete,
\* _on_all_tests_complete or _on_test_error.
UpdatesWindow ==
    /\ updates # <<>> /\ updates' = Tail(updates)
    /\ IF Head(updates).outcome \in {"complete", "crashed"}
       THEN /\ isRunning' = FALSE
            /\ status' = IF Head(updates).outcome = "crashed" THEN "error"
                         ELSE IF AnyFailed THEN "failures" ELSE "all passed"
            /\ UNCHANGED results
       ELSE results' = Append(results, Head(updates)) /\ UNCHANGED <<isRunning, status>>
    /\ UNCHANGED <<stopRequested, runner, dialog, reported, runs>>

\* _stop_tests: whether tests run is asked before the question, while which the
\* event loop goes on; the answer may come when they have ended.
AsksToStop ==
    /\ isRunning /\ ~dialog /\ dialog' = TRUE
    /\ UNCHANGED <<isRunning, stopRequested, runner, updates, results, status, reported, runs>>
StopTests ==
    /\ dialog /\ dialog' = FALSE
    /\ \/ stopRequested' = TRUE /\ status' = "stopping"
       \/ UNCHANGED <<stopRequested, status>>
    /\ UNCHANGED <<isRunning, runner, updates, results, reported, runs>>

\* _clear_results: its button works while tests run, too.
ClearResults ==
    /\ ~dialog /\ results # <<>> /\ results' = <<>>
    /\ reported' = Filtered(updates, [file : ToSet(TestFiles), outcome : Outcomes])
    /\ status' = "cleared"
    /\ UNCHANGED <<isRunning, stopRequested, runner, updates, dialog, runs>>

DashboardNext ==
    \/ RunAllTests \/ RunSelectedTest \/ AsksToStop \/ StopTests \/ ClearResults \/ UpdatesWindow
    \/ RunnerBegins \/ StartsPytest \/ PytestEnds \/ Collects \/ RunnerEnds \/ RunnerFails

DashboardSpec == DashboardInit /\ [][DashboardNext]_dashboardVars

-----------------------------------------------------------------------------
DashboardTypeOK ==
    /\ {isRunning, stopRequested, dialog} \subseteq BOOLEAN
    /\ runner.at \in {"idle", "start", "loop", "leaving"}
    /\ runner.mode \in {"none", "all", "one", "loop", "pool"}
    /\ runner.busy \subseteq ToSet(TestFiles) /\ ToSet(runner.todo) \subseteq ToSet(TestFiles)
    /\ status \in {"loaded", "running", "stopping", "cleared", "failures", "error", "all passed"}
    /\ runs \in 0 .. RunsMax

\* When the window says that no tests run, none do, and the results of the run
\* that ended are the last ones there: each once, none left in the queue.
RunIsOver ==
    ~isRunning =>
        /\ runner.busy = {} /\ runner.at = "idle" /\ updates = <<>>
        /\ IsSuffix(reported, results)
        /\ \A i, j \in DOMAIN reported : reported[i].file = reported[j].file => i = j
=============================================================================
