--------------------------- MODULE HealthMonitor ---------------------------
(***************************************************************************)
(* The live monitor: the sampler of SystemMonitor, the timings that        *)
(* monitored functions leave in a PerformanceTracker, and the threads that *)
(* check the alert rules over both in a HealthMonitoringContext            *)
(* (core/health).  Other threads read the statistics of the timings, too:  *)
(* they are kept for StatsTtl, deleted under the tracker's lock and read   *)
(* without it.  The terminal dashboard is a checking thread with a tracker *)
(* of its own, that nobody records in, and with the component checks.      *)
(*                                                                         *)
(* One operation is timed, of its durations only whether they reach the    *)
(* threshold.  The eight rules are of three kinds.  The calls that         *)
(* acknowledge, resolve and clear alerts have no callers and are left out. *)
(***************************************************************************)
EXTENDS Integers, FiniteSets, Sequences, SequencesExt

CONSTANTS
    Rules,            \* a sequence: the kinds of rules, in the order they are checked
    Contexts,         \* threads that check alerts
    Readers,          \* threads that ask for statistics only
    Cooldown,         \* of a rule
    StatsTtl,         \* _cache_ttl
    HistoryMax,       \* max_history
    AlertsMax,        \* alerts that are kept
    HealthEnd,        \* bound on the clock
    RecordsMax,       \* bound on the timings
    NoTime

Watchers == Contexts \union Readers

ASSUME HealthAssumption ==
    /\ Rules \in Seq({"system", "component", "slow"}) \ {<<>>} /\ IsInjective(Rules)
    /\ Contexts \intersect Readers = {}
    /\ {HealthEnd, RecordsMax} \subseteq Nat
    /\ {Cooldown, StatsTtl, HistoryMax, AlertsMax} \subseteq Nat \ {0}
    /\ NoTime \notin Int

VARIABLES
    snapshot,         \* latest_metrics of the sampler: "bad" past a threshold; "none" before the first
    timings,          \* _metrics of the operation: was it slow?
    cached, cachedAt, \* _cached_stats and _cache_time of the operation
    lastAlert,        \* last_alert_time of each rule
    alerts,           \* the list: rule and timestamp
    watch,            \* watch[w]: the check of a thread and where it is
    healthClock,
    records,
    slowSince,        \* history: since when the timings kept are slow
    seen              \* history: what the check that ended last had to see, and when it began

healthVars == <<snapshot, timings, cached, cachedAt, lastAlert, alerts, watch,
                healthClock, records, slowSince, seen>>

NoWatch == [at |-> "idle", data |-> {}, due |-> {}, begun |-> 0, stats |-> "none", rule |-> 0]
RuleNames == ToSet(Rules)

HealthInit ==
    /\ snapshot = "none"
    /\ timings = <<>> /\ cached = "none" /\ cachedAt = NoTime
    /\ lastAlert = [r \in RuleNames |-> NoTime] /\ alerts = <<>>
    /\ watch = [w \in Watchers |-> NoWatch]
    /\ healthClock = 0 /\ records = 0
    /\ slowSince = NoTime /\ seen = [r \in RuleNames |-> NoTime]

-----------------------------------------------------------------------------
\* _calculate_stats: the operation is slow when the 95th percentile is.
P95Slow(durations) ==
    LET fast == Cardinality({i \in DOMAIN durations : ~durations[i]}) IN
    durations # <<>> /\ fast <= (Len(durations) * 95) \div 100

Stats(durations) == IF P95Slow(durations) THEN "slow" ELSE "fast"

\* _monitor_loop: an error leaves the snapshot as it is, and so does the end of
\* the sampler.
Sample ==
    /\ snapshot' \in {"good", "bad"} \ {snapshot}
    /\ UNCHANGED <<timings, cached, cachedAt, lastAlert, alerts, watch, healthClock, records,
                   slowSince, seen>>

\* What is kept of the timings is slow from now on, or as long as before.
KeepsTimings(durations) ==
    /\ timings' = durations
    /\ slowSince' = IF ~P95Slow(durations) THEN NoTime
                    ELSE IF slowSince = NoTime THEN healthClock ELSE slowSince
    /\ cached' = "none"
    /\ UNCHANGED <<snapshot, cachedAt, lastAlert, alerts, watch, healthClock, seen>>

\* record, at the end of a monitored function; clear
Record ==
    /\ records < RecordsMax /\ records' = records + 1
    /\ \E slow \in BOOLEAN :
         LET all == Append(timings, slow) IN
         KeepsTimings(SubSeq(all, Len(all) - (IF Len(all) > HistoryMax THEN HistoryMax ELSE Len(all)) + 1,
                             Len(all)))
ClearTimings == timings # <<>> /\ KeepsTimings(<<>>) /\ UNCHANGED records

-----------------------------------------------------------------------------
\* check_all of the components: each is healthy, degraded or unhealthy, and a
\* check that raises is unhealthy.
ComponentsFound(w) == IF w \in Contexts THEN SUBSET {"component"} ELSE {{}}

\* check_alerts: the snapshot is read, and by the dashboard the components are
\* asked; then get_stats begins and tests the cache.
BeginsCheck(w) ==
    /\ watch[w].at = "idle"
    /\ \E unhealthy \in ComponentsFound(w) :
       LET found == (unhealthy \union IF w \in Contexts /\ snapshot = "bad" THEN {"system"} ELSE {})
                      \intersect RuleNames IN
       watch' = [watch EXCEPT ![w].at = IF cached = "none" THEN "copy" ELSE "age",
                              ![w].data = found, ![w].due = found, ![w].begun = healthClock]
    /\ UNCHANGED <<lastAlert, alerts, cached, cachedAt, seen>>

\* The statistics are there: a reader has what it asked for, for a check the
\* rules are next.  An operation that had been slow for StatsTtl when the check
\* began has to be seen.
GotStats(w, stats) ==
    LET isDue == slowSince # NoTime /\ slowSince + StatsTtl <= watch[w].begun
        With(rules, now) == IF now /\ "slow" \in RuleNames THEN rules \union {"slow"} ELSE rules IN
    watch' = [watch EXCEPT
        ![w] = IF w \in Readers THEN NoWatch
               ELSE [watch[w] EXCEPT !.at = "rule", !.rule = 1, !.stats = "none",
                                     !.data = With(watch[w].data, stats = "slow"),
                                     !.due = With(watch[w].due, isDue)]]

\* The age of the entry is read, and its value: what record deletes in between
\* raises KeyError, and so does an entry that is not yet dated.
WatchFails(w) == watch' = [watch EXCEPT ![w] = NoWatch]

\* Faulty variant: the age is not looked at.
ReadsAnyAge(w) ==
    /\ watch[w].at = "age"
    /\ IF cachedAt = NoTime THEN WatchFails(w) ELSE watch' = [watch EXCEPT ![w].at = "hit"]
    /\ UNCHANGED <<lastAlert, alerts, cached, cachedAt, seen>>

ReadsAge(w) ==
    /\ watch[w].at = "age"
    /\ IF cachedAt = NoTime THEN WatchFails(w)
       ELSE watch' = [watch EXCEPT ![w].at = IF healthClock - cachedAt < StatsTtl THEN "hit" ELSE "copy"]
    /\ UNCHANGED <<lastAlert, alerts, cached, cachedAt, seen>>

ReadsEntry(w) ==
    /\ watch[w].at = "hit"
    /\ IF cached = "none" THEN WatchFails(w) ELSE GotStats(w, cached)
    /\ UNCHANGED <<lastAlert, alerts, cached, cachedAt, seen>>

\* The timings are copied under the lock, and the result stored without it:
\* what was recorded in between is missing, for as long as it is kept.
Computes(w) ==
    /\ watch[w].at = "copy"
    /\ IF timings = <<>> THEN GotStats(w, "none")
       ELSE watch' = [watch EXCEPT ![w].at = "store", ![w].stats = Stats(timings)]
    /\ UNCHANGED <<lastAlert, alerts, cached, cachedAt, seen>>

StoresStats(w) ==
    /\ watch[w].at = "store" /\ cached' = watch[w].stats
    /\ watch' = [watch EXCEPT ![w].at = "date"]
    /\ UNCHANGED <<lastAlert, alerts, cachedAt, seen>>

DatesStats(w) ==
    /\ watch[w].at = "date" /\ cachedAt' = healthClock
    /\ GotStats(w, watch[w].stats)
    /\ UNCHANGED <<lastAlert, alerts, cached, seen>>

-----------------------------------------------------------------------------
Rule(w) == Rules[watch[w].rule]
CanAlert(r) == lastAlert[r] = NoTime \/ healthClock - lastAlert[r] >= Cooldown

\* The next rule, or the end of the check.
RuleDone(w) ==
    IF watch[w].rule < Len(Rules)
    THEN watch' = [watch EXCEPT ![w].at = "rule", ![w].rule = @ + 1] /\ UNCHANGED seen
    ELSE /\ watch' = [watch EXCEPT ![w] = NoWatch]
         /\ seen' = [r \in RuleNames |-> IF r \in watch[w].due THEN watch[w].begun ELSE NoTime]

\* check: the condition first, then the cooldown.
LooksAtRule(w) ==
    /\ watch[w].at = "rule"
    /\ IF Rule(w) \in watch[w].data /\ CanAlert(Rule(w))
       THEN watch' = [watch EXCEPT ![w].at = "stamp"] /\ UNCHANGED seen
       ELSE RuleDone(w)
    /\ UNCHANGED <<lastAlert, alerts, cached, cachedAt>>

StampsRule(w) ==
    /\ watch[w].at = "stamp"
    /\ lastAlert' = [lastAlert EXCEPT ![Rule(w)] = healthClock]
    /\ watch' = [watch EXCEPT ![w].at = "create"]
    /\ UNCHANGED <<alerts, cached, cachedAt, seen>>

\* _create_alert, under the lock: when there are too many, the oldest go.
KeepsLatest(list) == IF Len(list) > AlertsMax THEN Tail(list) ELSE list

CreatesAlert(w) ==
    /\ watch[w].at = "create"
    /\ alerts' = KeepsLatest(Append(alerts, [rule |-> Rule(w), time |-> healthClock]))
    /\ RuleDone(w)
    /\ UNCHANGED <<lastAlert, cached, cachedAt>>

\* Time passes while no thread is on its way from the timings it copied to the
\* date of their statistics.
HealthTick ==
    /\ healthClock < HealthEnd /\ healthClock' = healthClock + 1
    /\ \A w \in Watchers : watch[w].at \notin {"store", "date"}
    /\ UNCHANGED <<snapshot, timings, cached, cachedAt, lastAlert, alerts, watch,
                   records, slowSince, seen>>

HealthNext ==
    \/ Sample \/ Record \/ ClearTimings
    \/ /\ \E w \in Watchers :
            \/ BeginsCheck(w) \/ ReadsAge(w) \/ ReadsEntry(w)
            \/ Computes(w) \/ StoresStats(w) \/ DatesStats(w)
            \/ LooksAtRule(w) \/ StampsRule(w) \/ CreatesAlert(w)
       /\ UNCHANGED <<snapshot, timings, healthClock, records, slowSince>>
    \/ HealthTick

HealthSpec == HealthInit /\ [][HealthNext]_healthVars

-----------------------------------------------------------------------------
HealthTypeOK ==
    /\ snapshot \in {"none", "good", "bad"} /\ cached \in {"none", "fast", "slow"}
    /\ Len(timings) <= HistoryMax /\ Len(alerts) <= AlertsMax
    /\ \A w \in Watchers : watch[w].rule \in 0 .. Len(Rules)

\* There is an alert of a rule that is not older than that, or another thread
\* is about to add one, or it fell out of a list that has only newer ones.
Reported(r, since) ==
    \/ \E i \in DOMAIN alerts : alerts[i].rule = r /\ alerts[i].time >= since
    \/ \E w \in Watchers : watch[w].at = "create" /\ Rule(w) = r
    \/ Len(alerts) = AlertsMax /\ \A i \in DOMAIN alerts : alerts[i].time >= since

\* Trouble that a check had to see is alerted: when the check is over, the rule
\* was reported within its cooldown before the check began, or since.
SeenIsAlerted ==
    \A r \in RuleNames : seen[r] # NoTime => Reported(r, seen[r] - Cooldown + 1)
=============================================================================
