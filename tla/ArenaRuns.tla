----------------------------- MODULE ArenaRuns -----------------------------
(***************************************************************************)
(* ArenaStore and retention (arena/store.py, arena/retention.py): one      *)
(* directory per run and one index file, worked on by several arena        *)
(* commands at a time.  write_run fills a partial directory, renames it,   *)
(* marks it complete and appends a row to the index, the last under a file *)
(* lock; rebuild_index reads the summaries and replaces the index without  *)
(* the lock; readers trust the COMPLETE marker.                            *)
(*                                                                         *)
(* The contents of a file are durable when it is written (each is synced), *)
(* its entry when the directory is synced, a rename when the parent is.    *)
(* When the power fails, what is not durable is kept or lost.  The index   *)
(* is taken to be durable at once.  purge_all, which only tests call, is   *)
(* left out.                                                               *)
(***************************************************************************)
EXTENDS Naturals, FiniteSets

CONSTANTS
    Commands,    \* arena processes
    Runs,        \* run ids, each taken once (new_run_id)
    PartOrder,   \* PartOrder[n]: the file of a run that is written as the nth
    Complete,    \* the marker
    Crashes,     \* bound on the power failures and killed commands
    NoRun

Parts == {PartOrder[i] : i \in DOMAIN PartOrder}

ASSUME ArenaAssumption ==
    /\ Parts # {} /\ IsFiniteSet(Parts) /\ PartOrder \in [1 .. Cardinality(Parts) -> Parts]
    /\ \A i, j \in DOMAIN PartOrder : PartOrder[i] = PartOrder[j] => i = j
    /\ Complete \notin Parts
    /\ NoRun \notin Runs /\ \A s \in SUBSET Runs : s # NoRun
    /\ Crashes \in Nat

VARIABLES
    fresh,      \* run ids not used yet
    dir,        \* dir[r]: the name of the directory of r
    files,      \* files[r]: the files in it
    durable,    \* durable[r]: the files whose entry is durable
    settled,    \* runs whose directory name is durable
    rows,       \* rows[r]: the rows of r in index.jsonl
    tmpIndex,   \* index.jsonl.tmp: the runs in it, or NoRun when there is no such file
    cmd,        \* cmd[c]: what command c is doing with which run
    listed,     \* listed[c]: the runs whose summaries rebuild_index has read
    crashes,
    doomed,     \* history: runs whose deletion has begun
    disturbed   \* history: runs that were being entered into the index, or
                \* deleted, while another command did so too or rebuilt the
                \* index, or when a crash came

arenaVars ==
    <<fresh, dir, files, durable, settled, rows, tmpIndex, cmd, listed, crashes, doomed, disturbed>>

Idling == [at |-> "idle", run |-> NoRun]
Steps == {"idle", "write", "sync", "rename", "syncParent", "mark", "syncMark", "append",
          "unlink", "scan", "dump", "replace"}

ArenaInit ==
    /\ fresh = Runs
    /\ dir = [r \in Runs |-> "none"]
    /\ files = [r \in Runs |-> {}]
    /\ durable = [r \in Runs |-> {}]
    /\ settled = Runs
    /\ rows = [r \in Runs |-> 0]
    /\ tmpIndex = NoRun
    /\ cmd = [c \in Commands |-> Idling]
    /\ listed = [c \in Commands |-> {}]
    /\ crashes = 0
    /\ doomed = {}
    /\ disturbed = {}

Doing(c, at) == cmd[c].at = at
Then(c, at) == cmd' = [cmd EXCEPT ![c].at = at]
Ends(c) == cmd' = [cmd EXCEPT ![c] = Idling]

\* list_runs, is_complete
Published(r) == dir[r] = "final" /\ Complete \in files[r]

-----------------------------------------------------------------------------
\* arena run: run_suite has its results; write_run makes the partial directory
StartRun(c) ==
    /\ Doing(c, "idle")
    /\ \E r \in fresh :
         /\ fresh' = fresh \ {r}
         /\ dir' = [dir EXCEPT ![r] = "partial"]
         /\ settled' = settled \ {r}
         /\ cmd' = [cmd EXCEPT ![c] = [at |-> "write", run |-> r]]
    /\ UNCHANGED <<files, durable, rows, tmpIndex, listed, crashes, doomed>>

WritePart(c) ==
    LET r == cmd[c].run
        n == Cardinality(files[r]) + 1 IN
    /\ Doing(c, "write")
    /\ files' = [files EXCEPT ![r] = @ \union {PartOrder[n]}]
    /\ Then(c, IF n = Cardinality(Parts) THEN "sync" ELSE "write")
    /\ UNCHANGED <<fresh, dir, durable, settled, rows, tmpIndex, listed, crashes, doomed>>

\* Faulty variant: the directory of the run is not synced.
SyncNothing(c) ==
    /\ cmd[c].at \in {"sync", "syncMark"}
    /\ Then(c, IF Doing(c, "sync") THEN "rename" ELSE "append")
    /\ UNCHANGED <<fresh, dir, files, durable, settled, rows, tmpIndex, listed, crashes,
                   doomed>>

\* _fsync_dir(partial_dir), _fsync_dir(final_dir)
SyncDirectory(c) ==
    /\ cmd[c].at \in {"sync", "syncMark"}
    /\ durable' = [durable EXCEPT ![cmd[c].run] = files[cmd[c].run]]
    /\ Then(c, IF Doing(c, "sync") THEN "rename" ELSE "append")
    /\ UNCHANGED <<fresh, dir, files, settled, rows, tmpIndex, listed, crashes, doomed>>

RenameRun(c) ==
    /\ Doing(c, "rename")
    /\ dir' = [dir EXCEPT ![cmd[c].run] = "final"]
    /\ settled' = settled \ {cmd[c].run}
    /\ Then(c, "syncParent")
    /\ UNCHANGED <<fresh, files, durable, rows, tmpIndex, listed, crashes, doomed>>

\* _fsync_dir(self.runs_dir): every run's name is durable
SyncParent(c) ==
    /\ Doing(c, "syncParent")
    /\ settled' = Runs
    /\ Then(c, "mark")
    /\ UNCHANGED <<fresh, dir, files, durable, rows, tmpIndex, listed, crashes, doomed>>

\* the marker: its open raises when the directory has been deleted
MarkComplete(c) ==
    /\ Doing(c, "mark")
    /\ IF dir[cmd[c].run] = "none" THEN Ends(c) /\ UNCHANGED files
       ELSE /\ files' = [files EXCEPT ![cmd[c].run] = @ \union {Complete}]
            /\ Then(c, "syncMark")
    /\ UNCHANGED <<fresh, dir, durable, settled, rows, tmpIndex, listed, crashes, doomed>>

\* _append_index, under the lock
AppendIndex(c) ==
    /\ Doing(c, "append")
    /\ rows' = [rows EXCEPT ![cmd[c].run] = @ + 1]
    /\ Ends(c)
    /\ UNCHANGED <<fresh, dir, files, durable, settled, tmpIndex, listed, crashes, doomed>>

-----------------------------------------------------------------------------
\* arena retention --delete: delete_run of a directory that exists
StartDelete(c) ==
    /\ Doing(c, "idle")
    /\ \E r \in Runs :
         /\ dir[r] = "final"
         /\ cmd' = [cmd EXCEPT ![c] = [at |-> "unlink", run |-> r]]
         /\ doomed' = doomed \union {r}
    /\ UNCHANGED <<fresh, dir, files, durable, settled, rows, tmpIndex, listed, crashes>>

\* _rmtree: the files in any order, then the directory.  A file that another
\* deletion of the run has taken ends the command.
Unlink(c) ==
    LET r == cmd[c].run IN
    /\ Doing(c, "unlink")
    /\ \/ /\ files[r] # {}
          /\ \E f \in files[r] : files' = [files EXCEPT ![r] = @ \ {f}]
          /\ UNCHANGED <<dir, settled, cmd>>
       \/ /\ files[r] = {} /\ dir[r] # "none"
          /\ dir' = [dir EXCEPT ![r] = "none"]
          /\ settled' = settled \ {r}
          /\ Then(c, "scan")
          /\ UNCHANGED files
       \/ /\ dir[r] = "none" \/ \E d \in Commands \ {c} : cmd[d].run = r
          /\ Ends(c)
          /\ UNCHANGED <<dir, files, settled>>
    /\ UNCHANGED <<fresh, durable, rows, tmpIndex, listed, crashes, doomed>>

\* arena retention --rebuild-index
StartRebuild(c) ==
    /\ Doing(c, "idle")
    /\ Then(c, "scan")
    /\ UNCHANGED <<fresh, dir, files, durable, settled, rows, tmpIndex, listed, crashes,
                   doomed>>

\* Faulty variant: the marker is not asked for.
ScanAll(c) ==
    /\ Doing(c, "scan")
    /\ listed' = [listed EXCEPT ![c] = {r \in Runs : dir[r] = "final" /\ Parts \subseteq files[r]}]
    /\ Then(c, "dump")
    /\ UNCHANGED <<fresh, dir, files, durable, settled, rows, tmpIndex, crashes, doomed>>

\* rebuild_index: the published runs whose summary can be read
Scan(c) ==
    /\ Doing(c, "scan")
    /\ listed' = [listed EXCEPT ![c] = {r \in Runs : Published(r) /\ Parts \subseteq files[r]}]
    /\ Then(c, "dump")
    /\ UNCHANGED <<fresh, dir, files, durable, settled, rows, tmpIndex, crashes, doomed>>

DumpIndex(c) ==
    /\ Doing(c, "dump")
    /\ tmpIndex' = listed[c]
    /\ Then(c, "replace")
    /\ UNCHANGED <<fresh, dir, files, durable, settled, rows, listed, crashes, doomed>>

\* os.replace; it raises when another rebuild has renamed the file
ReplaceIndex(c) ==
    /\ Doing(c, "replace")
    /\ IF tmpIndex = NoRun THEN UNCHANGED rows
       ELSE rows' = [r \in Runs |-> IF r \in tmpIndex THEN 1 ELSE 0]
    /\ tmpIndex' = NoRun
    /\ listed' = [listed EXCEPT ![c] = {}]
    /\ Ends(c)
    /\ UNCHANGED <<fresh, dir, files, durable, settled, crashes, doomed>>

-----------------------------------------------------------------------------
\* The run that command c is entering into the index, or taking out of it.
Settling(c) ==
    IF cmd[c].at \in {"syncMark", "append", "unlink", "scan", "dump", "replace"}
    THEN {cmd[c].run} \ {NoRun} ELSE {}

Rebuilding(c) == cmd[c].at \in {"dump", "replace"}

\* The command is killed.
Killed(c) ==
    /\ crashes < Crashes /\ ~Doing(c, "idle")
    /\ crashes' = crashes + 1
    /\ Ends(c)
    /\ listed' = [listed EXCEPT ![c] = {}]
    /\ disturbed' = disturbed \union Settling(c)
    /\ UNCHANGED <<fresh, dir, files, durable, settled, rows, tmpIndex, doomed>>

NamesAfter(r) ==
    IF r \in settled THEN {dir[r]} ELSE
    CASE dir[r] = "final" -> {"none", "partial", "final"}
      [] dir[r] = "partial" -> {"none", "partial"}
      [] OTHER -> {"none", "final"}

FilesAfter(r) == {s \in SUBSET (files[r] \union durable[r]) : files[r] \cap durable[r] \subseteq s}

PowerFails ==
    /\ crashes < Crashes
    /\ crashes' = crashes + 1
    /\ \E d \in [Runs -> {"none", "partial", "final"}], f \in [Runs -> SUBSET (Parts \union {Complete})] :
         /\ \A r \in Runs : d[r] \in NamesAfter(r)
         /\ \A r \in Runs : IF d[r] = "none" THEN f[r] = {} ELSE f[r] \in FilesAfter(r)
         /\ dir' = d
         /\ files' = f
         /\ durable' = f
    /\ settled' = Runs
    /\ cmd' = [c \in Commands |-> Idling]
    /\ listed' = [c \in Commands |-> {}]
    /\ disturbed' = disturbed \union (UNION {Settling(c) : c \in Commands})
                              \union {r \in Runs : r \notin settled \/ files[r] # durable[r]}
    /\ UNCHANGED <<fresh, rows, tmpIndex, doomed>>

ArenaStep(c) ==
    \/ StartRun(c) \/ WritePart(c) \/ SyncDirectory(c) \/ RenameRun(c) \/ SyncParent(c)
    \/ MarkComplete(c) \/ AppendIndex(c)
    \/ StartDelete(c) \/ Unlink(c) \/ StartRebuild(c) \/ Scan(c) \/ DumpIndex(c) \/ ReplaceIndex(c)

\* The runs that two commands work on, or that one command settles while
\* another rebuilds the index.
Overlapping ==
    {r \in Runs : \E c, d \in Commands :
        c # d /\ cmd[c].run = r /\ (cmd[d].run = r \/ (r \in Settling(c) /\ Rebuilding(d)))}

ArenaNext ==
    \/ \E c \in Commands : ArenaStep(c) /\ disturbed' = disturbed \union Overlapping'
    \/ \E c \in Commands : Killed(c)
    \/ PowerFails

ArenaSpec == ArenaInit /\ [][ArenaNext]_arenaVars

-----------------------------------------------------------------------------
ArenaTypeOK ==
    /\ fresh \subseteq Runs
    /\ dir \in [Runs -> {"none", "partial", "final"}]
    /\ files \in [Runs -> SUBSET (Parts \union {Complete})]
    /\ durable \in [Runs -> SUBSET (Parts \union {Complete})]
    /\ settled \subseteq Runs
    /\ rows \in [Runs -> Nat]
    /\ tmpIndex = NoRun \/ tmpIndex \subseteq Runs
    /\ cmd \in [Commands -> [at : Steps, run : Runs \union {NoRun}]]
    /\ listed \in [Commands -> SUBSET Runs]
    /\ crashes \in 0 .. Crashes
    /\ doomed \subseteq Runs
    /\ disturbed \subseteq Runs

\* A run that readers take for complete has all its files, wherever the power
\* failed or the command was killed, as long as nobody began to delete it.
CompleteIsWhole ==
    \A r \in Runs \ doomed : Published(r) => Parts \subseteq files[r]

\* The index has exactly one row for a complete run and none for another,
\* once the commands that work on the run are done, unless a crash or a
\* rebuild by another command fell into their work.
IndexMatches ==
    \A r \in Runs \ disturbed :
        (\A c \in Commands : r \notin Settling(c)) => rows[r] = (IF Published(r) THEN 1 ELSE 0)
=============================================================================
