--------------------------- MODULE MemoryMonitor ---------------------------
(***************************************************************************)
(* The API server's memory as deployed: MemoryStore, and SystemMonitor,    *)
(* whose thread calls _load on the singleton whenever memory.json has      *)
(* another modification time than at the last reload                       *)
(* (core/health/system_monitor.py, _get_memory_store_metrics).             *)
(***************************************************************************)
EXTENDS MemoryStore

CONSTANT Monitor    \* the thread of SystemMonitor, one of Threads

VARIABLES
    seen,       \* _memory_store_mtime is the modification time of the file
    loaded      \* what json.load returned to the monitor, not yet in data

monitorVars == <<seen, loaded>>

MonitorInit ==
    /\ Init
    /\ seen = FALSE
    /\ loaded = Nothing

\* mtime differs: _load reads the file, or finds nothing readable and saves.
\* The time kept is the one read before, so later writes are seen again.
ReadFile ==
    /\ pc[Monitor] = "idle"
    /\ ~seen
    /\ loaded = Nothing
    /\ seen' = TRUE
    /\ IF IsContents(disk)
       THEN loaded' = disk /\ pc' = pc
       ELSE loaded' = Nothing /\ pc' = [pc EXCEPT ![Monitor] = "open"]
    /\ UNCHANGED <<data, disk, tmp, pending, handle, clash>>

\* self.data.update(loaded_data)
Update ==
    /\ loaded # Nothing
    /\ data' = [data EXCEPT ![Home[Monitor]] = loaded]
    /\ loaded' = Nothing
    /\ UNCHANGED <<disk, tmp, pc, pending, handle, clash, seen>>

\* A step of a store; a file that was put in place or written to has a new
\* modification time.
StoreStep ==
    /\ \/ \E t \in Threads \ {Monitor} : Operation(t)
       \/ \E t \in Threads : Progress(t)
    /\ seen' = (seen /\ disk' = disk /\ ~\E t \in Threads : pc[t] = "replace" /\ pc'[t] = "idle")
    /\ UNCHANGED loaded

StopOrStart ==
    /\ Crash \/ Restart
    /\ seen' = FALSE
    /\ loaded' = Nothing

MonitorNext == ReadFile \/ Update \/ StoreStep \/ StopOrStart

MonitorSpec == MonitorInit /\ [][MonitorNext]_<<vars, monitorVars>>

-----------------------------------------------------------------------------
\* Storing an entry takes none away from the file: what was reported as
\* stored is there until it is forgotten (store.py, "Persistent storage").
RememberKeepsOthers ==
    [][\A t \in Threads :
          Replace(t) /\ pending[t] # Nothing /\ ~clash /\ disk \in Contents =>
              \A c \in Categories : disk[c] \subseteq disk'[c]]_<<vars, monitorVars>>
=============================================================================
