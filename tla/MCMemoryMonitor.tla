-------------------------- MODULE MCMemoryMonitor --------------------------
(***************************************************************************)
(* The event loop calls runtime.memory_store; a worker thread of the agent *)
(* and the monitor call the singleton.                                     *)
(***************************************************************************)
EXTENDS MemoryMonitor, TLC

MCHome == "loop" :> "runtime" @@ "worker" :> "singleton" @@ "monitor" :> "singleton"
=============================================================================
