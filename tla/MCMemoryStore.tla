--------------------------- MODULE MCMemoryStore ---------------------------
(***************************************************************************)
(* Two stores over one file, as in the API server: the event loop calls    *)
(* one, a worker thread of the agent the other.  Users may be renamed, and *)
(* the two threads swapped together with their stores.                     *)
(***************************************************************************)
EXTENDS MemoryStore, TLC

CONSTANTS loop, worker, runtime, singleton, u1, u2

MCHome == loop :> runtime @@ worker :> singleton

MCSwap == loop :> worker @@ worker :> loop @@ runtime :> singleton @@ singleton :> runtime
MCKeep == [x \in DOMAIN MCSwap |-> x]
MCSymmetry == {p @@ q : p \in Permutations({u1, u2}), q \in {MCSwap, MCKeep}}
=============================================================================
