------------------------------ MODULE RagStore ------------------------------
(***************************************************************************)
(* The document store of the RAG tool (tools/rag.py): one RAGManager per   *)
(* agent over one ChromaDB collection, used by worker threads.  The first  *)
(* operation that fails switches the manager to its fallback mode, in      *)
(* which it does nothing until the process is started again; its callers   *)
(* are told that all went well.                                            *)
(***************************************************************************)
EXTENDS Naturals, FiniteSets, Sequences, SequencesExt

CONSTANTS
    RagUsers,         \* threads
    Documents,        \* texts; the id of a document is the hash of its text
    BatchSize,        \* batch_size
    DocsMax,          \* bound on the texts of a call
    CallsMax,         \* bound on the calls
    RagStarts         \* bound on the restarts

ASSUME RagAssumption ==
    /\ BatchSize \in Nat \ {0} /\ {DocsMax, CallsMax, RagStarts} \subseteq Nat

NoRagCall == [at |-> "idle", left |-> <<>>, all |-> {}, cut |-> FALSE]

VARIABLES
    stored,        \* the documents in the collection
    collection,    \* it is "there", or "gone" between its deletion and creation
    fallback,      \* fallback_mode
    ragCall,       \* ragCall[t]: the call of a thread; cut: something was removed meanwhile
    kept,          \* history: documents whose addition was reported, and not removed since
    ragCalls, ragStartsLeft

ragCounts == <<ragCalls, ragStartsLeft>>
ragVars == <<stored, collection, fallback, ragCall, kept, ragCounts>>

RagInit ==
    /\ stored = {} /\ collection = "there"
    /\ fallback \in BOOLEAN
    /\ ragCall = [t \in RagUsers |-> NoRagCall]
    /\ kept = {} /\ ragCalls = 0 /\ ragStartsLeft = RagStarts

Firsts(s) == SubSeq(s, 1, IF Len(s) < BatchSize THEN Len(s) ELSE BatchSize)
Others(s) == SubSeq(s, Len(Firsts(s)) + 1, Len(s))

-----------------------------------------------------------------------------
\* A call begins; in the fallback mode it returns at once.
Begins(t, call) ==
    /\ ragCall[t].at = "idle" /\ ragCalls < CallsMax
    /\ ragCalls' = ragCalls + 1
    /\ ragCall' = IF fallback THEN ragCall ELSE [ragCall EXCEPT ![t] = call]
    /\ UNCHANGED <<stored, collection, fallback, kept, ragStartsLeft>>

\* add_documents
Add(t) ==
    \E texts \in BoundedSeq(Documents, DocsMax) :
        texts # <<>> /\ Begins(t, [at |-> "add", left |-> texts, all |-> ToSet(texts), cut |-> FALSE])

\* It returns: the caller is told that the documents are in.
RagReports(t) ==
    /\ ragCall' = [ragCall EXCEPT ![t] = NoRagCall]
    /\ kept' = IF ragCall[t].cut THEN kept ELSE kept \union ragCall[t].all

\* Faulty variant: a batch that fails is left out, the others follow.
SkipsBatch(t) ==
    /\ ragCall[t].at = "add"
    /\ \E ok \in BOOLEAN : stored' = IF ok /\ collection = "there" THEN stored \union ToSet(Firsts(ragCall[t].left)) ELSE stored
    /\ IF Others(ragCall[t].left) = <<>> THEN RagReports(t)
       ELSE ragCall' = [ragCall EXCEPT ![t].left = Others(@)] /\ UNCHANGED kept
    /\ UNCHANGED <<collection, fallback, ragCounts>>

\* One batch (a call with at most one has one): ids that are in the collection
\* are left as they are, an id that comes twice in a batch fails.
AddsBatch(t) ==
    LET batch == Firsts(ragCall[t].left) IN
    /\ ragCall[t].at = "add"
    /\ \/ /\ collection = "there" /\ IsInjective(batch)
          /\ stored' = stored \union ToSet(batch)
          /\ IF Others(ragCall[t].left) = <<>> THEN RagReports(t)
             ELSE ragCall' = [ragCall EXCEPT ![t].left = Others(@)] /\ UNCHANGED kept
          /\ UNCHANGED fallback
       \/ fallback' = TRUE /\ RagReports(t) /\ UNCHANGED stored
    /\ UNCHANGED <<collection, ragCounts>>

\* search, a thread of multi_query_search, or get_stats: an error is an empty answer.
SearchesDocuments(t) == Begins(t, [NoRagCall EXCEPT !.at = "search"])

Finds(t) ==
    /\ ragCall[t].at = "search"
    /\ ragCall' = [ragCall EXCEPT ![t] = NoRagCall]
    /\ \/ collection = "there" /\ UNCHANGED fallback
       \/ fallback' = TRUE
    /\ UNCHANGED <<stored, collection, kept, ragCounts>>

\* Documents are removed; the calls that run meanwhile may have added some of them.
Removes(t, docs) ==
    /\ stored' = stored \ docs
    /\ kept' = kept \ docs
    /\ ragCall' = [u \in RagUsers |->
            IF u = t THEN [NoRagCall EXCEPT !.at = IF docs = Documents THEN "create" ELSE "idle"]
            ELSE [ragCall[u] EXCEPT !.cut = @ \/ (ragCall[u].at = "add" /\ ragCall[u].all \cap docs # {})]]

RemoveFails(t) ==
    /\ fallback' = TRUE
    /\ ragCall' = [ragCall EXCEPT ![t] = NoRagCall]
    /\ UNCHANGED <<stored, collection, kept>>

\* delete_documents
Delete(t) == Begins(t, [NoRagCall EXCEPT !.at = "delete"])
Deletes(t) ==
    /\ ragCall[t].at = "delete"
    /\ \/ /\ collection = "there" /\ \E d \in Documents : Documents # {d} /\ Removes(t, {d})
          /\ UNCHANGED <<collection, fallback>>
       \/ RemoveFails(t)
    /\ UNCHANGED ragCounts

\* clear_collection: the collection is deleted, then created again.
Clear(t) == Begins(t, [NoRagCall EXCEPT !.at = "clear"])
Clears(t) ==
    /\ ragCall[t].at = "clear"
    /\ \/ /\ collection = "there" /\ Removes(t, Documents)
          /\ collection' = "gone" /\ UNCHANGED fallback
       \/ RemoveFails(t)
    /\ UNCHANGED ragCounts

Creates(t) ==
    /\ ragCall[t].at = "create"
    /\ ragCall' = [ragCall EXCEPT ![t] = NoRagCall]
    /\ \/ collection = "gone" /\ collection' = "there" /\ UNCHANGED fallback
       \/ fallback' = TRUE /\ UNCHANGED collection
    /\ UNCHANGED <<stored, kept, ragCounts>>

\* The process ends and starts: the collection is opened, or created, or the
\* manager begins in its fallback mode.
RagRestart ==
    /\ ragStartsLeft > 0 /\ ragStartsLeft' = ragStartsLeft - 1
    /\ ragCall' = [t \in RagUsers |-> NoRagCall]
    /\ kept' = {}
    /\ \/ collection' = "there" /\ fallback' = FALSE
       \/ fallback' = TRUE /\ UNCHANGED collection
    /\ UNCHANGED <<stored, ragCalls>>

RagNext ==
    \/ RagRestart
    \/ \E t \in RagUsers :
         \/ Add(t) \/ AddsBatch(t) \/ SearchesDocuments(t) \/ Finds(t) \/ Delete(t) \/ Deletes(t)
         \/ Clear(t) \/ Clears(t) \/ Creates(t)

RagSpec == RagInit /\ [][RagNext]_ragVars

-----------------------------------------------------------------------------
RagTypeOK ==
    /\ stored \subseteq Documents /\ collection \in {"there", "gone"} /\ fallback \in BOOLEAN
    /\ \A t \in RagUsers :
         /\ ragCall[t].at \in {"idle", "add", "search", "delete", "clear", "create"}
         /\ ragCall[t].left \in BoundedSeq(Documents, DocsMax)
         /\ ragCall[t].all \subseteq Documents /\ ragCall[t].cut \in BOOLEAN
    /\ kept \subseteq Documents
    /\ ragCalls \in 0 .. CallsMax /\ ragStartsLeft \in 0 .. RagStarts

\* While the manager is not in its fallback mode, every document that it was
\* told to add since the start, and not to remove since, is in the collection:
\* a batch that failed half-way, or a clear that another thread ran into, is
\* never forgotten.
KeptWhileOn == ~fallback => kept \subseteq stored
=============================================================================
