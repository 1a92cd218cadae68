---------------------------- MODULE MemoryStore ----------------------------
(***************************************************************************)
(* MemoryStore (core/memory/): lists of entries in RAM, written whole to   *)
(* memory.json through memory.json.tmp after every change.  One process    *)
(* holds several stores over that one file: runtime.memory_store (app.py)  *)
(* serves the memory endpoints, get_memory_store() serves the agent's      *)
(* worker threads.  Nothing locks a store or the file, so each Python-     *)
(* level access of shared state is a step of its own: the checks of        *)
(* remember_*, the append, and in _save the opening of the temp file, the  *)
(* dump and os.replace.  _save swallows every exception.                   *)
(*                                                                         *)
(* A category is a set of entries; equal notes differ in added_at.  Email  *)
(* metadata and breach data are not kept: changing them only saves.        *)
(* import_from_json, which nothing calls, is left out.  Calls that change  *)
(* nothing (value known, quota reached, value to forget unknown) are       *)
(* stutters.                                                               *)
(***************************************************************************)
EXTENDS Naturals, FiniteSets

CONSTANTS
    Instances,      \* MemoryStore objects over the file
    Threads,        \* threads that call them
    Home,           \* Home[t]: the store thread t calls
    Categories,
    Notes,          \* the categories add_note fills: no check for duplicates
    Described,      \* the categories whose entries carry metadata: emails
    Values, Users,
    Stamps,         \* values of added_at
    PerUserLimit, GlobalLimit,
    SaveMayFail,    \* file operations may raise OSError
    NoFile, Empty, Garbled, Nothing

Entry == [value : Values, user : Users, added_at : Stamps]
Contents == [Categories -> SUBSET Entry]
NotContents == {NoFile, Empty, Garbled}

ASSUME HomeAssumption == Home \in [Threads -> Instances]
ASSUME CategoryAssumption == Notes \subseteq Categories /\ Described \subseteq Categories
ASSUME LimitAssumption == PerUserLimit \in Nat /\ GlobalLimit \in Nat
ASSUME FileAssumption == NotContents \cap Contents = {} /\ Nothing \notin Categories \X Entry
ASSUME FailAssumption == SaveMayFail \in BOOLEAN

VARIABLES
    data,       \* data[i]: self.data of store i
    disk, tmp,  \* what memory.json and memory.json.tmp hold
    pc,         \* where thread t is in an operation; "down": no process
    pending,    \* the entry a remember or add_note is storing
    handle,     \* the file thread t has open for writing, which follows renames
    clash       \* history: two saves overlapped since the file was last loaded

vars == <<data, disk, tmp, pc, pending, handle, clash>>

EmptyData == [c \in Categories |-> {}]
IsContents(f) == f \notin NotContents

Saving(t) == pc[t] \in {"write", "replace"}
EntriesOf(D, c, u) == {e \in D[c] : e.user = u}
Holds(D, c, v) == \E e \in D[c] : e.value = v

\* Faulty variant: one entry more than the limit is let in.
UnderLimitsOffByOne(D, c, u) ==
    /\ Cardinality(EntriesOf(D, c, u)) <= PerUserLimit
    /\ Cardinality(D[c]) < GlobalLimit

\* _check_user_limit and _check_global_limit
UnderLimits(D, c, u) ==
    /\ Cardinality(EntriesOf(D, c, u)) < PerUserLimit
    /\ Cardinality(D[c]) < GlobalLimit

Init ==
    /\ data = [i \in Instances |-> EmptyData]
    /\ disk = NoFile
    /\ tmp = NoFile
    /\ pc = [t \in Threads |-> "down"]
    /\ pending = [t \in Threads |-> Nothing]
    /\ handle = [t \in Threads |-> "none"]
    /\ clash = FALSE

-----------------------------------------------------------------------------
\* Faulty variant: remember_* does not look for the value.
RememberBlindly(t, c, e) ==
    /\ pc[t] = "idle"
    /\ c \notin Notes
    /\ UnderLimits(data[Home[t]], c, e.user)
    /\ pc' = [pc EXCEPT ![t] = "append"]
    /\ pending' = [pending EXCEPT ![t] = <<c, e>>]
    /\ UNCHANGED <<data, disk, tmp, handle, clash>>

\* remember_email, _phone, _ip, _username, _domain: the checks
Remember(t, c, e) ==
    /\ pc[t] = "idle"
    /\ c \notin Notes
    /\ ~Holds(data[Home[t]], c, e.value)
    /\ UnderLimits(data[Home[t]], c, e.user)
    /\ pc' = [pc EXCEPT ![t] = "append"]
    /\ pending' = [pending EXCEPT ![t] = <<c, e>>]
    /\ UNCHANGED <<data, disk, tmp, handle, clash>>

\* add_note: the checks
AddNote(t, c, e) ==
    /\ pc[t] = "idle"
    /\ c \in Notes
    /\ e \notin data[Home[t]][c]
    /\ UnderLimits(data[Home[t]], c, e.user)
    /\ pc' = [pc EXCEPT ![t] = "append"]
    /\ pending' = [pending EXCEPT ![t] = <<c, e>>]
    /\ UNCHANGED <<data, disk, tmp, handle, clash>>

\* self.data[category].append(entry)
AppendEntry(t) ==
    /\ pc[t] = "append"
    /\ data' = [data EXCEPT ![Home[t]][pending[t][1]] = @ \union {pending[t][2]}]
    /\ pc' = [pc EXCEPT ![t] = "open"]
    /\ UNCHANGED <<disk, tmp, pending, handle, clash>>

\* Known email with metadata, and update_email_breach_info: only a save.
Describe(t, c, v) ==
    /\ pc[t] = "idle"
    /\ c \in Described
    /\ Holds(data[Home[t]], c, v)
    /\ pc' = [pc EXCEPT ![t] = "open"]
    /\ UNCHANGED <<data, disk, tmp, pending, handle, clash>>

\* forget_*
Forget(t, c, v) ==
    /\ pc[t] = "idle"
    /\ Holds(data[Home[t]], c, v)
    /\ data' = [data EXCEPT ![Home[t]][c] = {e \in @ : e.value # v}]
    /\ pc' = [pc EXCEPT ![t] = "open"]
    /\ UNCHANGED <<disk, tmp, pending, handle, clash>>

ClearCategory(t, c) ==
    /\ pc[t] = "idle"
    /\ data' = [data EXCEPT ![Home[t]][c] = {}]
    /\ pc' = [pc EXCEPT ![t] = "open"]
    /\ UNCHANGED <<disk, tmp, pending, handle, clash>>

ClearAll(t) ==
    /\ pc[t] = "idle"
    /\ data' = [data EXCEPT ![Home[t]] = EmptyData]
    /\ pc' = [pc EXCEPT ![t] = "open"]
    /\ UNCHANGED <<disk, tmp, pending, handle, clash>>

-----------------------------------------------------------------------------
\* What the dump leaves in a file: two writers of one file may mix.
Dumped(t, f) ==
    IF f = Empty /\ \A u \in Threads \ {t} : handle[u] # handle[t]
    THEN {data[Home[t]]} ELSE {data[Home[t]], Garbled}

\* Thread t's write reaches the file its handle names, which is closed then.
WriteThrough(t, inTmp, inDisk) ==
    /\ tmp' \in IF handle[t] = "tmp" THEN inTmp ELSE {tmp}
    /\ disk' \in IF handle[t] = "disk" THEN inDisk ELSE {disk}
    /\ handle' = [handle EXCEPT ![t] = "none"]

\* The operation returns, a remember with True.
Return(t) ==
    /\ pc' = [pc EXCEPT ![t] = "idle"]
    /\ pending' = [pending EXCEPT ![t] = Nothing]

\* Faulty variant: memory.json itself is opened.
OpenInPlace(t) ==
    /\ pc[t] = "open"
    /\ disk' = Empty
    /\ handle' = [handle EXCEPT ![t] = "disk"]
    /\ clash' = (clash \/ \E u \in Threads : Saving(u))
    /\ pc' = [pc EXCEPT ![t] = "write"]
    /\ UNCHANGED <<data, tmp, pending>>

\* Faulty variant: a temp file left behind is not truncated.
OpenAppending(t) ==
    /\ pc[t] = "open"
    /\ tmp' = IF tmp = NoFile THEN Empty ELSE tmp
    /\ handle' = [handle EXCEPT ![t] = "tmp"]
    /\ clash' = (clash \/ \E u \in Threads : Saving(u))
    /\ pc' = [pc EXCEPT ![t] = "write"]
    /\ UNCHANGED <<data, disk, pending>>

\* open(tmp_file, 'w') creates or truncates.
OpenTmp(t) ==
    /\ pc[t] = "open"
    /\ tmp' = Empty
    /\ handle' = [handle EXCEPT ![t] = "tmp"]
    /\ clash' = (clash \/ \E u \in Threads : Saving(u))
    /\ pc' = [pc EXCEPT ![t] = "write"]
    /\ UNCHANGED <<data, disk, pending>>

\* json.dump, and the with block closes the file.
Dump(t) ==
    /\ pc[t] = "write"
    /\ WriteThrough(t, Dumped(t, tmp), Dumped(t, disk))
    /\ pc' = [pc EXCEPT ![t] = "replace"]
    /\ UNCHANGED <<data, pending, clash>>

\* Which file a handle names after memory.json.tmp has become memory.json.
Renamed(h) == IF h = "tmp" THEN "disk" ELSE IF h = "disk" THEN "lost" ELSE h

\* os.replace; when another save has taken the temp file away it raises.
Replace(t) ==
    /\ pc[t] = "replace"
    /\ IF tmp = NoFile THEN UNCHANGED <<disk, tmp, handle>>
       ELSE /\ disk' = tmp
            /\ tmp' = NoFile
            /\ handle' = [u \in Threads |-> Renamed(handle[u])]
    /\ Return(t)
    /\ UNCHANGED <<data, clash>>

\* An exception inside _save is logged, and the caller is not told; a dump
\* that raises half-way leaves what it had flushed.
SaveFails(t) ==
    /\ SaveMayFail
    /\ pc[t] \in {"open", "write", "replace"}
    /\ WriteThrough(t, {tmp, Garbled}, {disk, Garbled})
    /\ Return(t)
    /\ UNCHANGED <<data, clash>>

\* The process dies at any point.
Crash ==
    /\ \E t \in Threads : pc[t] # "down"
    /\ data' = [i \in Instances |-> EmptyData]
    /\ pc' = [t \in Threads |-> "down"]
    /\ pending' = [t \in Threads |-> Nothing]
    /\ handle' = [t \in Threads |-> "none"]
    /\ UNCHANGED <<disk, tmp, clash>>

\* Faulty variant: whatever the file holds becomes the data.
RestartTrusting ==
    /\ \A t \in Threads : pc[t] = "down"
    /\ pc' = [t \in Threads |-> "idle"]
    /\ data' = [i \in Instances |-> disk]
    /\ clash' = FALSE
    /\ UNCHANGED <<disk, tmp, pending, handle>>

\* The stores are built and _load: an absent, empty or unreadable file is
\* replaced by the defaults.
Restart ==
    /\ \A t \in Threads : pc[t] = "down"
    /\ pc' = [t \in Threads |-> "idle"]
    /\ data' = [i \in Instances |-> IF IsContents(disk) THEN disk ELSE EmptyData]
    /\ \/ IsContents(disk) /\ UNCHANGED <<disk, tmp>>
       \/ ~IsContents(disk) /\ disk' = EmptyData /\ tmp' = NoFile
       \/ ~IsContents(disk) /\ SaveMayFail /\ UNCHANGED <<disk, tmp>>
    /\ clash' = (clash /\ ~IsContents(disk'))
    /\ UNCHANGED <<pending, handle>>

\* What the endpoints and the agent's commands do with the store: one kind of
\* operation adds, the other removes.
Remembering(t) ==
    \/ \E c \in Categories, e \in Entry : Remember(t, c, e) \/ AddNote(t, c, e)
    \/ \E c \in Categories, v \in Values : Describe(t, c, v)

Forgetting(t) ==
    \/ \E c \in Categories, v \in Values : Forget(t, c, v)
    \/ \E c \in Categories : ClearCategory(t, c)
    \/ ClearAll(t)

Operation(t) == Remembering(t) \/ Forgetting(t)

Progress(t) == AppendEntry(t) \/ OpenTmp(t) \/ Dump(t) \/ Replace(t) \/ SaveFails(t)

Next == (\E t \in Threads : Operation(t) \/ Progress(t)) \/ Crash \/ Restart

Spec == Init /\ [][Next]_vars

-----------------------------------------------------------------------------
TypeOK ==
    /\ data \in [Instances -> Contents]
    /\ disk \in Contents \union NotContents
    /\ tmp \in Contents \union NotContents
    /\ pc \in [Threads -> {"down", "idle", "append", "open", "write", "replace"}]
    /\ pending \in [Threads -> (Categories \X Entry) \union {Nothing}]
    /\ handle \in [Threads -> {"none", "tmp", "disk", "lost"}]
    /\ clash \in BOOLEAN

\* Everything that can become the state of a store.
Held == {data[i] : i \in Instances} \union ({disk, tmp} \ NotContents)

\* No store, and no file a store may load, has a value twice in a category
\* that remember_* guards, also when checks and saves of two stores
\* interleave and the process dies in between (operations.py, "Check if
\* already exists").
NoDuplicates ==
    \A D \in Held : \A c \in Categories \ Notes :
        \A e, f \in D[c] : e.value = f.value => e = f

\* The quotas of quotas.py hold in RAM and in what a restart loads.
WithinQuotas ==
    \A D \in Held : \A c \in Categories :
        /\ Cardinality(D[c]) <= GlobalLimit
        /\ \A u \in Users : Cardinality(EntriesOf(D, c, u)) <= PerUserLimit

\* A crash or a failed save leaves memory.json readable, as long as no two
\* saves overlapped (persistence.py, "Write to a temp file and rename").
ReadableUnlessClash == ~clash => disk \in Contents \union {NoFile}

\* A save that no other save disturbed puts exactly the store's state in
\* memory.json: what a caller was told is stored is what a restart finds.
UndisturbedSaveIsWhole ==
    [][\A t \in Threads : Replace(t) /\ ~clash => disk' = data[Home[t]]]_vars
=============================================================================
