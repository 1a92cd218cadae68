------------------------------- MODULE Cache -------------------------------
(***************************************************************************)
(* CacheManager (core/cache.py): an LRU of entries in RAM over one JSON    *)
(* file per key.  The worker threads that serve queries share the agent's  *)
(* CacheManager without a lock, and commands make managers of their own    *)
(* over the same directory.  A get is: LRU, open the file, judge it, put   *)
(* it into the LRU; a set: write a temp file, rename it, put it into the   *)
(* LRU, take stock of the directory, delete the oldest files.              *)
(*                                                                         *)
(* A content is known by the time it was made.  Files count one each       *)
(* toward the size limit, in the order they were written.  async_get and   *)
(* async_set, which nothing in the system calls, are left out.  A KeyError *)
(* in the LRU or a vanished file ends the operation; callers take it for a *)
(* miss, or go on without caching (safe_execute in core/agent/agent.py).   *)
(***************************************************************************)
EXTENDS Naturals, Sequences, FiniteSets, Lists

CONSTANTS
    Threads,
    Managers,    \* CacheManager objects over the directory
    Serving,     \* those that get and set; the others only clear
    Keys,
    TTL,
    MemMax,      \* _MEM_LRU_MAX
    MaxFiles,    \* max_size_bytes, in files
    MaxTime,     \* bound of the clock
    None, Garbled

ASSUME ThreadAssumption == IsFiniteSet(Threads)
ASSUME ManagerAssumption == Serving \subseteq Managers
ASSUME SizeAssumption == {TTL, MemMax, MaxFiles, MaxTime} \subseteq Nat

Entry == [stamp : 0 .. MaxTime, made : 0 .. MaxTime]

ASSUME MarkAssumption == None # Garbled /\ None \notin Entry \union Managers /\ Garbled \notin Entry

VARIABLES
    now,
    files,       \* files[k]: what <hash of k>.json holds
    age,         \* keys with a file, the one written longest ago first
    tmp,         \* tmp[k]: what <hash of k>.json.tmp holds
    mem,         \* mem[m]: _mem_cache of manager m, key to entry
    lru,         \* lru[m]: the keys of mem[m], least recently used first
    job,         \* job[t]: where thread t is in which operation, and its locals
    todo,        \* todo[t]: the files thread t has listed, and how many are to go
    unenforced,  \* history: a set was cut short before _enforce_cache_limit
    raced        \* history: two operations overlapped since the process began

vars == <<now, files, age, tmp, mem, lru, job, todo, unenforced, raced>>

Idle == [at |-> "idle", mgr |-> None, key |-> None, held |-> None]
NothingToDo == [list |-> <<>>, excess |-> 0]

NoEntries == [k \in Keys |-> None]
InLru(m, k) == mem[m][k] # None
Elements(s) == {s[i] : i \in DOMAIN s}

\* The sequence without k, which it holds at most once.
Without(s, k) ==
    IF k \in Elements(s)
    THEN LET i == CHOOSE j \in DOMAIN s : s[j] = k
         IN  SubSeq(s, 1, i - 1) \o SubSeq(s, i + 1, Len(s))
    ELSE s

\* move_to_end
ToEnd(s, k) == Append(Without(s, k), k)

Expired(e) == now - e.stamp > TTL
Stale(k) == files[k] # None /\ (files[k] = Garbled \/ Expired(files[k]))

At(t, label) == job[t].at = label
Goto(t, label) == job' = [job EXCEPT ![t].at = label]
Done(t) == job' = [job EXCEPT ![t] = Idle]

\* cache_file.unlink()
Unlink(k) ==
    /\ files' = [files EXCEPT ![k] = None]
    /\ age' = Without(age, k)

Init ==
    /\ now = 0
    /\ files = NoEntries
    /\ age = <<>>
    /\ tmp = NoEntries
    /\ mem = [m \in Managers |-> NoEntries]
    /\ lru = [m \in Managers |-> <<>>]
    /\ job = [t \in Threads |-> Idle]
    /\ todo = [t \in Threads |-> NothingToDo]
    /\ unenforced = FALSE
    /\ raced = FALSE

Tick ==
    /\ now < MaxTime
    /\ now' = now + 1
    /\ UNCHANGED <<files, age, tmp, mem, lru, job, todo, unenforced, raced>>

\* An operation of thread t begins.
Begin(t) ==
    /\ At(t, "idle")
    /\ raced' = (raced \/ \E u \in Threads : ~At(u, "idle"))

-----------------------------------------------------------------------------
\* get: a fresh entry in the LRU
HitInMemory(t, m, k) ==
    /\ Begin(t)
    /\ InLru(m, k) /\ ~Expired(mem[m][k])
    /\ lru' = [lru EXCEPT ![m] = ToEnd(@, k)]
    /\ UNCHANGED <<now, files, age, tmp, mem, job, todo, unenforced>>

\* get: nothing fresh there; on to the file, if there is one
LookOnDisk(t, m, k) ==
    /\ Begin(t)
    /\ InLru(m, k) => Expired(mem[m][k])
    /\ mem' = [mem EXCEPT ![m][k] = None]
    /\ lru' = [lru EXCEPT ![m] = Without(@, k)]
    /\ job' = IF files[k] = None THEN job
              ELSE [job EXCEPT ![t] = [Idle EXCEPT !.at = "read", !.mgr = m, !.key = k]]
    /\ UNCHANGED <<now, files, age, tmp, todo, unenforced>>

\* get: open and json.load; the file may have gone since
ReadFile(t) ==
    /\ At(t, "read")
    /\ LET found == files[job[t].key] IN
       IF found = None THEN Done(t)
       ELSE job' = [job EXCEPT ![t].at = "judge", ![t].held = found]
    /\ UNCHANGED <<now, files, age, tmp, mem, lru, todo, unenforced, raced>>

\* Faulty variant: what is taken from the file counts as new.
JudgeRestarting(t) ==
    /\ At(t, "judge")
    /\ IF job[t].held = Garbled \/ Expired(job[t].held)
       THEN Unlink(job[t].key) /\ Done(t)
       ELSE /\ job' = [job EXCEPT ![t].at = "promote", ![t].held.stamp = now]
            /\ UNCHANGED <<files, age>>
    /\ UNCHANGED <<now, tmp, mem, lru, todo, unenforced, raced>>

\* Faulty variant: a file that cannot be parsed is taken for an entry.
JudgeTrusting(t) ==
    /\ At(t, "judge")
    /\ Goto(t, "promote")
    /\ UNCHANGED <<now, files, age, tmp, mem, lru, todo, unenforced, raced>>

\* get: an expired or unreadable file is deleted, whatever it holds by now
Judge(t) ==
    /\ At(t, "judge")
    /\ IF job[t].held = Garbled \/ Expired(job[t].held)
       THEN Unlink(job[t].key) /\ Done(t)
       ELSE Goto(t, "promote") /\ UNCHANGED <<files, age>>
    /\ UNCHANGED <<now, tmp, mem, lru, todo, unenforced, raced>>

-----------------------------------------------------------------------------
\* set: open the temp file and dump; the timestamp is taken before
WriteTmp(t, m, k) ==
    /\ Begin(t)
    /\ LET new == [stamp |-> now, made |-> now] IN
       /\ tmp' = [tmp EXCEPT ![k] = new]
       /\ job' = [job EXCEPT ![t] =
                     [Idle EXCEPT !.at = "rename", !.mgr = m, !.key = k, !.held = new]]
    /\ UNCHANGED <<now, files, age, mem, lru, todo, unenforced>>

\* Another set is between opening and renaming the same temp file.
Contended(t) == \E u \in Threads \ {t} : At(u, "rename") /\ job[u].key = job[t].key

\* set: tmp_file.replace.  Of two writers of one temp file the first installs what
\* either has written, or a mixture; the second finds no temp file and raises, and
\* the end of its writing has gone into the file itself.
Rename(t) ==
    /\ At(t, "rename")
    /\ LET k == job[t].key IN
       IF tmp[k] # None
       THEN /\ \E f \in {tmp[k]} \union (IF Contended(t) THEN {job[t].held, Garbled} ELSE {}) :
                  files' = [files EXCEPT ![k] = f]
            /\ age' = Append(Without(age, k), k)
            /\ tmp' = [tmp EXCEPT ![k] = None]
            /\ Goto(t, "store")
       ELSE /\ \E f \in {files[k]} \union (IF files[k] = None THEN {} ELSE {job[t].held, Garbled}) :
                  /\ files' = [files EXCEPT ![k] = f]
                  /\ age' = IF f = files[k] THEN age ELSE ToEnd(age, k)
            /\ Done(t)
            /\ tmp' = tmp
    /\ UNCHANGED <<now, mem, lru, todo, unenforced, raced>>

-----------------------------------------------------------------------------
\* _mem_cache_put: the assignment, which keeps the place of a known key
Assign(t) ==
    /\ job[t].at \in {"promote", "store"}
    /\ LET m == job[t].mgr  k == job[t].key IN
       /\ mem' = [mem EXCEPT ![m][k] = job[t].held]
       /\ lru' = IF InLru(m, k) THEN lru ELSE [lru EXCEPT ![m] = Append(@, k)]
    /\ Goto(t, IF At(t, "promote") THEN "promoted" ELSE "stored")
    /\ UNCHANGED <<now, files, age, tmp, todo, unenforced, raced>>

\* Faulty variant: the LRU is trimmed only above one entry too many.
TrimmedLate(s) ==
    IF Len(s) > MemMax + 1 THEN SubSeq(s, Len(s) - MemMax, Len(s)) ELSE s

\* while len > _MEM_LRU_MAX: popitem(last=False)
Trimmed(s) ==
    IF Len(s) > MemMax THEN SubSeq(s, Len(s) - MemMax + 1, Len(s)) ELSE s

\* _mem_cache_put: move_to_end, which raises if the key has gone, and the trim
Reorder(t) ==
    /\ job[t].at \in {"promoted", "stored"}
    /\ LET m == job[t].mgr  k == job[t].key IN
       IF InLru(m, k)
       THEN /\ lru' = [lru EXCEPT ![m] = Trimmed(ToEnd(@, k))]
            /\ mem' = [mem EXCEPT ![m] =
                          [j \in Keys |-> IF j \in Elements(lru'[m]) THEN @[j] ELSE None]]
            /\ IF At(t, "promoted") THEN Done(t) ELSE Goto(t, "stat")
            /\ unenforced' = unenforced
       ELSE /\ UNCHANGED <<mem, lru>>
            /\ Done(t)
            /\ unenforced' = (unenforced \/ At(t, "stored"))
    /\ UNCHANGED <<now, files, age, tmp, todo, raced>>

\* Faulty variant: the file just written is not counted.
StatBehind(t) ==
    /\ At(t, "stat")
    /\ IF Len(age) <= MaxFiles + 1 THEN Done(t) /\ todo' = todo
       ELSE /\ Goto(t, "evict")
            /\ todo' = [todo EXCEPT ![t] = [list |-> age, excess |-> Len(age) - MaxFiles - 1]]
    /\ unenforced' = FALSE
    /\ UNCHANGED <<now, files, age, tmp, mem, lru, raced>>

\* _enforce_cache_limit: one pass over the directory, oldest file first
Stat(t) ==
    /\ At(t, "stat")
    /\ IF Len(age) <= MaxFiles THEN Done(t) /\ todo' = todo
       ELSE /\ Goto(t, "evict")
            /\ todo' = [todo EXCEPT ![t] = [list |-> age, excess |-> Len(age) - MaxFiles]]
    /\ unenforced' = FALSE
    /\ UNCHANGED <<now, files, age, tmp, mem, lru, raced>>

\* Faulty variant: the LRU keeps what was deleted from the directory.
EvictFromDisk(t) ==
    /\ At(t, "evict")
    /\ IF todo[t].excess = 0 \/ todo[t].list = <<>>
       THEN Done(t) /\ todo' = [todo EXCEPT ![t] = NothingToDo] /\ UNCHANGED <<files, age>>
       ELSE LET k == Head(todo[t].list) IN
            /\ job' = job
            /\ IF files[k] = None
               THEN todo' = [todo EXCEPT ![t].list = Tail(@)] /\ UNCHANGED <<files, age>>
               ELSE todo' = [todo EXCEPT ![t] = [list |-> Tail(@.list), excess |-> @.excess - 1]] /\ Unlink(k)
    /\ UNCHANGED <<now, tmp, mem, lru, unenforced, raced>>

\* _enforce_cache_limit: delete the next file listed; one that has gone by now
\* is passed over and does not count
Evict(t) ==
    /\ At(t, "evict")
    /\ IF todo[t].excess = 0 \/ todo[t].list = <<>>
       THEN /\ Done(t)
            /\ todo' = [todo EXCEPT ![t] = NothingToDo]
            /\ UNCHANGED <<files, age, mem, lru>>
       ELSE LET k == Head(todo[t].list) IN
            /\ job' = job
            /\ IF files[k] = None
               THEN /\ todo' = [todo EXCEPT ![t].list = Tail(@)]
                    /\ UNCHANGED <<files, age, mem, lru>>
               ELSE /\ todo' = [todo EXCEPT ![t] = [list |-> Tail(@.list), excess |-> @.excess - 1]]
                    /\ Unlink(k)
                    /\ mem' = [mem EXCEPT ![job[t].mgr][k] = None]
                    /\ lru' = [lru EXCEPT ![job[t].mgr] = Without(@, k)]
    /\ UNCHANGED <<now, tmp, unenforced, raced>>

-----------------------------------------------------------------------------
\* clear: list the files
ClearBegin(t, m) ==
    /\ Begin(t)
    /\ job' = [job EXCEPT ![t] = [Idle EXCEPT !.at = "clear", !.mgr = m]]
    /\ todo' = [todo EXCEPT ![t].list = age]
    /\ UNCHANGED <<now, files, age, tmp, mem, lru, unenforced>>

\* clear: delete the next; if it has gone, unlink raises and the LRU stays
ClearFile(t) ==
    /\ At(t, "clear")
    /\ todo[t].list # <<>>
    /\ LET k == Head(todo[t].list) IN
       IF files[k] = None
       THEN /\ Done(t)
            /\ todo' = [todo EXCEPT ![t] = NothingToDo]
            /\ UNCHANGED <<files, age>>
       ELSE /\ Unlink(k)
            /\ todo' = [todo EXCEPT ![t].list = Tail(@)]
            /\ job' = job
    /\ UNCHANGED <<now, tmp, mem, lru, unenforced, raced>>

\* Faulty variant: the files go, the LRU stays.
ClearFilesOnly(t) ==
    /\ At(t, "clear")
    /\ todo[t].list = <<>>
    /\ Done(t)
    /\ UNCHANGED <<now, files, age, tmp, mem, lru, todo, unenforced, raced>>

\* clear: the LRU of this manager
ClearLru(t) ==
    /\ At(t, "clear")
    /\ todo[t].list = <<>>
    /\ mem' = [mem EXCEPT ![job[t].mgr] = NoEntries]
    /\ lru' = [lru EXCEPT ![job[t].mgr] = <<>>]
    /\ Done(t)
    /\ UNCHANGED <<now, files, age, tmp, todo, unenforced, raced>>

\* The process ends, at any point, and the next one clears what is expired or
\* unreadable, everything (cli/bootstrap.py) or nothing (the API server).  A
\* temp file left behind is never read, only written over: it counts as gone.
Restart ==
    /\ \E gone \in {{}, {k \in Keys : Stale(k)}, Keys} :
          /\ files' = [k \in Keys |-> IF k \in gone THEN None ELSE files[k]]
          /\ age' = Filtered(age, Keys \ gone)
    /\ mem' = [m \in Managers |-> NoEntries]
    /\ lru' = [m \in Managers |-> <<>>]
    /\ job' = [t \in Threads |-> Idle]
    /\ todo' = [t \in Threads |-> NothingToDo]
    /\ unenforced' =
          (unenforced \/ \E t \in Threads : job[t].at \in {"store", "stored", "stat", "evict"})
    /\ tmp' = NoEntries
    /\ raced' = FALSE
    /\ now' = now

Step(t) ==
    \/ ReadFile(t) \/ Judge(t) \/ Rename(t) \/ Assign(t) \/ Reorder(t)
    \/ Stat(t) \/ Evict(t) \/ ClearFile(t) \/ ClearLru(t)

Call(t) ==
    \/ \E m \in Serving, k \in Keys : HitInMemory(t, m, k) \/ LookOnDisk(t, m, k) \/ WriteTmp(t, m, k)
    \/ \E m \in Managers : ClearBegin(t, m)

Next == Tick \/ (\E t \in Threads : Call(t) \/ Step(t)) \/ Restart

Spec == Init /\ [][Next]_vars

-----------------------------------------------------------------------------
Quiet == \A t \in Threads : At(t, "idle")

\* The sequence lists, once each, the keys that f maps to something.
IsListing(s, f) ==
    /\ Elements(s) = {k \in Keys : f[k] # None}
    /\ \A i, j \in DOMAIN s : s[i] = s[j] => i = j

TypeOK ==
    /\ now \in 0 .. MaxTime
    /\ files \in [Keys -> Entry \union {None, Garbled}]
    /\ tmp \in [Keys -> Entry \union {None}]
    /\ mem \in [Managers -> [Keys -> Entry \union {None}]]
    /\ lru \in [Managers -> Seq(Keys)]
    /\ \A m \in Managers : IsListing(lru[m], mem[m])
    /\ age \in Seq(Keys)
    /\ IsListing(age, files)
    /\ job \in [Threads -> [at : {"idle", "read", "judge", "promote", "promoted", "rename",
                                  "store", "stored", "stat", "evict", "clear"},
                            mgr : Managers \union {None},
                            key : Keys \union {None},
                            held : Entry \union {None, Garbled}]]
    /\ todo \in [Threads -> [list : Seq(Keys), excess : Nat]]
    /\ unenforced \in BOOLEAN /\ raced \in BOOLEAN

\* No get serves, from the LRU or from a file, a content that was made more than
\* TTL ago, however often it went from one to the other (cache.py, get).
HitsAreFresh ==
    [][\A t \in Threads :
          /\ \A m \in Serving, k \in Keys :
                HitInMemory(t, m, k) => now - mem[m][k].made <= TTL
          /\ Judge(t) /\ job'[t].at = "promote" => now - job[t].held.made <= TTL]_vars

\* The LRU holds _MEM_LRU_MAX entries and one more for every put under way.
LruBounded ==
    \A m \in Managers :
        Len(lru[m]) <= MemMax + Cardinality({t \in Threads : job[t].at \in {"promoted", "stored"}})

\* When no operation is under way the directory is within the limit, though
\* several threads deleted from it at once; a set that was cut short excepted
\* (cache.py, _enforce_cache_limit).
DirectoryBounded == Quiet /\ ~unenforced => Len(age) <= MaxFiles

\* As long as operations come one at a time, what the LRU would serve is what
\* the file holds: eviction, expiry, clearing and restart treat both alike.
TiersAgree ==
    Quiet /\ ~raced =>
        \A m \in Managers, k \in Keys : InLru(m, k) => files[k] = mem[m][k]

\* A clear that nothing interfered with leaves nothing to serve (README.md,
\* /clear-cache).
ClearEmpties ==
    [][\A t \in Threads : ClearLru(t) /\ ~raced =>
          age' = <<>> /\ \A m \in Managers : lru'[m] = <<>>]_vars
=============================================================================
