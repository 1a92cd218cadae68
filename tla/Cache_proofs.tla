---------------------------- MODULE Cache_proofs ----------------------------
(***************************************************************************)
(* Cache for any number of threads and keys, any limits.                   *)
(*                                                                         *)
(* HitsAreFresh: the time stamp an entry is judged by is the time its      *)
(* content was made, in the LRU, in every file and in what a thread holds  *)
(* between reading and promoting; no operation renews it.                  *)
(*                                                                         *)
(* LruBounded: _mem_cache_put adds a key in one step and trims in the      *)
(* next, so the LRU may exceed _MEM_LRU_MAX in between.  It never exceeds  *)
(* it by more than the puts under way: each surplus key is one that some   *)
(* thread is still putting, and whoever ends its put trims behind it or    *)
(* finds that its key has left the LRU.                                    *)
(*                                                                         *)
(* DirectoryBounded: once every file written has been taken stock of, the  *)
(* directory is within the limit or some thread in _enforce_cache_limit    *)
(* has all of it on its list and will delete at least the surplus; what    *)
(* others delete meanwhile it passes over, without counting it.            *)
(*                                                                         *)
(* TiersAgree and ClearEmpties, for one manager: what a thread has looked  *)
(* at still holds when it acts on it, and the LRU differs from the files   *)
(* only inside a set and inside a clear.                                   *)
(***************************************************************************)
EXTENDS Cache, Lists_proofs, FiniteSetTheorems, SequenceTheorems, TLAPS

\* Entries whose time stamp is the time their content was made.
Honest == {e \in Entry : e.stamp = e.made}

Labels == {"idle", "read", "judge", "promote", "promoted", "rename", "store", "stored",
           "stat", "evict", "clear"}

\* The part of the types that freshness rests on.
StoresHonest ==
    /\ now \in 0 .. MaxTime
    /\ files \in [Keys -> Honest \union {None, Garbled}]
    /\ tmp \in [Keys -> Honest \union {None}]
    /\ mem \in [Managers -> [Keys -> Honest \union {None}]]

\* What a thread holds in each place of get and set.
JobsHonest ==
    /\ job \in [Threads -> [at : Labels, mgr : Managers \union {None}, key : Keys \union {None},
                            held : Honest \union {None, Garbled}]]
    /\ \A t \in Threads :
          /\ job[t].at \notin {"idle", "clear"} => job[t].mgr \in Managers /\ job[t].key \in Keys
          /\ job[t].at = "clear" => job[t].mgr \in Managers
          /\ job[t].at = "judge" => job[t].held # None
          /\ job[t].at \in {"promote", "promoted", "rename", "store", "stored"} => job[t].held \in Honest

FreshInv == StoresHonest /\ JobsHonest

\* A thread in no operation has the type of a job.
LEMMA IdleJob ==
    Idle \in [at : Labels, mgr : Managers \union {None}, key : Keys \union {None},
              held : Honest \union {None, Garbled}]
BY DEF Idle, Labels

\* The invariant holds of an empty cache.
LEMMA FreshInit == Init => FreshInv
BY SizeAssumption, IdleJob DEF Init, FreshInv, StoresHonest, JobsHonest, NoEntries, Idle

\* A step that leaves the stores alone or only takes entries out of them keeps
\* StoresHonest; the others put in what a thread holds.
LEMMA FreshStep == FreshInv /\ [Next]_vars => FreshInv'
<1> SUFFICES ASSUME FreshInv, [Next]_vars PROVE FreshInv'
    OBVIOUS
<1> USE MarkAssumption, SizeAssumption, ManagerAssumption DEF FreshInv
<1>1. CASE Tick
    BY <1>1 DEF Tick, StoresHonest, JobsHonest
<1>2. CASE Restart
  <2>1. StoresHonest'
      BY <1>2 DEF Restart, StoresHonest, NoEntries
  <2>2. JobsHonest'
      BY <1>2, IdleJob DEF Restart, JobsHonest, Idle
  <2> QED BY <2>1, <2>2
<1>3. ASSUME NEW t \in Threads, NEW m \in Serving, NEW k \in Keys, HitInMemory(t, m, k)
      PROVE FreshInv'
    BY <1>3 DEF HitInMemory, StoresHonest, JobsHonest
<1>4. ASSUME NEW t \in Threads, NEW m \in Serving, NEW k \in Keys, LookOnDisk(t, m, k)
      PROVE FreshInv'
  <2>1. StoresHonest'
      BY <1>4 DEF LookOnDisk, StoresHonest
  <2>2. JobsHonest'
      BY <1>4 DEF LookOnDisk, JobsHonest, Idle, Labels
  <2> QED BY <2>1, <2>2
<1>5. ASSUME NEW t \in Threads, NEW m \in Serving, NEW k \in Keys, WriteTmp(t, m, k)
      PROVE FreshInv'
  <2>1. [stamp |-> now, made |-> now] \in Honest
      BY DEF StoresHonest, Honest, Entry
  <2>2. StoresHonest'
      BY <1>5, <2>1 DEF WriteTmp, StoresHonest
  <2>3. JobsHonest'
      BY <1>5, <2>1 DEF WriteTmp, JobsHonest, Idle, Labels
  <2> QED BY <2>2, <2>3
<1>6. ASSUME NEW t \in Threads, NEW m \in Managers, ClearBegin(t, m) PROVE FreshInv'
  <2>1. StoresHonest'
      BY <1>6 DEF ClearBegin, StoresHonest
  <2>2. JobsHonest'
      BY <1>6 DEF ClearBegin, JobsHonest, Idle, Labels
  <2> QED BY <2>1, <2>2
<1>7. ASSUME NEW t \in Threads, ReadFile(t) PROVE FreshInv'
  <2>1. StoresHonest'
      BY <1>7 DEF ReadFile, StoresHonest
  <2>2. job[t].key \in Keys
      BY <1>7 DEF ReadFile, At, JobsHonest
  <2>3. files[job[t].key] \in Honest \union {None, Garbled}
      BY <2>2 DEF StoresHonest
  <2>4. JobsHonest'
      BY <1>7, <2>3, IdleJob DEF ReadFile, At, Done, JobsHonest, Idle, Labels
  <2> QED BY <2>1, <2>4
<1>8. ASSUME NEW t \in Threads, Judge(t) PROVE FreshInv'
  <2>1. StoresHonest'
      BY <1>8 DEF Judge, Unlink, StoresHonest
  <2>2. JobsHonest'
      BY <1>8, IdleJob DEF Judge, At, Goto, Done, JobsHonest, Idle, Labels
  <2> QED BY <2>1, <2>2
<1>9. ASSUME NEW t \in Threads, Rename(t) PROVE FreshInv'
  <2>1. job[t].key \in Keys /\ job[t].held \in Honest
      BY <1>9 DEF Rename, At, JobsHonest
  <2>2. StoresHonest'
      BY <1>9, <2>1 DEF Rename, StoresHonest
  <2>3. JobsHonest'
      BY <1>9, IdleJob DEF Rename, At, Goto, Done, JobsHonest, Idle, Labels
  <2> QED BY <2>2, <2>3
<1>10. ASSUME NEW t \in Threads, Assign(t) PROVE FreshInv'
  <2>1. job[t].held \in Honest
      BY <1>10 DEF Assign, JobsHonest
  <2>2. StoresHonest'
      BY <1>10, <2>1 DEF Assign, StoresHonest
  <2>3. JobsHonest'
      BY <1>10 DEF Assign, At, Goto, JobsHonest, Labels
  <2> QED BY <2>2, <2>3
<1>11. ASSUME NEW t \in Threads, Reorder(t) PROVE FreshInv'
  <2>1. StoresHonest'
      BY <1>11 DEF Reorder, StoresHonest
  <2>2. JobsHonest'
      BY <1>11, IdleJob DEF Reorder, At, Goto, Done, JobsHonest, Idle, Labels
  <2> QED BY <2>1, <2>2
<1>12. ASSUME NEW t \in Threads, Stat(t) PROVE FreshInv'
  <2>1. StoresHonest'
      BY <1>12 DEF Stat, StoresHonest
  <2>2. JobsHonest'
      BY <1>12, IdleJob DEF Stat, At, Goto, Done, JobsHonest, Idle, Labels
  <2> QED BY <2>1, <2>2
<1>13. ASSUME NEW t \in Threads, Evict(t) PROVE FreshInv'
  <2>1. StoresHonest'
      BY <1>13 DEF Evict, Unlink, StoresHonest
  <2>2. JobsHonest'
      BY <1>13, IdleJob DEF Evict, Done, JobsHonest, Idle, Labels
  <2> QED BY <2>1, <2>2
<1>14. ASSUME NEW t \in Threads, ClearFile(t) PROVE FreshInv'
  <2>1. StoresHonest'
      BY <1>14 DEF ClearFile, Unlink, StoresHonest
  <2>2. JobsHonest'
      BY <1>14, IdleJob DEF ClearFile, Done, JobsHonest, Idle, Labels
  <2> QED BY <2>1, <2>2
<1>15. ASSUME NEW t \in Threads, ClearLru(t) PROVE FreshInv'
  <2>1. StoresHonest'
      BY <1>15 DEF ClearLru, NoEntries, StoresHonest
  <2>2. JobsHonest'
      BY <1>15, IdleJob DEF ClearLru, Done, JobsHonest, Idle, Labels
  <2> QED BY <2>1, <2>2
<1>16. CASE UNCHANGED vars
    BY <1>16 DEF vars, StoresHonest, JobsHonest
<1> QED
    BY <1>1, <1>2, <1>3, <1>4, <1>5, <1>6, <1>7, <1>8, <1>9, <1>10, <1>11, <1>12, <1>13,
       <1>14, <1>15, <1>16 DEF Next, Call, Step

\* Every entry anywhere is judged by the time its content was made (cache.py:90-99).
THEOREM EntriesHonest == Spec => []FreshInv
BY FreshInit, FreshStep, PTL DEF Spec

\* What a get serves from the LRU or from a file was made at most TTL ago, for
\* any number of threads and managers over the directory (cache.py, get).
THEOREM CacheServesFresh == Spec => HitsAreFresh
<1>1. FreshInv /\ [Next]_vars =>
          [\A t \in Threads :
             /\ \A m \in Serving, k \in Keys :
                   HitInMemory(t, m, k) => now - mem[m][k].made <= TTL
             /\ Judge(t) /\ job'[t].at = "promote" => now - job[t].held.made <= TTL]_vars
  <2> SUFFICES ASSUME FreshInv, NEW t \in Threads
               PROVE /\ \A m \in Serving, k \in Keys :
                           HitInMemory(t, m, k) => now - mem[m][k].made <= TTL
                     /\ Judge(t) /\ job'[t].at = "promote" => now - job[t].held.made <= TTL
      OBVIOUS
  <2>1. ASSUME NEW m \in Serving, NEW k \in Keys, HitInMemory(t, m, k)
        PROVE now - mem[m][k].made <= TTL
    <3>1. mem[m][k] \in Honest
        BY <2>1, ManagerAssumption DEF FreshInv, StoresHonest, HitInMemory, InLru
    <3> QED
        BY <2>1, <3>1, SizeAssumption
        DEF HitInMemory, Expired, Honest, Entry, FreshInv, StoresHonest
  <2>2. ASSUME Judge(t), job'[t].at = "promote"
        PROVE now - job[t].held.made <= TTL
    <3>1. ~(job[t].held = Garbled \/ Expired(job[t].held))
        BY <2>2 DEF Judge, Done, Idle, FreshInv, JobsHonest
    <3>2. job[t].held \in Honest
        BY <2>2, <3>1 DEF Judge, At, FreshInv, JobsHonest
    <3> QED
        BY <3>1, <3>2, SizeAssumption DEF Expired, Honest, Entry, FreshInv, StoresHonest
  <2> QED BY <2>1, <2>2
<1> QED BY <1>1, EntriesHonest, PTL DEF Spec, HitsAreFresh

-----------------------------------------------------------------------------
\* A sequence that holds nothing twice.
Distinct(s) == \A i, j \in DOMAIN s : s[i] = s[j] => i = j

\* Without takes one key out and leaves the rest in order, each once.
LEMMA WithoutKey ==
    ASSUME NEW S, NEW s \in Seq(S), NEW k, Distinct(s)
    PROVE  /\ Without(s, k) \in Seq(S)
           /\ Distinct(Without(s, k))
           /\ Elements(Without(s, k)) = Elements(s) \ {k}
           /\ k \in Elements(s) => Len(Without(s, k)) = Len(s) - 1
           /\ k \notin Elements(s) => Without(s, k) = s
<1>1. CASE k \notin Elements(s)
    BY <1>1 DEF Without
<1>2. CASE k \in Elements(s)
  <2> DEFINE i == CHOOSE j \in DOMAIN s : s[j] = k
             a == SubSeq(s, 1, i - 1)
             b == SubSeq(s, i + 1, Len(s))
  <2>1. i \in 1 .. Len(s) /\ s[i] = k
      BY <1>2 DEF Elements
  <2>2. Without(s, k) = a \o b
      BY <1>2 DEF Without
  <2> HIDE DEF i
  <2>3. /\ a \in Seq(S) /\ Len(a) = i - 1
        /\ \A j \in 1 .. i - 1 : a[j] = s[j]
      BY <2>1
  <2>4. /\ b \in Seq(S) /\ Len(b) = Len(s) - i
        /\ \A j \in 1 .. Len(s) - i : b[j] = s[i + j]
      BY <2>1
  <2> DEFINE w == a \o b
  <2> HIDE DEF a, b
  <2>5. /\ w \in Seq(S) /\ Len(w) = Len(s) - 1
        /\ \A j \in 1 .. Len(s) - 1 : w[j] = IF j < i THEN s[j] ELSE s[j + 1]
    <3>1. /\ w \in Seq(S) /\ Len(w) = Len(a) + Len(b)
          /\ \A j \in 1 .. Len(a) + Len(b) :
                w[j] = IF j <= Len(a) THEN a[j] ELSE b[j - Len(a)]
        BY <2>3, <2>4, ConcatProperties
    <3>2. Len(w) = Len(s) - 1
        BY <2>1, <2>3, <2>4, <3>1
    <3>3. ASSUME NEW j \in 1 .. Len(s) - 1
          PROVE w[j] = IF j < i THEN s[j] ELSE s[j + 1]
      <4>1. CASE j < i
          BY <4>1, <2>1, <2>3, <2>4, <3>1
      <4>2. CASE j >= i
        <5>1. j - (i - 1) \in 1 .. Len(s) - i /\ i + (j - (i - 1)) = j + 1
            BY <4>2, <2>1
        <5>2. w[j] = b[j - (i - 1)]
            BY <4>2, <2>1, <2>3, <2>4, <3>1
        <5>3. b[j - (i - 1)] = s[i + (j - (i - 1))]
            BY <5>1, <2>4
        <5> QED BY <4>2, <5>1, <5>2, <5>3, <2>1
      <4>3. j < i \/ j >= i
          BY <2>1
      <4> QED BY <4>1, <4>2, <4>3
    <3> QED BY <3>1, <3>2, <3>3
  <2> HIDE DEF w
  <2>6. Distinct(w)
    <3> SUFFICES ASSUME NEW j \in 1 .. Len(s) - 1, NEW l \in 1 .. Len(s) - 1, w[j] = w[l]
                 PROVE j = l
        BY <2>5 DEF Distinct
    <3>1. \A x, y \in 1 .. Len(s) : s[x] = s[y] => x = y
        BY DEF Distinct
    <3> QED BY <2>1, <2>5, <3>1
  <2>7. Elements(w) = Elements(s) \ {k}
    <3>1. ASSUME NEW x \in Elements(w) PROVE x \in Elements(s) \ {k}
      <4>1. PICK j \in 1 .. Len(s) - 1 : w[j] = x
          BY <2>5 DEF Elements
      <4>2. PICK l \in 1 .. Len(s) : s[l] = x /\ l # i
          BY <4>1, <2>1, <2>5
      <4> QED BY <4>2, <2>1 DEF Elements, Distinct
    <3>2. ASSUME NEW x \in Elements(s) \ {k} PROVE x \in Elements(w)
      <4>1. PICK j \in 1 .. Len(s) : s[j] = x
          BY DEF Elements
      <4>2. CASE j < i
          BY <4>1, <4>2, <2>1, <2>5 DEF Elements
      <4>3. CASE j > i
        <5>1. j - 1 \in 1 .. Len(s) - 1 /\ ~(j - 1 < i) /\ (j - 1) + 1 = j
            BY <4>3, <2>1
        <5>2. w[j - 1] = x
            BY <4>1, <5>1, <2>5
        <5> QED BY <5>1, <5>2, <2>5 DEF Elements
      <4>4. j # i
          BY <4>1, <2>1
      <4>5. j < i \/ j > i
          BY <4>4, <2>1
      <4> QED BY <4>2, <4>3, <4>5
    <3> QED BY <3>1, <3>2
  <2> QED BY <1>2, <2>2, <2>5, <2>6, <2>7 DEF w
<1> QED BY <1>1, <1>2

\* Append of a new key adds it and keeps every key once.
LEMMA AtEnd ==
    ASSUME NEW S, NEW s \in Seq(S), NEW k \in S, Distinct(s), k \notin Elements(s)
    PROVE  /\ Append(s, k) \in Seq(S)
           /\ Distinct(Append(s, k))
           /\ Elements(Append(s, k)) = Elements(s) \union {k}
           /\ Len(Append(s, k)) = Len(s) + 1
<1>1. /\ Append(s, k) \in Seq(S)
      /\ Len(Append(s, k)) = Len(s) + 1
      /\ \A j \in 1 .. Len(s) : Append(s, k)[j] = s[j]
      /\ Append(s, k)[Len(s) + 1] = k
    OBVIOUS
<1>2. Distinct(Append(s, k))
    BY <1>1 DEF Distinct, Elements
<1>3. Elements(Append(s, k)) = Elements(s) \union {k}
    BY <1>1 DEF Elements
<1> QED BY <1>1, <1>2, <1>3

\* Trimmed keeps a part of the keys, each once, and at most MemMax.
LEMMA TrimmedTail ==
    ASSUME NEW S, NEW s \in Seq(S), Distinct(s)
    PROVE  /\ Trimmed(s) \in Seq(S)
           /\ Distinct(Trimmed(s))
           /\ Elements(Trimmed(s)) \subseteq Elements(s)
           /\ Len(Trimmed(s)) <= MemMax
<1> USE SizeAssumption
<1>1. CASE Len(s) <= MemMax
    BY <1>1 DEF Trimmed
<1>2. CASE Len(s) > MemMax
  <2> DEFINE n == Len(s) - MemMax
             w == SubSeq(s, n + 1, Len(s))
  <2>1. Trimmed(s) = w
      BY <1>2 DEF Trimmed
  <2>2. n \in Nat /\ n <= Len(s)
      BY <1>2
  <2>3. /\ w \in Seq(S) /\ Len(w) = MemMax
        /\ \A j \in 1 .. MemMax : w[j] = s[n + j]
    <3>1. n + 1 \in 1 .. Len(s) + 1 /\ Len(s) \in (n + 1) - 1 .. Len(s)
        BY <2>2
    <3> QED BY <3>1, <2>2, SubSeqProperties
  <2> HIDE DEF w, n
  <2>4. ASSUME NEW j \in 1 .. MemMax PROVE n + j \in 1 .. Len(s) /\ w[j] = s[n + j]
      BY <2>2, <2>3 DEF n
  <2>5. Distinct(w)
    <3> SUFFICES ASSUME NEW j \in 1 .. MemMax, NEW l \in 1 .. MemMax, w[j] = w[l]
                 PROVE j = l
        BY <2>3 DEF Distinct
    <3>1. n + j = n + l
        BY <2>4 DEF Distinct
    <3> QED BY <3>1, <2>2
  <2>6. Elements(w) \subseteq Elements(s)
      BY <2>3, <2>4 DEF Elements
  <2> QED BY <2>1, <2>3, <2>5, <2>6
<1> QED BY <1>1, <1>2

-----------------------------------------------------------------------------
\* A thread between the two halves of _mem_cache_put of manager m, in a state of
\* the threads j.
Putting(j, t, m) == j[t].at \in {"promoted", "stored"} /\ j[t].mgr = m

\* The keys of a list that such a thread is going to move and trim behind.
Awaiting(j, m, list) ==
    {k \in Elements(list) : \E t \in Threads : Putting(j, t, m) /\ j[t].key = k}

\* The bound per manager: the keys beyond MemMax are still being put.
LruOK(m) ==
    /\ lru[m] \in Seq(Keys)
    /\ Distinct(lru[m])
    /\ Elements(lru[m]) = {k \in Keys : mem[m][k] # None}
    /\ Len(lru[m]) <= MemMax + Cardinality(Awaiting(job, m, lru[m]))

LruInv == lru \in [Managers -> Seq(Keys)] /\ \A m \in Managers : LruOK(m)

\* There are at most as many of these keys as threads.
LEMMA AwaitingFinite ==
    ASSUME NEW j, NEW m, NEW list
    PROVE  /\ IsFiniteSet(Awaiting(j, m, list))
           /\ Cardinality(Awaiting(j, m, list)) \in Nat
           /\ Cardinality({t \in Threads : j[t].at \in {"promoted", "stored"}}) \in Nat
           /\ Cardinality(Awaiting(j, m, list)) <=
                 Cardinality({t \in Threads : j[t].at \in {"promoted", "stored"}})
<1> DEFINE T == {t \in Threads : j[t].at \in {"promoted", "stored"}}
           K == {j[t].key : t \in T}
           A == Awaiting(j, m, list)
<1>1. IsFiniteSet(T)
    BY ThreadAssumption, FS_Subset
<1>2. IsFiniteSet(K) /\ Cardinality(K) <= Cardinality(T)
  <2> DEFINE f == [t \in T |-> j[t].key]
  <2>1. f \in Surjection(T, K)
      BY DEF Surjection
  <2> QED BY <2>1, <1>1, FS_Surjection DEF ExistsSurjection
<1>3. A \subseteq K
    BY DEF Awaiting, Putting
<1>4. IsFiniteSet(A) /\ Cardinality(A) <= Cardinality(K)
    BY <1>2, <1>3, FS_Subset
<1>5. Cardinality(A) \in Nat /\ Cardinality(K) \in Nat /\ Cardinality(T) \in Nat
    BY <1>1, <1>2, <1>4, FS_CardinalityType
<1> QED BY <1>2, <1>4, <1>5

\* No thread stops putting a key that stays in the LRU of m.
PuttingGoesOn(m) ==
    \A t \in Threads : Putting(job, t, m) /\ job[t].key \in Elements(lru'[m]) =>
                          Putting(job', t, m) /\ job'[t].key = job[t].key

\* The three ways a step can treat the LRU of a manager: leave its keys alone,
LEMMA LruSame ==
    ASSUME NEW m, LruOK(m), PuttingGoesOn(m), lru'[m] = lru[m],
           \A k \in Keys : mem'[m][k] # None <=> mem[m][k] # None
    PROVE  LruOK(m)'
<1> DEFINE A == Awaiting(job, m, lru[m])
           B == Awaiting(job', m, lru'[m])
<1>1. A \subseteq B
    BY DEF Awaiting, PuttingGoesOn
<1>2. IsFiniteSet(B) /\ Cardinality(B) \in Nat /\ Cardinality(A) \in Nat
    BY AwaitingFinite
<1>3. Cardinality(A) <= Cardinality(B)
    BY <1>1, <1>2, FS_Subset
<1>4. Len(lru'[m]) <= MemMax + Cardinality(B)
    BY <1>2, <1>3, SizeAssumption DEF LruOK
<1>5. Elements(lru'[m]) = {k \in Keys : mem'[m][k] # None}
    BY DEF LruOK
<1> QED BY <1>4, <1>5 DEF LruOK

\* take one key out,
LEMMA LruWithout ==
    ASSUME NEW m, NEW k, LruOK(m), PuttingGoesOn(m), lru'[m] = Without(lru[m], k),
           \A j \in Keys : mem'[m][j] # None <=> mem[m][j] # None /\ j # k
    PROVE  LruOK(m)'
<1> DEFINE A == Awaiting(job, m, lru[m])
           B == Awaiting(job', m, lru'[m])
<1>1. /\ lru'[m] \in Seq(Keys)
      /\ Distinct(lru'[m])
      /\ Elements(lru'[m]) = Elements(lru[m]) \ {k}
      /\ k \in Elements(lru[m]) => Len(lru'[m]) = Len(lru[m]) - 1
      /\ k \notin Elements(lru[m]) => lru'[m] = lru[m]
  <2>1. lru[m] \in Seq(Keys) /\ Distinct(lru[m])
      BY DEF LruOK
  <2> DEFINE l == lru[m]
  <2>2. /\ Without(l, k) \in Seq(Keys)
        /\ Distinct(Without(l, k))
        /\ Elements(Without(l, k)) = Elements(l) \ {k}
        /\ k \in Elements(l) => Len(Without(l, k)) = Len(l) - 1
        /\ k \notin Elements(l) => Without(l, k) = l
    <3> HIDE DEF l
    <3>1. l \in Seq(Keys) /\ Distinct(l)
        BY <2>1 DEF l
    <3> QED BY <3>1, WithoutKey
  <2> QED BY <2>2
<1>2. A \ {k} \subseteq B
    BY <1>1 DEF Awaiting, PuttingGoesOn
<1>3. /\ IsFiniteSet(A) /\ Cardinality(A) \in Nat
      /\ IsFiniteSet(B) /\ Cardinality(B) \in Nat
    BY AwaitingFinite
<1>4. Cardinality(A \ {k}) <= Cardinality(B)
    BY <1>2, <1>3, FS_Subset
<1>5. Cardinality(A \ {k}) = IF k \in A THEN Cardinality(A) - 1 ELSE Cardinality(A)
    BY <1>3, FS_RemoveElement
<1>6. k \in A => k \in Elements(lru[m])
    BY DEF Awaiting
<1>7. Len(lru'[m]) <= MemMax + Cardinality(B)
    BY <1>1, <1>3, <1>4, <1>5, <1>6, SizeAssumption DEF LruOK
<1>8. Elements(lru'[m]) = {j \in Keys : mem'[m][j] # None}
    BY <1>1 DEF LruOK
<1> QED BY <1>1, <1>7, <1>8 DEF LruOK

\* or end up within the limit.
LEMMA LruShort ==
    ASSUME NEW m, lru'[m] \in Seq(Keys), Distinct(lru'[m]), Len(lru'[m]) <= MemMax,
           Elements(lru'[m]) = {k \in Keys : mem'[m][k] # None}
    PROVE  LruOK(m)'
<1>1. Cardinality(Awaiting(job', m, lru'[m])) \in Nat
    BY AwaitingFinite
<1>2. Len(lru'[m]) <= MemMax + Cardinality(Awaiting(job', m, lru'[m]))
    BY <1>1, SizeAssumption
<1> QED BY <1>2 DEF LruOK

-----------------------------------------------------------------------------
\* A thread whose operation is not in _mem_cache_put does not end one; what the
\* others put is not touched.
LEMMA OthersGoOn ==
    ASSUME NEW t \in Threads, NEW m, JobsHonest, NEW new,
           job' = [job EXCEPT ![t] = new], ~Putting(job, t, m)
    PROVE  PuttingGoesOn(m)
BY DEF PuttingGoesOn, Putting, JobsHonest

\* A step that leaves the LRUs and their keys alone, and is not a part of a put.
LEMMA LruUntouched ==
    ASSUME NEW t \in Threads, FreshInv, LruInv, UNCHANGED <<mem, lru>>, NEW new,
           job[t].at \notin {"promoted", "stored"}, job' = [job EXCEPT ![t] = new]
    PROVE  LruInv'
<1>1. ASSUME NEW m \in Managers PROVE LruOK(m)'
  <2>1. PuttingGoesOn(m)
      BY OthersGoOn DEF Putting, FreshInv
  <2> QED BY <2>1, LruSame DEF LruInv
<1> QED BY <1>1 DEF LruInv

\* An emptied LRU is in order.
LEMMA LruEmpty ==
    ASSUME NEW m, lru'[m] = <<>>, mem'[m] = [k \in Keys |-> None]
    PROVE  LruOK(m)'
<1>1. lru'[m] \in Seq(Keys) /\ Distinct(lru'[m]) /\ Elements(lru'[m]) = {}
    BY DEF Distinct, Elements
<1>2. Len(lru'[m]) <= MemMax
    BY SizeAssumption
<1>3. {k \in Keys : mem'[m][k] # None} = {}
    OBVIOUS
<1> QED BY <1>1, <1>2, <1>3, LruShort

\* The empty LRUs the process begins with are in order.
LEMMA LruInit == Init => LruInv
<1> SUFFICES ASSUME Init, NEW m \in Managers PROVE LruOK(m)
  <2>1. Init => lru \in [Managers -> Seq(Keys)]
      BY DEF Init
  <2> QED BY <2>1 DEF LruInv
<1>1. Cardinality(Awaiting(job, m, lru[m])) \in Nat
    BY AwaitingFinite
<1>2. lru[m] = <<>> /\ mem[m] = [k \in Keys |-> None]
    BY DEF Init, NoEntries
<1> QED BY <1>1, <1>2, SizeAssumption DEF LruOK, Distinct, Elements

\* Every step keeps each LRU in order: one step of the proof per action.
LEMMA LruStep == FreshInv /\ LruInv /\ [Next]_vars => LruInv'
<1> SUFFICES ASSUME FreshInv, LruInv, [Next]_vars PROVE LruInv'
    OBVIOUS
<1> USE MarkAssumption, ManagerAssumption
<1>1. CASE Tick \/ UNCHANGED vars
  <2>1. UNCHANGED <<mem, lru, job>>
      BY <1>1 DEF Tick, vars
  <2>2. ASSUME NEW m \in Managers PROVE LruOK(m)'
      BY <2>1, LruSame DEF LruInv, PuttingGoesOn, Putting
  <2> QED BY <2>1, <2>2 DEF LruInv
<1>2. CASE Restart
  <2>1. ASSUME NEW m \in Managers PROVE LruOK(m)'
    <3>1. lru'[m] = <<>> /\ mem'[m] = [k \in Keys |-> None]
        BY <1>2 DEF Restart, NoEntries
    <3> QED BY <3>1, LruEmpty
  <2>2. lru' \in [Managers -> Seq(Keys)]
      BY <1>2 DEF Restart
  <2> QED BY <2>1, <2>2 DEF LruInv
<1>3. ASSUME NEW t \in Threads, NEW m \in Serving, NEW k \in Keys, HitInMemory(t, m, k)
      PROVE LruInv'
  <2> DEFINE w == Without(lru[m], k)
  <2>1. lru[m] \in Seq(Keys) /\ Distinct(lru[m]) /\ k \in Elements(lru[m])
      BY <1>3 DEF HitInMemory, InLru, LruInv, LruOK
  <2>2. /\ w \in Seq(Keys) /\ Distinct(w)
        /\ Elements(w) = Elements(lru[m]) \ {k} /\ Len(w) = Len(lru[m]) - 1
      BY <2>1, WithoutKey
  <2>3. lru' = [lru EXCEPT ![m] = Append(w, k)] /\ UNCHANGED <<mem, job>>
      BY <1>3 DEF HitInMemory, ToEnd
  <2> HIDE DEF w
  <2>4. /\ Append(w, k) \in Seq(Keys) /\ Distinct(Append(w, k))
        /\ Elements(Append(w, k)) = Elements(lru[m]) /\ Len(Append(w, k)) = Len(lru[m])
    <3>1. k \notin Elements(w)
        BY <2>2
    <3>2. /\ Append(w, k) \in Seq(Keys) /\ Distinct(Append(w, k))
          /\ Elements(Append(w, k)) = Elements(w) \union {k}
          /\ Len(Append(w, k)) = Len(w) + 1
        BY <2>2, <3>1, AtEnd
    <3>3. Len(lru[m]) \in Nat
        BY <2>1
    <3> QED BY <2>1, <2>2, <3>2, <3>3
  <2>5. LruOK(m)'
    <3>1. lru'[m] = Append(w, k)
        BY <2>3 DEF LruInv
    <3>2. Awaiting(job', m, lru'[m]) = Awaiting(job, m, lru[m])
        BY <2>3, <2>4, <3>1 DEF Awaiting
    <3> QED BY <2>3, <2>4, <3>1, <3>2 DEF LruInv, LruOK
  <2>6. ASSUME NEW n \in Managers \ {m} PROVE LruOK(n)'
      BY <2>3, LruSame DEF LruInv, PuttingGoesOn, Putting
  <2>7. lru' \in [Managers -> Seq(Keys)]
      BY <2>3, <2>4 DEF LruInv
  <2> QED BY <2>5, <2>6, <2>7 DEF LruInv
<1>4. ASSUME NEW t \in Threads, NEW m \in Serving, NEW k \in Keys, LookOnDisk(t, m, k)
      PROVE LruInv'
  <2>1. PICK new : job' = [job EXCEPT ![t] = new]
    <3>1. CASE files[k] = None
        BY <1>4, <3>1 DEF LookOnDisk, FreshInv, JobsHonest
    <3>2. CASE files[k] # None
        BY <1>4, <3>2 DEF LookOnDisk
    <3> QED BY <3>1, <3>2
  <2>2. ASSUME NEW n PROVE PuttingGoesOn(n)
      BY <1>4, <2>1, OthersGoOn DEF LookOnDisk, Begin, At, Putting, FreshInv
  <2>3. LruOK(m)'
    <3>1. lru'[m] = Without(lru[m], k)
        BY <1>4 DEF LookOnDisk, LruInv
    <3>2. \A j \in Keys : mem'[m][j] # None <=> mem[m][j] # None /\ j # k
        BY <1>4 DEF LookOnDisk, FreshInv, StoresHonest
    <3> QED BY <2>2, <3>1, <3>2, LruWithout DEF LruInv
  <2>4. ASSUME NEW n \in Managers \ {m} PROVE LruOK(n)'
    <3>1. lru'[n] = lru[n] /\ mem'[n] = mem[n]
        BY <1>4 DEF LookOnDisk, LruInv, FreshInv, StoresHonest
    <3> QED BY <2>2, <3>1, LruSame DEF LruInv
  <2>5. lru' \in [Managers -> Seq(Keys)]
    <3>1. Without(lru[m], k) \in Seq(Keys)
        BY WithoutKey DEF LruInv, LruOK
    <3> QED BY <1>4, <3>1 DEF LruInv, LookOnDisk
  <2> QED BY <2>3, <2>4, <2>5 DEF LruInv
<1>5. ASSUME NEW t \in Threads, NEW m, NEW k, WriteTmp(t, m, k) \/ ClearBegin(t, m)
      PROVE LruInv'
  <2>1. \E new : job' = [job EXCEPT ![t] = new]
      BY <1>5 DEF WriteTmp, ClearBegin
  <2> QED BY <1>5, <2>1, LruUntouched DEF WriteTmp, ClearBegin, Begin, At
<1>6. ASSUME NEW t \in Threads, ReadFile(t) \/ Judge(t) \/ Rename(t) \/ Stat(t) \/ ClearFile(t)
      PROVE LruInv'
  <2>1. \E new : job' = [job EXCEPT ![t] = new]
    <3>1. job = [job EXCEPT ![t] = job[t]]
        BY DEF FreshInv, JobsHonest
    <3> QED BY <1>6, <3>1 DEF ReadFile, Judge, Rename, Stat, ClearFile, Goto, Done
  <2> QED
      BY <1>6, <2>1, LruUntouched DEF ReadFile, Judge, Rename, Stat, ClearFile, At
<1>7. ASSUME NEW t \in Threads, Assign(t) PROVE LruInv'
  <2>1. PICK m \in Managers, k \in Keys : m = job[t].mgr /\ k = job[t].key
      BY <1>7 DEF Assign, FreshInv, JobsHonest
  <2>1a. job[t].held # None
      BY <1>7 DEF Assign, FreshInv, JobsHonest, Honest
  <2>2. /\ job' = [job EXCEPT ![t].at = job'[t].at]
        /\ job'[t].at \in {"promoted", "stored"}
        /\ job[t].at \notin {"promoted", "stored"}
      BY <1>7 DEF Assign, Goto, At, FreshInv, JobsHonest
  <2>3. Putting(job', t, m) /\ job'[t].key = k
      BY <2>1, <2>2 DEF Putting, FreshInv, JobsHonest
  <2>4. ASSUME NEW n PROVE PuttingGoesOn(n)
      BY <2>1, <2>2, OthersGoOn DEF Putting, FreshInv
  <2>5. mem' = [mem EXCEPT ![m][k] = job[t].held]
      BY <1>7, <2>1 DEF Assign
  <2>6. lru' = IF InLru(m, k) THEN lru ELSE [lru EXCEPT ![m] = Append(@, k)]
      BY <1>7, <2>1 DEF Assign
  <2>7. ASSUME NEW n \in Managers \ {m} PROVE LruOK(n)'
    <3>1. lru'[n] = lru[n] /\ mem'[n] = mem[n]
        BY <2>1, <2>5, <2>6 DEF LruInv, FreshInv, StoresHonest
    <3> QED BY <2>4, <3>1, LruSame DEF LruInv
  <2>8. LruOK(m)'
    <3>1. CASE InLru(m, k)
      <4>1. lru'[m] = lru[m]
          BY <2>6, <3>1
      <4>2. \A j \in Keys : mem'[m][j] # None <=> mem[m][j] # None
          BY <2>1a, <2>5, <3>1 DEF InLru, FreshInv, StoresHonest
      <4> QED BY <2>1, <2>4, <4>1, <4>2, LruSame DEF LruInv
    <3>2. CASE ~InLru(m, k)
      <4> DEFINE l == lru[m]
                 A == Awaiting(job, m, lru[m])
                 B == Awaiting(job', m, lru'[m])
      <4>1. l \in Seq(Keys) /\ Distinct(l) /\ k \notin Elements(l)
          BY <2>1, <3>2 DEF LruInv, LruOK, InLru
      <4>2. lru'[m] = Append(l, k)
          BY <2>1, <2>6, <3>2 DEF LruInv
      <4>3. /\ Append(l, k) \in Seq(Keys) /\ Distinct(Append(l, k))
            /\ Elements(Append(l, k)) = Elements(l) \union {k}
            /\ Len(Append(l, k)) = Len(l) + 1
        <5> HIDE DEF l
        <5> QED BY <2>1, <4>1, AtEnd
      <4>4. A \union {k} \subseteq B /\ k \notin A
          BY <2>3, <2>4, <4>1, <4>2, <4>3 DEF Awaiting, PuttingGoesOn
      <4>5. /\ IsFiniteSet(A) /\ Cardinality(A) \in Nat
            /\ IsFiniteSet(B) /\ Cardinality(B) \in Nat
          BY AwaitingFinite
      <4>6. Cardinality(A) + 1 <= Cardinality(B)
          BY <4>4, <4>5, FS_AddElement, FS_Subset
      <4>7. Len(lru'[m]) <= MemMax + Cardinality(B)
          BY <2>1, <4>1, <4>2, <4>3, <4>5, <4>6, SizeAssumption DEF LruInv, LruOK
      <4>8. Elements(lru'[m]) = {j \in Keys : mem'[m][j] # None}
          BY <2>1a, <2>5, <4>2, <4>3 DEF LruInv, LruOK, FreshInv, StoresHonest
      <4> QED BY <4>2, <4>3, <4>7, <4>8 DEF LruOK
    <3> QED BY <3>1, <3>2
  <2>9. lru' \in [Managers -> Seq(Keys)]
      BY <2>1, <2>6 DEF LruInv
  <2> QED BY <2>7, <2>8, <2>9 DEF LruInv
<1>8. ASSUME NEW t \in Threads, Reorder(t) PROVE LruInv'
  <2>1. PICK m \in Managers, k \in Keys : m = job[t].mgr /\ k = job[t].key
      BY <1>8 DEF Reorder, FreshInv, JobsHonest
  <2> DEFINE l == lru[m]
  <2>2. \E new : job' = [job EXCEPT ![t] = new]
      BY <1>8 DEF Reorder, Goto, Done
  <2>3. ASSUME NEW n \in Managers \ {m} PROVE PuttingGoesOn(n)
      BY <2>1, <2>2, OthersGoOn DEF Putting, FreshInv
  <2>4. l \in Seq(Keys) /\ Distinct(l) /\ Elements(l) = {j \in Keys : mem[m][j] # None}
      BY <2>1 DEF LruInv, LruOK
  <2>5. CASE InLru(m, k)
    <3> DEFINE r == Trimmed(ToEnd(l, k))
    <3>1. /\ ToEnd(l, k) \in Seq(Keys) /\ Distinct(ToEnd(l, k))
          /\ Elements(ToEnd(l, k)) = Elements(l)
      <4> HIDE DEF l
      <4>1. k \in Elements(l)
          BY <2>1, <2>4, <2>5 DEF InLru
      <4>2. /\ Without(l, k) \in Seq(Keys) /\ Distinct(Without(l, k))
            /\ Elements(Without(l, k)) = Elements(l) \ {k}
          BY <2>4, WithoutKey
      <4>3. k \notin Elements(Without(l, k))
          BY <4>2
      <4>4. /\ Append(Without(l, k), k) \in Seq(Keys) /\ Distinct(Append(Without(l, k), k))
            /\ Elements(Append(Without(l, k), k)) = Elements(Without(l, k)) \union {k}
          BY <2>1, <4>2, <4>3, AtEnd
      <4> QED BY <4>1, <4>2, <4>4 DEF ToEnd
    <3>2. /\ r \in Seq(Keys) /\ Distinct(r)
          /\ Elements(r) \subseteq Elements(l) /\ Len(r) <= MemMax
      <4> DEFINE e == ToEnd(l, k)
      <4>1. e \in Seq(Keys) /\ Distinct(e) /\ Elements(e) = Elements(l)
          BY <3>1
      <4> HIDE DEF e
      <4>2. /\ Trimmed(e) \in Seq(Keys) /\ Distinct(Trimmed(e))
            /\ Elements(Trimmed(e)) \subseteq Elements(e) /\ Len(Trimmed(e)) <= MemMax
          BY <4>1, TrimmedTail
      <4> QED BY <4>1, <4>2 DEF e
    <3>3. lru' = [lru EXCEPT ![m] = r]
        BY <1>8, <2>1, <2>5 DEF Reorder
    <3>4. lru'[m] = r
        BY <2>1, <3>3 DEF LruInv
    <3>5. mem' = [mem EXCEPT ![m] = [j \in Keys |-> IF j \in Elements(r) THEN @[j] ELSE None]]
        BY <1>8, <2>1, <2>5, <3>4 DEF Reorder
    <3> HIDE DEF r
    <3>6. LruOK(m)'
      <4>1. \A j \in Keys : mem'[m][j] # None <=> mem[m][j] # None /\ j \in Elements(r)
          BY <2>1, <3>5 DEF FreshInv, StoresHonest
      <4>2. Elements(r) = {j \in Keys : mem'[m][j] # None}
          BY <2>4, <3>2, <4>1
      <4> QED BY <3>2, <3>4, <4>2, LruShort
    <3>7. ASSUME NEW n \in Managers \ {m} PROVE LruOK(n)'
      <4>1. lru'[n] = lru[n] /\ mem'[n] = mem[n]
          BY <2>1, <3>3, <3>5 DEF LruInv, FreshInv, StoresHonest
      <4> QED BY <2>3, <4>1, LruSame DEF LruInv
    <3>8. lru' \in [Managers -> Seq(Keys)]
        BY <3>2, <3>3 DEF LruInv
    <3> QED BY <3>6, <3>7, <3>8 DEF LruInv
  <2>6. CASE ~InLru(m, k)
    <3>1. UNCHANGED <<mem, lru>>
        BY <1>8, <2>1, <2>6 DEF Reorder
    <3>2. k \notin Elements(lru'[m])
        BY <2>4, <2>6, <3>1 DEF InLru
    <3>3. PuttingGoesOn(m)
        BY <2>1, <2>2, <3>2 DEF PuttingGoesOn, Putting, FreshInv, JobsHonest
    <3>4. ASSUME NEW n \in Managers PROVE LruOK(n)'
        BY <2>3, <3>1, <3>3, LruSame DEF LruInv
    <3> QED BY <3>1, <3>4 DEF LruInv
  <2> QED BY <2>5, <2>6
<1>9. ASSUME NEW t \in Threads, Evict(t) PROVE LruInv'
  <2>1. PICK m \in Managers : m = job[t].mgr
      BY <1>9 DEF Evict, At, FreshInv, JobsHonest
  <2>1a. job[t].at \notin {"promoted", "stored"}
      BY <1>9 DEF Evict, At
  <2> DEFINE k == Head(todo[t].list)
  <2>2. \E new : job' = [job EXCEPT ![t] = new]
    <3>1. job = [job EXCEPT ![t] = job[t]]
        BY DEF FreshInv, JobsHonest
    <3> QED BY <1>9, <3>1 DEF Evict, Done
  <2>3. CASE UNCHANGED <<mem, lru>>
      BY <2>1a, <2>2, <2>3, LruUntouched
  <2>4. CASE /\ mem' = [mem EXCEPT ![m][k] = None]
             /\ lru' = [lru EXCEPT ![m] = Without(@, k)]
    <3>1. ASSUME NEW n PROVE PuttingGoesOn(n)
        BY <2>1a, <2>2, OthersGoOn DEF Putting, FreshInv
    <3> HIDE DEF k
    <3>2. LruOK(m)'
      <4>1. lru'[m] = Without(lru[m], k)
          BY <2>1, <2>4 DEF LruInv
      <4>2. \A j \in Keys : mem'[m][j] # None <=> mem[m][j] # None /\ j # k
          BY <2>1, <2>4 DEF FreshInv, StoresHonest
      <4> QED BY <2>1, <3>1, <4>1, <4>2, LruWithout DEF LruInv
    <3>3. ASSUME NEW n \in Managers \ {m} PROVE LruOK(n)'
      <4>1. lru'[n] = lru[n] /\ mem'[n] = mem[n]
          BY <2>1, <2>4 DEF LruInv, FreshInv, StoresHonest
      <4> QED BY <3>1, <4>1, LruSame DEF LruInv
    <3>4. lru' \in [Managers -> Seq(Keys)]
        BY <2>4, WithoutKey DEF LruInv, LruOK
    <3> QED BY <3>2, <3>3, <3>4 DEF LruInv
  <2> QED BY <1>9, <2>1, <2>3, <2>4 DEF Evict
<1>10. ASSUME NEW t \in Threads, ClearLru(t) PROVE LruInv'
  <2>1. PICK m \in Managers : m = job[t].mgr
      BY <1>10 DEF ClearLru, At, FreshInv, JobsHonest
  <2>2. ASSUME NEW n PROVE PuttingGoesOn(n)
      BY <1>10, OthersGoOn DEF ClearLru, At, Done, Putting, FreshInv
  <2>3. /\ lru' = [lru EXCEPT ![m] = <<>>]
        /\ mem' = [mem EXCEPT ![m] = [k \in Keys |-> None]]
      BY <1>10, <2>1 DEF ClearLru, NoEntries
  <2>4. LruOK(m)'
    <3>1. lru'[m] = <<>> /\ mem'[m] = [k \in Keys |-> None]
        BY <2>1, <2>3 DEF LruInv, FreshInv, StoresHonest
    <3> QED BY <3>1, LruEmpty
  <2>5. ASSUME NEW n \in Managers \ {m} PROVE LruOK(n)'
    <3>1. lru'[n] = lru[n] /\ mem'[n] = mem[n]
        BY <2>1, <2>3 DEF LruInv, FreshInv, StoresHonest
    <3> QED BY <2>2, <3>1, LruSame DEF LruInv
  <2>6. lru' \in [Managers -> Seq(Keys)]
      BY <2>3 DEF LruInv
  <2> QED BY <2>4, <2>5, <2>6 DEF LruInv
<1>11. ASSUME NEW t \in Threads, Call(t) PROVE LruInv'
  <2>1. ASSUME NEW m \in Serving, NEW k \in Keys,
               HitInMemory(t, m, k) \/ LookOnDisk(t, m, k) \/ WriteTmp(t, m, k)
        PROVE LruInv'
      BY <1>3, <1>4, <1>5, <2>1
  <2> QED BY <1>5, <1>11, <2>1 DEF Call
<1>12. ASSUME NEW t \in Threads, Step(t) PROVE LruInv'
    BY <1>6, <1>7, <1>8, <1>9, <1>10, <1>12 DEF Step
<1> QED BY <1>1, <1>2, <1>11, <1>12 DEF Next

\* However many threads put into it at once, the LRU of a manager is at most as
\* many entries above _MEM_LRU_MAX as there are puts under way (cache.py:111-116).
THEOREM LruStaysBounded == Spec => []LruBounded
<1>1. LruInv => LruBounded
  <2> SUFFICES ASSUME LruInv, NEW m \in Managers
               PROVE Len(lru[m]) <= MemMax + Cardinality({t \in Threads : job[t].at \in {"promoted", "stored"}})
      BY DEF LruBounded
  <2>1. lru[m] \in Seq(Keys) /\ Len(lru[m]) <= MemMax + Cardinality(Awaiting(job, m, lru[m]))
      BY DEF LruInv, LruOK
  <2> DEFINE A == Cardinality(Awaiting(job, m, lru[m]))
             T == Cardinality({t \in Threads : job[t].at \in {"promoted", "stored"}})
  <2>2. A \in Nat /\ T \in Nat /\ A <= T
      BY AwaitingFinite
  <2> HIDE DEF A, T
  <2>3. Len(lru[m]) <= MemMax + A
      BY <2>1 DEF A
  <2>4. Len(lru[m]) <= MemMax + T
      BY <2>1, <2>2, <2>3, SizeAssumption
  <2> QED BY <2>4 DEF T
<1> QED BY <1>1, LruInit, LruStep, EntriesHonest, PTL DEF Spec

-----------------------------------------------------------------------------
\* The directory: age lists the files, once each.
FilesListed ==
    /\ age \in Seq(Keys) /\ Distinct(age)
    /\ Elements(age) = {k \in Keys : files[k] # None}

TodoTyped == todo \in [Threads -> [list : Seq(Keys), excess : Nat]]

\* Has written a file and will take stock of the directory
Writes(t) == job[t].at \in {"store", "stored", "stat"}

\* Is going to delete what is too much
Sweeps(t) ==
    /\ job[t].at = "evict"
    /\ Elements(age) \subseteq Elements(todo[t].list)
    /\ Len(age) <= MaxFiles + todo[t].excess

\* With nobody left who will take stock, the directory is within the limit or
\* somebody is bringing it there.
DirectoryKept ==
    ~unenforced /\ (\A t \in Threads : ~Writes(t)) =>
        Len(age) <= MaxFiles \/ \E t \in Threads : Sweeps(t)

DirInv == FilesListed /\ TodoTyped /\ unenforced \in BOOLEAN /\ raced \in BOOLEAN /\ DirectoryKept

\* unlink takes one key out of the listing.
LEMMA UnlinkedListing ==
    ASSUME FreshInv, FilesListed, NEW k, Unlink(k)
    PROVE  /\ FilesListed' /\ Elements(age') = Elements(age) \ {k}
           /\ Len(age) \in Nat /\ Len(age') \in Nat /\ Len(age') <= Len(age)
           /\ k \in Keys /\ files[k] # None => Len(age') = Len(age) - 1
<1>1. /\ age' \in Seq(Keys) /\ Distinct(age') /\ Elements(age') = Elements(age) \ {k}
      /\ k \in Elements(age) => Len(age') = Len(age) - 1
      /\ k \notin Elements(age) => age' = age
  BY WithoutKey DEF Unlink, FilesListed
<1>2. Len(age) \in Nat /\ Len(age') \in Nat /\ Len(age') <= Len(age)
  BY <1>1 DEF FilesListed
<1>3. \A j \in Keys : files'[j] # None <=> files[j] # None /\ j # k
  BY DEF Unlink, FreshInv, StoresHonest
<1>4. Elements(age') = {j \in Keys : files'[j] # None}
  BY <1>1, <1>3 DEF FilesListed
<1>5. k \in Keys /\ files[k] # None => k \in Elements(age)
  BY DEF FilesListed
<1> QED  BY <1>1, <1>2, <1>4, <1>5 DEF FilesListed

\* Writing a file puts its key at the end of the listing.
LEMMA WrittenListing ==
    ASSUME FreshInv, FilesListed, NEW k \in Keys, NEW f, f # None,
           files' = [files EXCEPT ![k] = f], age' = ToEnd(age, k)
    PROVE  FilesListed'
<1> DEFINE w == Without(age, k)
<1>1. w \in Seq(Keys) /\ Distinct(w) /\ Elements(w) = Elements(age) \ {k}
  BY WithoutKey DEF FilesListed
<1>2. age' = Append(w, k)
  BY DEF ToEnd
<1> HIDE DEF w
<1>3. /\ Append(w, k) \in Seq(Keys) /\ Distinct(Append(w, k))
      /\ Elements(Append(w, k)) = Elements(w) \union {k}
  BY <1>1, AtEnd
<1>4. \A j \in Keys : files'[j] # None <=> files[j] # None \/ j = k
  BY DEF FreshInv, StoresHonest
<1> QED  BY <1>1, <1>2, <1>3, <1>4 DEF FilesListed

\* A step that takes no file in, of a thread that does not write, or that ends
\* its writing only when the directory is within the limit.
LEMMA NothingAdded ==
    ASSUME DirInv, FreshInv, NEW t \in Threads, \A u \in Threads \ {t} : job'[u] = job[u],
           \A u \in Threads \ {t} : todo'[u] = todo[u],
           ~Writes(t), ~Sweeps(t), age' \in Seq(Keys),
           Elements(age') \subseteq Elements(age), Len(age') <= Len(age), unenforced' = unenforced
    PROVE  DirectoryKept'
<1> SUFFICES ASSUME ~unenforced, \A u \in Threads : ~Writes(u)'
             PROVE  Len(age') <= MaxFiles \/ \E u \in Threads : Sweeps(u)'
  BY DEF DirectoryKept
<1>0. Len(age) \in Nat /\ Len(age') \in Nat
  BY DEF DirInv, FilesListed
<1>1. \A u \in Threads : ~Writes(u)
  BY DEF Writes
<1>2. CASE Len(age) <= MaxFiles
  BY <1>0, <1>2, SizeAssumption
<1>3. CASE \E u \in Threads : Sweeps(u)
  <2>1. PICK u \in Threads \ {t} : Sweeps(u)
    BY <1>3
  <2>2. todo[u].excess \in Nat
    BY DEF DirInv, TodoTyped
  <2>3. Len(age') <= MaxFiles + todo[u].excess
    BY <1>0, <2>1, <2>2, SizeAssumption DEF Sweeps
  <2>4. Sweeps(u)'
    BY <2>1, <2>3 DEF Sweeps
  <2> QED  BY <2>4
<1> QED  BY <1>1, <1>2, <1>3 DEF DirInv, DirectoryKept

\* The empty directory that the first process finds
LEMMA DirStarts == Init => DirInv
<1> SUFFICES ASSUME Init PROVE DirInv
  OBVIOUS
<1>1. FilesListed
  <2>1. {k \in Keys : files[k] # None} = {}
    BY DEF Init, NoEntries
  <2> QED  BY <2>1 DEF Init, FilesListed, Distinct, Elements
<1>2. TodoTyped
  <2>1. NothingToDo \in [list : Seq(Keys), excess : Nat]
    BY DEF NothingToDo
  <2> QED  BY <2>1 DEF Init, TodoTyped
<1>3. Len(age) <= MaxFiles
  BY SizeAssumption DEF Init
<1> QED  BY <1>1, <1>2, <1>3 DEF Init, DirInv, DirectoryKept

\* A thread goes on; the others stay where they are.
LEMMA OneGoes ==
    ASSUME FreshInv, NEW t \in Threads, NEW new, job' = [job EXCEPT ![t] = new]
    PROVE  job'[t] = new /\ \A u \in Threads \ {t} : job'[u] = job[u]
  BY DEF FreshInv, JobsHonest

\* Every step of a thread moves that thread alone.
LEMMA GoesOn ==
    ASSUME FreshInv, NEW t \in Threads, Call(t) \/ Step(t)
    PROVE  \E new : job' = [job EXCEPT ![t] = new]
<1>1. job = [job EXCEPT ![t] = job[t]]
  BY DEF FreshInv, JobsHonest
<1>2. ASSUME NEW m \in Serving, NEW k \in Keys, HitInMemory(t, m, k) \/ LookOnDisk(t, m, k) \/ WriteTmp(t, m, k)
      PROVE  \E new : job' = [job EXCEPT ![t] = new]
  <2>1. CASE HitInMemory(t, m, k)
    BY <1>1, <2>1 DEF HitInMemory
  <2>2. CASE LookOnDisk(t, m, k)
    BY <1>1, <2>2 DEF LookOnDisk
  <2>3. CASE WriteTmp(t, m, k)
    BY <2>3 DEF WriteTmp
  <2> QED  BY <1>2, <2>1, <2>2, <2>3
<1>3. ASSUME NEW m \in Managers, ClearBegin(t, m)
      PROVE  \E new : job' = [job EXCEPT ![t] = new]
  BY <1>3 DEF ClearBegin
<1>4. CASE ReadFile(t)
  BY <1>4 DEF ReadFile, Done
<1>5. CASE Judge(t)
  BY <1>5 DEF Judge, Done, Goto
<1>6. CASE Rename(t)
  BY <1>6 DEF Rename, Done, Goto
<1>7. CASE Assign(t)
  BY <1>7 DEF Assign, Goto
<1>8. CASE Reorder(t)
  BY <1>8 DEF Reorder, Done, Goto
<1>9. CASE Stat(t)
  BY <1>9 DEF Stat, Done, Goto
<1>10. CASE Evict(t)
  BY <1>1, <1>10 DEF Evict, Done
<1>11. CASE ClearFile(t)
  BY <1>1, <1>11 DEF ClearFile, Done
<1>12. CASE ClearLru(t)
  BY <1>12 DEF ClearLru, Done
<1> QED
  BY <1>2, <1>3, <1>4, <1>5, <1>6, <1>7, <1>8, <1>9, <1>10, <1>11, <1>12 DEF Call, Step

\* What a step of a thread makes of its own list
LEMMA TodoIs ==
    ASSUME TodoTyped, NEW t \in Threads, NEW l \in Seq(Keys), NEW n \in Nat,
           todo' = [todo EXCEPT ![t] = [list |-> l, excess |-> n]]
    PROVE  /\ TodoTyped' /\ todo'[t].list = l /\ todo'[t].excess = n
           /\ \A u \in Threads \ {t} : todo'[u] = todo[u]
  BY DEF TodoTyped

\* or leaves of it
LEMMA TodoLeft ==
    ASSUME TodoTyped, NEW t \in Threads, NEW l \in Seq(Keys),
           todo' = [todo EXCEPT ![t].list = l]
    PROVE  /\ TodoTyped' /\ todo'[t].list = l /\ todo'[t].excess = todo[t].excess
           /\ \A u \in Threads \ {t} : todo'[u] = todo[u]
<1> DEFINE r == [todo[t] EXCEPT !.list = l]
<1>1. todo[t] \in [list : Seq(Keys), excess : Nat]
  BY DEF TodoTyped
<1>2. r \in [list : Seq(Keys), excess : Nat] /\ r.list = l /\ r.excess = todo[t].excess
  BY <1>1
<1>3. todo' = [todo EXCEPT ![t] = r]
  OBVIOUS
<1> HIDE DEF r
<1> QED  BY <1>2, <1>3 DEF TodoTyped

\* Head and Tail of a list of keys
LEMMA RestOfList ==
    ASSUME NEW S, NEW l \in Seq(S), l # <<>>
    PROVE  /\ Head(l) \in S /\ Head(l) \in Elements(l) /\ Tail(l) \in Seq(S)
           /\ Elements(l) = Elements(Tail(l)) \union {Head(l)}
<1>1. Len(l) \in Nat \ {0} /\ Head(l) = l[1]
  OBVIOUS
<1>2. Tail(l) \in Seq(S) /\ Len(Tail(l)) = Len(l) - 1 /\ \A i \in 1 .. Len(l) - 1 : Tail(l)[i] = l[i + 1]
  BY <1>1
<1>4. \A x : x \in Elements(l) <=> x \in Elements(Tail(l)) \/ x = Head(l)
  <2> TAKE x
  <2>1. ASSUME x \in Elements(l) PROVE x \in Elements(Tail(l)) \/ x = Head(l)
    <3>1. PICK i \in 1 .. Len(l) : l[i] = x
      BY <2>1 DEF Elements
    <3>2. CASE i = 1
      BY <1>1, <3>1, <3>2
    <3>3. CASE i # 1
      <4>1. i - 1 \in 1 .. Len(l) - 1 /\ (i - 1) + 1 = i
        BY <1>1, <3>3
      <4>2. Tail(l)[i - 1] = x
        BY <1>2, <3>1, <4>1
      <4>3. i - 1 \in DOMAIN Tail(l)
        BY <1>2, <4>1
      <4> QED  BY <4>2, <4>3 DEF Elements
    <3> QED  BY <3>2, <3>3
  <2>2. ASSUME x \in Elements(Tail(l)) PROVE x \in Elements(l)
    <3>1. PICK i \in 1 .. Len(l) - 1 : Tail(l)[i] = x
      BY <2>2, <1>1, <1>2 DEF Elements
    <3>2. i + 1 \in 1 .. Len(l) /\ l[i + 1] = x
      BY <1>1, <1>2, <3>1
    <3> QED  BY <3>2 DEF Elements
  <2>3. Head(l) \in Elements(l)
    BY <1>1 DEF Elements
  <2> QED  BY <2>1, <2>2, <2>3
<1>5. Head(l) \in Elements(l)
  BY <1>4
<1> QED  BY <1>1, <1>2, <1>4, <1>5

\* _enforce_cache_limit looks at the directory.
LEMMA StatKeeps ==
    ASSUME FreshInv, DirInv, NEW t \in Threads, Stat(t)
    PROVE  DirInv'
<1>1. UNCHANGED <<files, age, raced>> /\ unenforced' = FALSE
  BY DEF Stat
<1>2. FilesListed'
  BY <1>1 DEF DirInv, FilesListed
<1>3. Len(age) \in Nat /\ age \in Seq(Keys)
  BY DEF DirInv, FilesListed
<1>4. CASE Len(age) <= MaxFiles
  <2>1. todo' = todo
    BY <1>4 DEF Stat
  <2>2. DirectoryKept'
    BY <1>1, <1>4 DEF DirectoryKept
  <2> QED  BY <1>1, <1>2, <2>1, <2>2 DEF DirInv, TodoTyped
<1>5. CASE ~(Len(age) <= MaxFiles)
  <2>1. Len(age) - MaxFiles \in Nat /\ MaxFiles + (Len(age) - MaxFiles) = Len(age)
    BY <1>3, <1>5, SizeAssumption
  <2> DEFINE n == Len(age) - MaxFiles
  <2>2. job' = [job EXCEPT ![t].at = "evict"] /\ todo' = [todo EXCEPT ![t] = [list |-> age, excess |-> n]]
    BY <1>5 DEF Stat, Goto
  <2> HIDE DEF n
  <2>6. n \in Nat
    BY <2>1 DEF n
  <2>3. TodoTyped' /\ todo'[t].list = age /\ todo'[t].excess = n
    BY <1>3, <2>2, <2>6, TodoIs DEF DirInv
  <2>4. job'[t].at = "evict"
    BY <2>2 DEF FreshInv, JobsHonest
  <2>5. Sweeps(t)'
    BY <1>1, <1>3, <2>1, <2>3, <2>4 DEF Sweeps, n
  <2> QED  BY <1>1, <1>2, <2>3, <2>5 DEF DirInv, DirectoryKept
<1> QED  BY <1>4, <1>5

\* _enforce_cache_limit deletes a file.
LEMMA EvictKeeps ==
    ASSUME FreshInv, DirInv, NEW t \in Threads, Evict(t)
    PROVE  DirInv'
<1> DEFINE l == todo[t].list
           n == todo[t].excess
           k == Head(l)
<1>0. job[t].at = "evict" /\ UNCHANGED <<unenforced, raced>>
  BY DEF Evict, At
<1>a. l \in Seq(Keys) /\ n \in Nat
  BY DEF DirInv, TodoTyped
<1>b. Len(age) \in Nat /\ age \in Seq(Keys) /\ Elements(age) = {j \in Keys : files[j] # None}
  BY DEF DirInv, FilesListed
<1>1. CASE n = 0 \/ l = <<>>
  <2>1. todo' = [todo EXCEPT ![t] = [list |-> <<>>, excess |-> 0]] /\ job' = [job EXCEPT ![t] = Idle]
        /\ UNCHANGED <<files, age>>
    BY <1>1 DEF Evict, Done, NothingToDo
  <2>2. TodoTyped' /\ \A u \in Threads \ {t} : todo'[u] = todo[u]
    <3>1. <<>> \in Seq(Keys) /\ 0 \in Nat
      OBVIOUS
    <3> QED  BY <2>1, <3>1, TodoIs DEF DirInv
  <2>3. \A u \in Threads \ {t} : job'[u] = job[u]
    BY <2>1, OneGoes
  <2>4. FilesListed'
    BY <2>1 DEF DirInv, FilesListed
  <2>5. Sweeps(t) => Len(age) <= MaxFiles
    <3>1. CASE n = 0
      BY <1>b, <3>1, SizeAssumption DEF Sweeps
    <3>2. CASE l = <<>>
      <4>1. Sweeps(t) => Elements(age) = {}
        BY <3>2 DEF Sweeps, Elements
      <4>2. Elements(age) = {} => Len(age) = 0
        BY <1>b DEF Elements
      <4> QED  BY <4>1, <4>2, SizeAssumption
    <3> QED  BY <1>1, <3>1, <3>2
  <2>6. DirectoryKept'
    <3>1. CASE Sweeps(t)
      BY <2>1, <2>5, <3>1 DEF DirectoryKept
    <3>2. CASE ~Sweeps(t)
      BY <1>0, <1>b, <2>1, <2>2, <2>3, <3>2, NothingAdded DEF Writes
    <3> QED  BY <3>1, <3>2
  <2> QED  BY <1>0, <2>2, <2>4, <2>6 DEF DirInv
<1>2. CASE n # 0 /\ l # <<>>
  <2> HIDE DEF l, n
  <2>1. k \in Keys /\ Tail(l) \in Seq(Keys) /\ Elements(l) = Elements(Tail(l)) \union {k}
    BY <1>a, <1>2, RestOfList
  <2> HIDE DEF k
  <2>2. job' = job
    BY <1>2 DEF Evict, l, n
  <2>3. CASE files[k] = None
    <3>1. todo' = [todo EXCEPT ![t].list = Tail(l)] /\ UNCHANGED <<files, age>>
      BY <1>2, <2>3 DEF Evict, l, n, k
    <3>2. /\ TodoTyped' /\ todo'[t].list = Tail(l) /\ todo'[t].excess = n
          /\ \A u \in Threads \ {t} : todo'[u] = todo[u]
      BY <2>1, <3>1, TodoLeft DEF DirInv, n
    <3>3. k \notin Elements(age)
      BY <1>b, <2>3
    <3>4. Sweeps(t) => Sweeps(t)'
      BY <2>1, <2>2, <3>1, <3>2, <3>3 DEF Sweeps, l, n
    <3>5. DirectoryKept'
      <4>1. CASE Sweeps(t)
        BY <3>4, <4>1 DEF DirectoryKept
      <4>2. CASE ~Sweeps(t)
        BY <1>0, <1>b, <2>2, <3>1, <3>2, <4>2, NothingAdded DEF Writes
      <4> QED  BY <4>1, <4>2
    <3>6. FilesListed'
      BY <3>1 DEF DirInv, FilesListed
    <3> QED  BY <1>0, <3>2, <3>5, <3>6 DEF DirInv
  <2>4. CASE files[k] # None
    <3>1. todo' = [todo EXCEPT ![t] = [list |-> Tail(l), excess |-> n - 1]] /\ Unlink(k)
      BY <1>2, <2>4 DEF Evict, l, n, k
    <3>2. n - 1 \in Nat
      BY <1>a, <1>2
    <3>3. /\ TodoTyped' /\ todo'[t].list = Tail(l) /\ todo'[t].excess = n - 1
          /\ \A u \in Threads \ {t} : todo'[u] = todo[u]
      BY <2>1, <3>1, <3>2, TodoIs DEF DirInv
    <3>4. /\ FilesListed' /\ Elements(age') = Elements(age) \ {k} /\ Len(age') = Len(age) - 1
          /\ Len(age') \in Nat
      BY <2>1, <2>4, <3>1, UnlinkedListing DEF DirInv
    <3>5. Sweeps(t) => Sweeps(t)'
      <4> SUFFICES ASSUME Sweeps(t) PROVE Sweeps(t)'
        OBVIOUS
      <4>1. Elements(age) \subseteq Elements(l) /\ Len(age) <= MaxFiles + n
        BY DEF Sweeps, l, n
      <4>2. Elements(age') \subseteq Elements(Tail(l))
        BY <2>1, <3>4, <4>1
      <4>3. Len(age') <= MaxFiles + (n - 1)
        BY <1>a, <1>b, <3>4, <4>1, SizeAssumption
      <4> QED  BY <1>0, <2>2, <3>3, <4>2, <4>3 DEF Sweeps
    <3>6. DirectoryKept'
      <4>1. CASE Sweeps(t)
        BY <3>5, <4>1 DEF DirectoryKept
      <4>2. CASE ~Sweeps(t)
        <5>1. age' \in Seq(Keys) /\ Elements(age') \subseteq Elements(age) /\ Len(age') <= Len(age)
          BY <1>b, <3>4 DEF FilesListed
        <5> QED  BY <1>0, <2>2, <3>3, <4>2, <5>1, NothingAdded DEF Writes
      <4> QED  BY <4>1, <4>2
    <3> QED  BY <1>0, <3>3, <3>4, <3>6 DEF DirInv
  <2> QED  BY <2>3, <2>4
<1> QED  BY <1>1, <1>2

\* Every other step of a thread
LEMMA StepKeepsDirectory ==
    ASSUME FreshInv, DirInv, NEW t \in Threads,
           \/ \E m \in Serving, k \in Keys : HitInMemory(t, m, k) \/ LookOnDisk(t, m, k) \/ WriteTmp(t, m, k)
           \/ \E m \in Managers : ClearBegin(t, m)
           \/ ReadFile(t) \/ Judge(t) \/ Rename(t) \/ Assign(t) \/ Reorder(t) \/ ClearFile(t) \/ ClearLru(t)
    PROVE  DirInv'
<1>a. PICK new : job' = [job EXCEPT ![t] = new]
  BY GoesOn DEF Call, Step
<1>b. job'[t] = new /\ \A u \in Threads \ {t} : job'[u] = job[u]
  BY <1>a, OneGoes
<1>c. /\ age \in Seq(Keys) /\ Len(age) \in Nat /\ Len(age) <= Len(age)
      /\ Elements(age) = {k \in Keys : files[k] # None}
  BY DEF DirInv, FilesListed
<1>d. raced' \in BOOLEAN
  BY DEF DirInv, HitInMemory, LookOnDisk, WriteTmp, ClearBegin, Begin, ReadFile, Judge, Rename, Assign, Reorder,
         ClearFile, ClearLru
<1>e. ASSUME UNCHANGED <<files, age, unenforced>>, TodoTyped', \A u \in Threads \ {t} : todo'[u] = todo[u],
             ~Writes(t), ~Sweeps(t)
      PROVE  DirInv'
  <2>1. FilesListed'
    BY <1>e DEF DirInv, FilesListed
  <2>2. DirectoryKept'
    BY <1>b, <1>c, <1>e, NothingAdded
  <2> QED  BY <1>d, <1>e, <2>1, <2>2 DEF DirInv
<1>f. ASSUME UNCHANGED todo
      PROVE  TodoTyped' /\ \A u \in Threads \ {t} : todo'[u] = todo[u]
  BY <1>f DEF DirInv, TodoTyped
<1>g. ASSUME FilesListed', TodoTyped', unenforced' = unenforced, Writes(t)'
      PROVE  DirInv'
  BY <1>d, <1>g DEF DirInv, DirectoryKept
<1>1. ASSUME NEW m \in Serving, NEW k \in Keys, HitInMemory(t, m, k) \/ LookOnDisk(t, m, k) \/ WriteTmp(t, m, k)
      PROVE  DirInv'
  <2>1. UNCHANGED <<files, age, unenforced, todo>> /\ job[t].at = "idle"
    BY <1>1 DEF HitInMemory, LookOnDisk, WriteTmp, Begin, At
  <2> QED  BY <1>e, <1>f, <2>1 DEF Writes, Sweeps
<1>2. ASSUME NEW m \in Managers, ClearBegin(t, m)
      PROVE  DirInv'
  <2>1. UNCHANGED <<files, age, unenforced>> /\ job[t].at = "idle" /\ todo' = [todo EXCEPT ![t].list = age]
    BY <1>2 DEF ClearBegin, Begin, At
  <2>2. TodoTyped' /\ \A u \in Threads \ {t} : todo'[u] = todo[u]
    BY <1>c, <2>1, TodoLeft DEF DirInv
  <2> QED  BY <1>e, <2>1, <2>2 DEF Writes, Sweeps
<1>3. CASE ReadFile(t)
  BY <1>3, <1>e, <1>f DEF ReadFile, At, Writes, Sweeps
<1>4. ASSUME job[t].at \in {"judge", "clear"}, NEW k, Unlink(k), unenforced' = unenforced,
             TodoTyped', \A u \in Threads \ {t} : todo'[u] = todo[u]
      PROVE  DirInv'
  <2>1. /\ FilesListed' /\ Elements(age') \subseteq Elements(age) /\ Len(age') <= Len(age)
        /\ age' \in Seq(Keys)
    BY <1>4, UnlinkedListing DEF DirInv, FilesListed
  <2>2. ~Writes(t) /\ ~Sweeps(t)
    BY <1>4 DEF Writes, Sweeps
  <2>3. DirectoryKept'
    BY <1>4, <1>b, <2>1, <2>2, NothingAdded
  <2> QED  BY <1>d, <1>4, <2>1, <2>3 DEF DirInv
<1>5. CASE Judge(t)
  <2>1. job[t].at = "judge" /\ UNCHANGED <<unenforced, todo>>
    BY <1>5 DEF Judge, At
  <2>2. CASE Unlink(job[t].key)
    BY <1>4, <1>f, <2>1, <2>2
  <2>3. CASE UNCHANGED <<files, age>>
    BY <1>e, <1>f, <2>1, <2>3 DEF Writes, Sweeps
  <2> QED  BY <1>5, <2>2, <2>3 DEF Judge
<1>6. CASE Rename(t)
  <2> DEFINE k == job[t].key
  <2>1. job[t].at = "rename" /\ UNCHANGED <<unenforced, todo>>
    BY <1>6 DEF Rename, At
  <2>2. k \in Keys /\ job[t].held \in Honest /\ job[t].held # None /\ Garbled # None
    BY <2>1, MarkAssumption DEF FreshInv, JobsHonest, Honest
  <2>3. CASE tmp[k] # None
    <3>1. PICK f : f # None /\ files' = [files EXCEPT ![k] = f]
      BY <1>6, <2>2, <2>3 DEF Rename
    <3>2. age' = ToEnd(age, k)
      BY <1>6, <2>3 DEF Rename, ToEnd
    <3>3. FilesListed'
      BY <2>2, <3>1, <3>2, WrittenListing DEF DirInv
    <3>4. job'[t].at = "store"
      BY <1>6, <2>3 DEF Rename, Goto, FreshInv, JobsHonest
    <3> QED  BY <1>f, <1>g, <2>1, <3>3, <3>4 DEF Writes
  <2>4. CASE tmp[k] = None
    <3>1. PICK f \in {files[k]} \union (IF files[k] = None THEN {} ELSE {job[t].held, Garbled}) :
            files' = [files EXCEPT ![k] = f] /\ age' = IF f = files[k] THEN age ELSE ToEnd(age, k)
      BY <1>6, <2>4 DEF Rename
    <3>2. CASE f = files[k]
      <4>1. files' = files /\ age' = age
        BY <3>1, <3>2 DEF FreshInv, StoresHonest
      <4> QED  BY <1>e, <1>f, <2>1, <4>1 DEF Writes, Sweeps
    <3>3. CASE f # files[k]
      <4>1. f # None /\ files[k] # None
        BY <2>2, <3>1, <3>3
      <4>2. FilesListed'
        BY <2>2, <3>1, <3>3, <4>1, WrittenListing DEF DirInv
      <4>3. /\ age' \in Seq(Keys) /\ Elements(age') \subseteq Elements(age) /\ Len(age') <= Len(age)
        <5>1. k \in Elements(age)
          BY <1>c, <2>2, <4>1
        <5> DEFINE w == Without(age, k)
        <5>2. w \in Seq(Keys) /\ Elements(w) = Elements(age) \ {k} /\ Len(w) = Len(age) - 1
          BY <1>c, <5>1, WithoutKey DEF DirInv, FilesListed
        <5>3. age' = Append(w, k)
          BY <3>1, <3>3 DEF ToEnd
        <5> HIDE DEF w
        <5>4. Append(w, k) \in Seq(Keys) /\ Len(Append(w, k)) = Len(w) + 1
          BY <2>2, <5>2
        <5>5. Elements(age') \subseteq Elements(age)
          <6>1. Elements(age') = {j \in Keys : files'[j] # None}
            BY <4>2 DEF FilesListed
          <6>2. \A j \in Keys : files'[j] # None => files[j] # None
            BY <3>1, <4>1 DEF FreshInv, StoresHonest
          <6> QED  BY <1>c, <6>1, <6>2
        <5> QED  BY <1>c, <5>2, <5>3, <5>4, <5>5
      <4>4. DirectoryKept'
        BY <1>b, <1>f, <2>1, <4>3, NothingAdded DEF Writes, Sweeps
      <4> QED  BY <1>d, <1>f, <2>1, <4>2, <4>4 DEF DirInv
    <3> QED  BY <3>2, <3>3
  <2> QED  BY <2>3, <2>4
<1>7. CASE Assign(t)
  <2>1. UNCHANGED <<files, age, unenforced, todo>> /\ job[t].at \in {"promote", "store"}
    BY <1>7 DEF Assign
  <2>2. CASE job[t].at = "promote"
    BY <1>e, <1>f, <2>1, <2>2 DEF Writes, Sweeps
  <2>3. CASE job[t].at = "store"
    <3>1. job'[t].at = "stored"
      BY <1>7, <2>3 DEF Assign, At, Goto, FreshInv, JobsHonest
    <3>2. FilesListed'
      BY <2>1 DEF DirInv, FilesListed
    <3> QED  BY <1>f, <1>g, <2>1, <3>1, <3>2 DEF Writes
  <2> QED  BY <2>1, <2>2, <2>3
<1>8. CASE Reorder(t)
  <2>1. UNCHANGED <<files, age, todo>> /\ job[t].at \in {"promoted", "stored"}
    BY <1>8 DEF Reorder
  <2>2. unenforced' \in BOOLEAN
    BY <1>8 DEF Reorder, DirInv
  <2>3. CASE job[t].at = "promoted"
    <3>1. unenforced' = unenforced
      BY <1>8, <2>3 DEF Reorder, DirInv, At
    <3> QED  BY <1>e, <1>f, <2>1, <2>3, <3>1 DEF Writes, Sweeps
  <2>4. CASE job[t].at = "stored"
    <3>1. FilesListed'
      BY <2>1 DEF DirInv, FilesListed
    <3>2. CASE InLru(job[t].mgr, job[t].key)
      <4>1. unenforced' = unenforced /\ job'[t].at = "stat"
        BY <1>8, <2>4, <3>2 DEF Reorder, At, Goto, FreshInv, JobsHonest
      <4> QED  BY <1>f, <1>g, <2>1, <3>1, <4>1 DEF Writes
    <3>3. CASE ~InLru(job[t].mgr, job[t].key)
      <4>1. unenforced' = TRUE
        BY <1>8, <2>4, <3>3 DEF Reorder, At
      <4> QED  BY <1>d, <1>f, <2>1, <3>1, <4>1 DEF DirInv, DirectoryKept
    <3> QED  BY <3>2, <3>3
  <2> QED  BY <2>1, <2>3, <2>4
<1>9. CASE ClearFile(t)
  <2>1. job[t].at = "clear" /\ UNCHANGED unenforced /\ todo[t].list # <<>>
    BY <1>9 DEF ClearFile, At
  <2>2. todo[t].list \in Seq(Keys) /\ <<>> \in Seq(Keys) /\ 0 \in Nat
    BY DEF DirInv, TodoTyped
  <2>3. Tail(todo[t].list) \in Seq(Keys)
    BY <2>1, <2>2
  <2>4. \/ todo' = [todo EXCEPT ![t] = [list |-> <<>>, excess |-> 0]] /\ UNCHANGED <<files, age>>
        \/ todo' = [todo EXCEPT ![t].list = Tail(todo[t].list)] /\ Unlink(Head(todo[t].list))
    BY <1>9 DEF ClearFile, NothingToDo
  <2>5. TodoTyped' /\ \A u \in Threads \ {t} : todo'[u] = todo[u]
    <3>1. CASE todo' = [todo EXCEPT ![t] = [list |-> <<>>, excess |-> 0]]
      BY <2>2, <3>1, TodoIs DEF DirInv
    <3>2. CASE todo' = [todo EXCEPT ![t].list = Tail(todo[t].list)]
      BY <2>3, <3>2, TodoLeft DEF DirInv
    <3> QED  BY <2>4, <3>1, <3>2
  <2>6. CASE UNCHANGED <<files, age>>
    BY <1>e, <2>1, <2>5, <2>6 DEF Writes, Sweeps
  <2>7. CASE Unlink(Head(todo[t].list))
    BY <1>4, <2>1, <2>5, <2>7
  <2> QED  BY <2>4, <2>6, <2>7
<1>10. CASE ClearLru(t)
  BY <1>10, <1>e, <1>f DEF ClearLru, At, Writes, Sweeps
<1> QED
  BY <1>1, <1>2, <1>3, <1>5, <1>6, <1>7, <1>8, <1>9, <1>10

\* The directory between two processes
LEMMA RestartKeepsDirectory ==
    ASSUME FreshInv, DirInv, Restart
    PROVE  DirInv'
<1>1. PICK gone \in SUBSET Keys :
        /\ files' = [k \in Keys |-> IF k \in gone THEN None ELSE files[k]]
        /\ age' = Filtered(age, Keys \ gone)
  BY DEF Restart
<1>2. age \in Seq(Keys) /\ Distinct(age) /\ Elements(age) = {k \in Keys : files[k] # None}
  BY DEF DirInv, FilesListed
<1>3. Len(age) \in Nat /\ DOMAIN age = 1 .. Len(age)
  BY <1>2
<1> DEFINE kept == Keys \ gone
           r == Filtered(age, kept)
<1> HIDE DEF kept
<1>4. /\ r \in Seq(Keys) /\ Len(r) <= Len(age)
      /\ \A n \in 1 .. Len(r) : r[n] \in kept /\ \E j \in 1 .. Len(age) : age[j] = r[n]
      /\ \A j \in 1 .. Len(age) : age[j] \in kept => \E n \in 1 .. Len(r) : r[n] = age[j]
      /\ (\A i, j \in 1 .. Len(age) : age[i] = age[j] => i = j) => \A i, j \in 1 .. Len(r) : r[i] = r[j] => i = j
  BY <1>2, FilteredFacts
<1> HIDE DEF r
<1> USE DEF kept
<1>5. DOMAIN r = 1 .. Len(r) /\ Len(r) \in Nat
  BY <1>4
<1>6. Distinct(r)
  BY <1>2, <1>3, <1>4, <1>5 DEF Distinct
<1>7. Elements(r) = Elements(age) \ gone
  <2>1. ASSUME NEW x \in Elements(r) PROVE x \in Elements(age) \ gone
    BY <2>1, <1>3, <1>4, <1>5 DEF Elements
  <2>2. ASSUME NEW x \in Elements(age) \ gone PROVE x \in Elements(r)
    <3>1. PICK j \in 1 .. Len(age) : age[j] = x
      BY <1>3 DEF Elements
    <3>2. age[j] \in Keys \ gone
      BY <1>2, <3>1
    <3> QED  BY <1>4, <1>5, <3>1, <3>2 DEF Elements
  <2> QED  BY <2>1, <2>2
<1>8. age' = r
  BY <1>1 DEF r
<1>9. FilesListed'
  BY <1>1, <1>2, <1>4, <1>6, <1>7, <1>8 DEF FilesListed
<1>10. TodoTyped'
  <2>1. NothingToDo \in [list : Seq(Keys), excess : Nat]
    BY DEF NothingToDo
  <2> QED  BY <2>1 DEF Restart, TodoTyped
<1>11. unenforced' \in BOOLEAN /\ raced' \in BOOLEAN
  BY DEF Restart, DirInv
<1>12. ~unenforced' => Len(age') <= MaxFiles
  <2> SUFFICES ASSUME ~unenforced' PROVE Len(age') <= MaxFiles
    OBVIOUS
  <2>1. ~unenforced /\ \A t \in Threads : job[t].at \notin {"store", "stored", "stat", "evict"}
    BY DEF Restart
  <2>2. Len(age) <= MaxFiles
    BY <2>1 DEF DirInv, DirectoryKept, Writes, Sweeps
  <2> QED  BY <1>3, <1>4, <1>5, <1>8, <2>2, SizeAssumption
<1> QED  BY <1>9, <1>10, <1>11, <1>12 DEF DirInv, DirectoryKept

\* No step loses sight of what is too much.
LEMMA DirSteps == FreshInv /\ DirInv /\ [Next]_vars => DirInv'
<1> SUFFICES ASSUME FreshInv, DirInv, [Next]_vars PROVE DirInv'
  OBVIOUS
<1>1. CASE Tick \/ UNCHANGED vars
  <2>1. UNCHANGED <<files, age, todo, job, unenforced, raced>>
    BY <1>1 DEF Tick, vars
  <2> QED  BY <2>1 DEF DirInv, FilesListed, TodoTyped, DirectoryKept, Writes, Sweeps
<1>2. CASE Restart
  BY <1>2, RestartKeepsDirectory
<1>3. ASSUME NEW t \in Threads, Call(t) \/ Step(t)
      PROVE  DirInv'
  BY <1>3, StepKeepsDirectory, StatKeeps, EvictKeeps DEF Call, Step
<1> QED  BY <1>1, <1>2, <1>3 DEF Next

\* When no operation is under way the directory is within the limit, though any
\* number of threads wrote to it and deleted from it at once, unless a set was cut
\* short (cache.py, _enforce_cache_limit).
THEOREM DirectoryStaysBounded == Spec => []DirectoryBounded
<1>1. DirInv => DirectoryBounded
  BY DEF DirInv, DirectoryKept, DirectoryBounded, Quiet, At, Writes, Sweeps
<1> QED  BY <1>1, DirStarts, DirSteps, EntriesHonest, PTL DEF Spec

\* The stores and the lists of keys over them have their types: the LRU of every
\* manager and the order of the directory list what there is, once each.
THEOREM CacheTypes == Spec => []TypeOK
<1>1. FreshInv /\ LruInv /\ DirInv => TypeOK
  <2> SUFFICES ASSUME FreshInv, LruInv, DirInv PROVE TypeOK
    OBVIOUS
  <2>1. now \in 0 .. MaxTime
    BY DEF FreshInv, StoresHonest
  <2>2. files \in [Keys -> Entry \union {None, Garbled}]
    BY DEF FreshInv, StoresHonest, Honest
  <2>3. tmp \in [Keys -> Entry \union {None}]
    BY DEF FreshInv, StoresHonest, Honest
  <2>4. mem \in [Managers -> [Keys -> Entry \union {None}]]
    BY DEF FreshInv, StoresHonest, Honest
  <2>5. lru \in [Managers -> Seq(Keys)] /\ \A m \in Managers : IsListing(lru[m], mem[m])
    BY DEF LruInv, LruOK, IsListing, Distinct
  <2>6. age \in Seq(Keys) /\ IsListing(age, files)
    BY DEF DirInv, FilesListed, IsListing, Distinct
  <2>7. job \in [Threads -> [at : Labels, mgr : Managers \union {None}, key : Keys \union {None},
                             held : Entry \union {None, Garbled}]]
    BY DEF FreshInv, JobsHonest, Honest
  <2> QED  BY <2>1, <2>2, <2>3, <2>4, <2>5, <2>6, <2>7 DEF TypeOK, DirInv, TodoTyped, Labels
<1> QED
  BY <1>1, FreshInit, FreshStep, LruInit, LruStep, DirStarts, DirSteps, PTL DEF Spec

-----------------------------------------------------------------------------
\* One CacheManager over the directory.  A second one would keep in its LRU what
\* the first has deleted or written since: no code tells it.
OneManager == \A m, n \in Managers : m = n

\* As long as operations come one at a time,
NobodyElse(t) == \A u \in Threads \ {t} : job[u].at = "idle"

\* what a thread has looked at is still so when it acts on it,
SeesTruth(t) ==
    /\ job[t].at = "clear" => todo[t].list = age
    /\ job[t].at \in {"read", "judge"} => ~InLru(job[t].mgr, job[t].key)
    /\ job[t].at \in {"judge", "promote", "store"} => files[job[t].key] = job[t].held
    /\ job[t].at = "rename" => tmp[job[t].key] = job[t].held

\* and the LRU holds what the file holds, except while a clear deletes the files
\* and between the renaming of a file and the put of what it holds.
Agreed(m, k) ==
    InLru(m, k) => \/ files[k] = mem[m][k]
                   \/ \E t \in Threads : job[t].at = "clear" \/ (job[t].at = "store" /\ job[t].key = k)

AloneInv ==
    ~raced => /\ \A t \in Threads : job[t].at # "idle" => NobodyElse(t)
              /\ \A t \in Threads : SeesTruth(t)
              /\ \A m \in Managers, k \in Keys : Agreed(m, k)

\* Taking the first of a list out leaves the rest.
LEMMA WithoutFirst ==
    ASSUME NEW S, NEW s \in Seq(S), Distinct(s), s # <<>>
    PROVE  Without(s, Head(s)) = Tail(s)
<1> DEFINE k == Head(s)
<1>1. Len(s) \in Nat \ {0} /\ k = s[1] /\ 1 \in DOMAIN s
  OBVIOUS
<1>2. k \in Elements(s)
  BY <1>1 DEF Elements
<1>3. (CHOOSE j \in DOMAIN s : s[j] = k) = 1
  BY <1>1 DEF Distinct
<1>4. Without(s, k) = SubSeq(s, 1, 1 - 1) \o SubSeq(s, 1 + 1, Len(s))
  BY <1>2, <1>3 DEF Without
<1>5. SubSeq(s, 1, 1 - 1) = <<>>
  BY <1>1
<1>6. SubSeq(s, 1 + 1, Len(s)) = Tail(s) /\ Tail(s) \in Seq(S)
  BY <1>1
<1> QED  BY <1>4, <1>5, <1>6

\* What is to be shown of a step of a thread that nobody disturbs.
LEMMA StillAlone ==
    ASSUME NEW t \in Threads, NobodyElse(t)', SeesTruth(t)',
           \A m \in Managers, k \in Keys :
              InLru(m, k)' => \/ files'[k] = mem'[m][k]
                              \/ job'[t].at = "clear" \/ (job'[t].at = "store" /\ job'[t].key = k)
    PROVE  AloneInv'
<1>1. \A u \in Threads \ {t} : SeesTruth(u)'
  BY DEF NobodyElse, SeesTruth
<1>2. \A u \in Threads : job'[u].at # "idle" => NobodyElse(u)'
  BY DEF NobodyElse
<1>3. \A m \in Managers, k \in Keys : Agreed(m, k)'
  BY DEF Agreed
<1> QED  BY <1>1, <1>2, <1>3 DEF AloneInv

\* No operation overlaps the one that thread t is in or begins.
LEMMA Undisturbed ==
    ASSUME FreshInv, AloneInv, NEW t \in Threads, ~raced', raced \in BOOLEAN, Call(t) \/ Step(t)
    PROVE  ~raced /\ NobodyElse(t) /\ NobodyElse(t)'
<1>1. PICK new : job' = [job EXCEPT ![t] = new]
  BY GoesOn
<1>2. NobodyElse(t) => NobodyElse(t)'
  BY <1>1, OneGoes DEF NobodyElse
<1>3. CASE Begin(t)
  BY <1>2, <1>3 DEF Begin, At, NobodyElse
<1>4. CASE Step(t)
  <2>1. raced' = raced
    BY <1>4 DEF Step, ReadFile, Judge, Rename, Assign, Reorder, Stat, Evict, ClearFile, ClearLru
  <2>2. job[t].at # "idle"
    BY <1>4 DEF Step, At, ReadFile, Judge, Rename, Assign, Reorder, Stat, Evict, ClearFile, ClearLru
  <2> QED  BY <1>2, <2>1, <2>2 DEF AloneInv
<1>5. Call(t) => Begin(t)
  BY DEF Call, HitInMemory, LookOnDisk, WriteTmp, ClearBegin
<1> QED  BY <1>3, <1>4, <1>5

\* A step of a thread keeps the two tiers in agreement.
LEMMA StepAgrees ==
    ASSUME OneManager, FreshInv, DirInv, AloneInv, NEW t \in Threads, Call(t) \/ Step(t)
    PROVE  AloneInv'
<1> SUFFICES ASSUME ~raced' PROVE AloneInv'
  BY DEF AloneInv
<1> USE MarkAssumption, ManagerAssumption
<1>a. ~raced /\ NobodyElse(t) /\ NobodyElse(t)'
  BY Undisturbed DEF DirInv
<1>b. SeesTruth(t) /\ \A m \in Managers, k \in Keys : Agreed(m, k)
  BY <1>a DEF AloneInv
<1>c. \A m \in Managers, k \in Keys :
         InLru(m, k) /\ ~(job[t].at = "clear" \/ (job[t].at = "store" /\ job[t].key = k)) =>
            files[k] = mem[m][k]
  BY <1>a, <1>b DEF Agreed, NobodyElse
<1>d. PICK new : job' = [job EXCEPT ![t] = new]
  BY GoesOn
<1>e. job'[t] = new
  BY <1>d, OneGoes
<1>f. ASSUME SeesTruth(t)', UNCHANGED <<files, mem>>,
             job[t].at \notin {"clear", "store"}
      PROVE  AloneInv'
  <2>1. \A m \in Managers, k \in Keys : InLru(m, k)' => files'[k] = mem'[m][k]
    BY <1>c, <1>f DEF InLru
  <2> QED  BY <1>a, <1>f, <2>1, StillAlone
<1>1. ASSUME NEW m \in Serving, NEW k \in Keys, HitInMemory(t, m, k) PROVE AloneInv'
  <2>1. job[t].at = "idle" /\ UNCHANGED <<job, files, mem>>
    BY <1>1 DEF HitInMemory, Begin, At
  <2>2. SeesTruth(t)'
    BY <2>1 DEF SeesTruth
  <2> QED  BY <1>f, <2>1, <2>2
<1>2. ASSUME NEW m \in Serving, NEW k \in Keys, LookOnDisk(t, m, k) PROVE AloneInv'
  <2>1. job[t].at = "idle" /\ files' = files /\ mem' = [mem EXCEPT ![m][k] = None]
    BY <1>2 DEF LookOnDisk, Begin, At
  <2>2. \A n \in Managers, j \in Keys : InLru(n, j)' => InLru(n, j) /\ mem'[n][j] = mem[n][j]
    BY <2>1 DEF InLru, FreshInv, StoresHonest
  <2>3. \A n \in Managers, j \in Keys : InLru(n, j)' => files'[j] = mem'[n][j]
    BY <1>c, <2>1, <2>2
  <2>4. ~InLru(m, k)'
    BY <2>1 DEF InLru, FreshInv, StoresHonest
  <2>5. SeesTruth(t)'
    <3>1. CASE files[k] = None
      BY <1>2, <2>1, <3>1 DEF LookOnDisk, SeesTruth
    <3>2. CASE files[k] # None
      <4>1. job'[t] = [Idle EXCEPT !.at = "read", !.mgr = m, !.key = k]
        BY <1>2, <3>2 DEF LookOnDisk, FreshInv, JobsHonest
      <4>2. job'[t].at = "read" /\ job'[t].mgr = m /\ job'[t].key = k
        BY <4>1 DEF Idle
      <4> QED  BY <2>4, <4>2 DEF SeesTruth
    <3> QED  BY <3>1, <3>2
  <2> QED  BY <1>a, <2>3, <2>5, StillAlone
<1>3. ASSUME NEW m \in Serving, NEW k \in Keys, WriteTmp(t, m, k) PROVE AloneInv'
  <2> DEFINE fresh == [stamp |-> now, made |-> now]
  <2>1. job[t].at = "idle" /\ UNCHANGED <<files, mem>> /\ tmp' = [tmp EXCEPT ![k] = fresh]
    BY <1>3 DEF WriteTmp, Begin, At
  <2>2. job'[t] = [Idle EXCEPT !.at = "rename", !.mgr = m, !.key = k, !.held = fresh]
    BY <1>3 DEF WriteTmp, FreshInv, JobsHonest
  <2> HIDE DEF fresh
  <2>3. job'[t].at = "rename" /\ job'[t].key = k /\ job'[t].held = fresh
    BY <2>2 DEF Idle
  <2>4. SeesTruth(t)'
    BY <2>1, <2>3 DEF SeesTruth, FreshInv, StoresHonest
  <2> QED  BY <1>f, <2>1, <2>4
<1>4. ASSUME NEW m \in Managers, ClearBegin(t, m) PROVE AloneInv'
  <2>1. job[t].at = "idle" /\ UNCHANGED <<files, mem, age>> /\ todo' = [todo EXCEPT ![t].list = age]
    BY <1>4 DEF ClearBegin, Begin, At
  <2>2. job'[t].at = "clear"
    BY <1>4 DEF ClearBegin, FreshInv, JobsHonest, Idle
  <2>3. todo'[t].list = age
    BY <2>1, TodoLeft DEF DirInv, FilesListed
  <2>4. SeesTruth(t)'
    BY <2>1, <2>2, <2>3 DEF SeesTruth
  <2> QED  BY <1>f, <2>1, <2>4
<1>5. CASE ReadFile(t)
  <2>1. job[t].at = "read" /\ UNCHANGED <<files, mem>>
    BY <1>5 DEF ReadFile, At
  <2>2. SeesTruth(t)'
    <3>1. CASE files[job[t].key] = None
      BY <1>5, <3>1 DEF ReadFile, Done, Idle, FreshInv, JobsHonest, SeesTruth
    <3>2. CASE files[job[t].key] # None
      <4>1. job'[t] = [job[t] EXCEPT !.at = "judge", !.held = files[job[t].key]]
        BY <1>5, <3>2 DEF ReadFile, FreshInv, JobsHonest
      <4>2. job'[t].at = "judge" /\ job'[t].mgr = job[t].mgr /\ job'[t].key = job[t].key
            /\ job'[t].held = files[job[t].key]
        BY <4>1 DEF FreshInv, JobsHonest
      <4>3. mem'[job[t].mgr][job[t].key] = None
        BY <1>b, <2>1 DEF SeesTruth, InLru
      <4> QED  BY <2>1, <4>2, <4>3 DEF SeesTruth, InLru
    <3> QED  BY <3>1, <3>2
  <2> QED  BY <1>f, <2>1, <2>2
<1>6. CASE Judge(t)
  <2>1. /\ job[t].at = "judge" /\ mem' = mem /\ ~InLru(job[t].mgr, job[t].key)
        /\ files[job[t].key] = job[t].held /\ job[t].mgr \in Managers /\ job[t].key \in Keys
    BY <1>6, <1>b DEF Judge, At, SeesTruth, FreshInv, JobsHonest
  <2>2. CASE Unlink(job[t].key) /\ Done(t)
    <3>1. \A m \in Managers, k \in Keys : InLru(m, k) => k # job[t].key
      BY <2>1 DEF OneManager
    <3>2. \A k \in Keys : k # job[t].key => files'[k] = files[k]
      BY <2>2 DEF Unlink, FreshInv, StoresHonest
    <3>3. \A m \in Managers, k \in Keys : InLru(m, k)' => files'[k] = mem'[m][k]
      BY <1>c, <2>1, <3>1, <3>2 DEF InLru
    <3>4. SeesTruth(t)'
      BY <2>2 DEF Done, Idle, FreshInv, JobsHonest, SeesTruth
    <3> QED  BY <1>a, <3>3, <3>4, StillAlone
  <2>3. CASE Goto(t, "promote") /\ UNCHANGED <<files, age>>
    <3>1. job'[t] = [job[t] EXCEPT !.at = "promote"]
      BY <2>3 DEF Goto, FreshInv, JobsHonest
    <3>2. job'[t].at = "promote" /\ job'[t].key = job[t].key /\ job'[t].held = job[t].held
      BY <3>1 DEF FreshInv, JobsHonest
    <3>3. SeesTruth(t)'
      BY <2>1, <2>3, <3>2 DEF SeesTruth
    <3> QED  BY <1>f, <2>1, <2>3, <3>3
  <2> QED  BY <1>6, <2>2, <2>3 DEF Judge
<1>7. CASE Rename(t)
  <2> DEFINE k == job[t].key
  <2>1. /\ job[t].at = "rename" /\ mem' = mem /\ tmp[k] = job[t].held /\ job[t].held # None
        /\ k \in Keys
    BY <1>7, <1>b DEF Rename, At, SeesTruth, FreshInv, JobsHonest, Honest
  <2>2. ~Contended(t)
    BY <1>a DEF Contended, At, NobodyElse
  <2>3. files' = [files EXCEPT ![k] = tmp[k]] /\ Goto(t, "store")
    BY <1>7, <2>1, <2>2 DEF Rename
  <2>4. job'[t] = [job[t] EXCEPT !.at = "store"]
    BY <2>3 DEF Goto, FreshInv, JobsHonest
  <2>5. job'[t].at = "store" /\ job'[t].key = k /\ job'[t].held = job[t].held
    BY <2>4 DEF FreshInv, JobsHonest
  <2>6. files'[k] = job[t].held /\ \A j \in Keys \ {k} : files'[j] = files[j]
    BY <2>1, <2>3 DEF FreshInv, StoresHonest
  <2>7. SeesTruth(t)'
    BY <2>5, <2>6 DEF SeesTruth
  <2>8. \A m \in Managers, j \in Keys : InLru(m, j)' => files'[j] = mem'[m][j] \/ job'[t].key = j
    BY <1>c, <2>1, <2>5, <2>6 DEF InLru
  <2> QED  BY <1>a, <2>5, <2>7, <2>8, StillAlone
<1>8. CASE Assign(t)
  <2> DEFINE k == job[t].key
             m == job[t].mgr
  <2>1. /\ job[t].at \in {"promote", "store"} /\ files' = files /\ mem' = [mem EXCEPT ![m][k] = job[t].held]
        /\ files[k] = job[t].held /\ k \in Keys /\ m \in Managers
    BY <1>8, <1>b DEF Assign, SeesTruth, FreshInv, JobsHonest
  <2>2. job'[t].at \in {"promoted", "stored"}
    BY <1>8 DEF Assign, Goto, FreshInv, JobsHonest
  <2>3. mem'[m][k] = files'[k]
    BY <2>1 DEF FreshInv, StoresHonest
  <2>4. \A n \in Managers, j \in Keys \ {k} : mem'[n][j] = mem[n][j]
    BY <2>1 DEF FreshInv, StoresHonest
  <2>5. ASSUME NEW n \in Managers, NEW j \in Keys, InLru(n, j)'
        PROVE  files'[j] = mem'[n][j]
    <3>1. CASE j = k
      BY <2>1, <2>3, <3>1 DEF OneManager
    <3>2. CASE j # k
      BY <1>c, <2>1, <2>4, <2>5, <3>2 DEF InLru
    <3> QED  BY <3>1, <3>2
  <2>6. SeesTruth(t)'
    BY <2>2 DEF SeesTruth
  <2> QED  BY <1>a, <2>5, <2>6, StillAlone
<1>9. CASE Reorder(t)
  <2>1. job[t].at \in {"promoted", "stored"} /\ files' = files
    BY <1>9 DEF Reorder
  <2>2. job'[t].at \in {"idle", "stat"}
    BY <1>9 DEF Reorder, Done, Goto, Idle, FreshInv, JobsHonest
  <2>3. \A n \in Managers, j \in Keys : InLru(n, j)' => InLru(n, j) /\ mem'[n][j] = mem[n][j]
    <3>1. CASE InLru(job[t].mgr, job[t].key)
      <4>1. PICK r : mem' = [mem EXCEPT ![job[t].mgr] = [j \in Keys |-> IF j \in r THEN @[j] ELSE None]]
        BY <1>9, <3>1 DEF Reorder
      <4> QED  BY <4>1 DEF InLru, FreshInv, StoresHonest
    <3>2. CASE ~InLru(job[t].mgr, job[t].key)
      BY <1>9, <3>2 DEF Reorder, InLru
    <3> QED  BY <3>1, <3>2
  <2>4. \A n \in Managers, j \in Keys : InLru(n, j)' => files'[j] = mem'[n][j]
    BY <1>c, <2>1, <2>3
  <2>5. SeesTruth(t)'
    BY <2>2 DEF SeesTruth
  <2> QED  BY <1>a, <2>4, <2>5, StillAlone
<1>10. CASE Stat(t)
  <2>1. job[t].at = "stat" /\ UNCHANGED <<files, mem>>
    BY <1>10 DEF Stat, At
  <2>2. job'[t].at \in {"idle", "evict"}
    BY <1>10 DEF Stat, Done, Goto, Idle, FreshInv, JobsHonest
  <2>3. SeesTruth(t)'
    BY <2>2 DEF SeesTruth
  <2> QED  BY <1>f, <2>1, <2>3
<1>11. CASE Evict(t)
  <2>1. job[t].at = "evict" /\ job[t].mgr \in Managers
    BY <1>11 DEF Evict, At, FreshInv, JobsHonest
  <2>2. job'[t].at \in {"idle", "evict"}
    BY <1>11, <2>1 DEF Evict, Done, Idle, FreshInv, JobsHonest
  <2>3. SeesTruth(t)'
    BY <2>2 DEF SeesTruth
  <2>4. CASE UNCHANGED <<files, mem>>
    BY <1>f, <2>1, <2>3, <2>4
  <2>5. ASSUME NEW k, files' = [files EXCEPT ![k] = None], mem' = [mem EXCEPT ![job[t].mgr][k] = None]
        PROVE  AloneInv'
    <3>1. ASSUME NEW n \in Managers, NEW j \in Keys, InLru(n, j)'
          PROVE  files'[j] = mem'[n][j]
      <4>1. n = job[t].mgr
        BY <2>1 DEF OneManager
      <4>2. j # k
        BY <2>1, <2>5, <3>1, <4>1 DEF InLru, FreshInv, StoresHonest
      <4>3. files'[j] = files[j] /\ mem'[n][j] = mem[n][j]
        BY <2>1, <2>5, <4>1, <4>2 DEF FreshInv, StoresHonest
      <4> QED  BY <1>c, <2>1, <3>1, <4>3 DEF InLru
    <3> QED  BY <1>a, <2>3, <3>1, StillAlone
  <2>6. \/ UNCHANGED <<files, mem>>
        \/ \E k : files' = [files EXCEPT ![k] = None] /\ mem' = [mem EXCEPT ![job[t].mgr][k] = None]
    BY <1>11 DEF Evict, Unlink
  <2> QED  BY <2>4, <2>5, <2>6
<1>12. CASE ClearFile(t)
  <2>1. job[t].at = "clear" /\ todo[t].list = age /\ age # <<>> /\ mem' = mem
    BY <1>12, <1>b DEF ClearFile, At, SeesTruth
  <2>2. age \in Seq(Keys) /\ Distinct(age) /\ Elements(age) = {k \in Keys : files[k] # None}
    BY DEF DirInv, FilesListed
  <2>3. files[Head(age)] # None
    BY <2>1, <2>2, RestOfList
  <2>4. age' = Without(age, Head(age)) /\ todo' = [todo EXCEPT ![t].list = Tail(age)] /\ job' = job
    BY <1>12, <2>1, <2>3 DEF ClearFile, Unlink
  <2>5. age' = Tail(age) /\ Tail(age) \in Seq(Keys)
    BY <2>1, <2>2, <2>4, WithoutFirst, RestOfList
  <2>6. todo'[t].list = Tail(age)
    BY <2>4, <2>5, TodoLeft DEF DirInv
  <2>7. SeesTruth(t)'
    BY <2>1, <2>4, <2>5, <2>6 DEF SeesTruth
  <2> QED  BY <1>a, <2>1, <2>4, <2>7, StillAlone
<1>13. CASE ClearLru(t)
  <2>1. job[t].at = "clear" /\ job[t].mgr \in Managers
    BY <1>13 DEF ClearLru, At, FreshInv, JobsHonest
  <2>2. job'[t].at = "idle"
    BY <1>13 DEF ClearLru, Done, Idle, FreshInv, JobsHonest
  <2>3. \A m \in Managers, k \in Keys : ~InLru(m, k)'
    BY <1>13, <2>1 DEF ClearLru, NoEntries, OneManager, InLru, FreshInv, StoresHonest
  <2>4. SeesTruth(t)'
    BY <2>2 DEF SeesTruth
  <2> QED  BY <1>a, <2>3, <2>4, StillAlone
<1> QED
  BY <1>1, <1>2, <1>3, <1>4, <1>5, <1>6, <1>7, <1>8, <1>9, <1>10, <1>11, <1>12, <1>13 DEF Call, Step

\* No step lets the two tiers part.
LEMMA AloneSteps == OneManager /\ FreshInv /\ DirInv /\ AloneInv /\ [Next]_vars => AloneInv'
<1> SUFFICES ASSUME OneManager, FreshInv, DirInv, AloneInv, [Next]_vars PROVE AloneInv'
  OBVIOUS
<1>1. CASE Tick \/ UNCHANGED vars
  <2>1. UNCHANGED <<files, age, tmp, mem, job, todo, raced>>
    BY <1>1 DEF Tick, vars
  <2> QED  BY <2>1 DEF AloneInv, NobodyElse, SeesTruth, Agreed, InLru
<1>2. CASE Restart
  <2>1. \A t \in Threads : job'[t].at = "idle"
    BY <1>2 DEF Restart, Idle
  <2>2. \A m \in Managers, k \in Keys : ~InLru(m, k)'
    BY <1>2 DEF Restart, NoEntries, InLru
  <2> QED  BY <2>1, <2>2 DEF AloneInv, NobodyElse, SeesTruth, Agreed
<1>3. ASSUME NEW t \in Threads, Call(t) \/ Step(t)
      PROVE  AloneInv'
  BY <1>3, StepAgrees
<1> QED  BY <1>1, <1>2, <1>3 DEF Next

\* The tiers agree when the process begins: both are empty.
LEMMA AloneStarts == Init => AloneInv
<1> SUFFICES ASSUME Init PROVE AloneInv
  OBVIOUS
<1>1. \A t \in Threads : job[t].at = "idle"
  BY DEF Init, Idle
<1>2. \A m \in Managers, k \in Keys : ~InLru(m, k)
  BY DEF Init, NoEntries, InLru
<1> QED  BY <1>1, <1>2 DEF AloneInv, NobodyElse, SeesTruth, Agreed

\* One manager, one operation at a time: what its LRU would serve is what the file
\* holds, after any number of evictions, expiries, clears and restarts.
THEOREM TiersStayAgreed == OneManager => (Spec => []TiersAgree)
<1> SUFFICES ASSUME OneManager PROVE Spec => []TiersAgree
  OBVIOUS
<1>1. AloneInv => TiersAgree
  BY DEF AloneInv, Agreed, TiersAgree, Quiet, At
<1> QED
  BY <1>1, FreshInit, FreshStep, DirStarts, DirSteps, AloneStarts, AloneSteps, PTL DEF Spec

\* A clear that nothing interfered with leaves neither a file nor an entry to serve
\* (README.md, /clear-cache).
THEOREM ClearsEmpty == OneManager => (Spec => ClearEmpties)
<1> SUFFICES ASSUME OneManager PROVE Spec => ClearEmpties
  OBVIOUS
<1>1. FreshInv /\ LruInv /\ AloneInv /\ [Next]_vars =>
         [\A t \in Threads : ClearLru(t) /\ ~raced =>
             age' = <<>> /\ \A m \in Managers : lru'[m] = <<>>]_vars
  <2> SUFFICES ASSUME FreshInv, LruInv, AloneInv, NEW t \in Threads, ClearLru(t), ~raced
               PROVE  age' = <<>> /\ \A m \in Managers : lru'[m] = <<>>
    OBVIOUS
  <2>1. job[t].at = "clear" /\ job[t].mgr \in Managers
    BY DEF ClearLru, At, FreshInv, JobsHonest
  <2>2. todo[t].list = age /\ todo[t].list = <<>> /\ age' = age
    BY <2>1 DEF ClearLru, AloneInv, SeesTruth
  <2>3. \A m \in Managers : lru'[m] = <<>>
    BY <2>1 DEF ClearLru, LruInv, OneManager
  <2> QED  BY <2>2, <2>3
<1> QED
  BY <1>1, FreshInit, FreshStep, LruInit, LruStep, DirStarts, DirSteps, AloneStarts, AloneSteps,
     PTL DEF Spec, ClearEmpties
=============================================================================
