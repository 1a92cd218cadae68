------------------------- MODULE MemoryStore_proofs -------------------------
(***************************************************************************)
(* What MemoryStore keeps for any stores, threads, values and limits.      *)
(* FileInv, the state of the two files while no saves overlap, holds for   *)
(* any threads.  EntryInv bounds the entries of every store and file by    *)
(* the quotas and the number of threads that share a store: where every    *)
(* thread has its own, its checks still hold when it appends.              *)
(***************************************************************************)
EXTENDS MemoryStore, FiniteSetTheorems, TLAPS

\* A thread about to append has an entry to append.
TypeInv == TypeOK /\ \A t \in Threads : pc[t] = "append" => pending[t] # Nothing

\* Who has the temp file open, and what the files hold, without a clash.
FileInv ==
    /\ \A t \in Threads : handle[t] # "none" => pc[t] = "write"
    /\ ~clash =>
        /\ disk \in Contents \union {NoFile}
        /\ \A t, u \in Threads : Saving(t) /\ Saving(u) => t = u
        /\ \A t \in Threads : pc[t] = "write" => handle[t] = "tmp" /\ tmp = Empty
        /\ \A t \in Threads : pc[t] = "replace" => tmp \in Contents

\* The marks of a file are no contents.
LEMMA KindsApart ==
    /\ NoFile \notin Contents /\ Empty \notin Contents /\ Garbled \notin Contents
    /\ \A ce \in Categories \X Entry : ce # Nothing
    /\ EmptyData \in Contents
  BY FileAssumption DEF NotContents, EmptyData, Contents

\* The initial state is well typed.
LEMMA InitTypes == Init => TypeInv /\ FileInv
  BY KindsApart DEF Init, TypeOK, TypeInv, FileInv, Saving, NotContents

\* Type correctness is preserved by every step.
LEMMA NextTypes == TypeInv /\ [Next]_vars => TypeInv'
<1> SUFFICES ASSUME TypeInv, [Next]_vars PROVE TypeInv'
  OBVIOUS
<1> USE HomeAssumption, CategoryAssumption, KindsApart DEF TypeInv
<1>1. CASE UNCHANGED vars
  BY <1>1 DEF vars, TypeOK
<1>2. ASSUME NEW t \in Threads, NEW c \in Categories, NEW e \in Entry,
             Remember(t, c, e) \/ AddNote(t, c, e)
      PROVE TypeInv'
  BY <1>2 DEF Remember, AddNote, TypeOK
<1>3. ASSUME NEW t \in Threads, NEW c \in Categories, NEW v \in Values, Describe(t, c, v)
      PROVE TypeInv'
  BY <1>3 DEF Describe, TypeOK
<1>4. ASSUME NEW t \in Threads, NEW c \in Categories, NEW v \in Values, Forget(t, c, v)
      PROVE TypeInv'
  BY <1>4 DEF Forget, TypeOK, Contents
<1>5. ASSUME NEW t \in Threads, NEW c \in Categories, ClearCategory(t, c)
      PROVE TypeInv'
  BY <1>5 DEF ClearCategory, TypeOK, Contents
<1>6. ASSUME NEW t \in Threads, ClearAll(t)
      PROVE TypeInv'
  BY <1>6 DEF ClearAll, TypeOK
<1>7. ASSUME NEW t \in Threads, AppendEntry(t)
      PROVE TypeInv'
  <2>1. pending[t] \in Categories \X Entry
    BY <1>7 DEF AppendEntry, TypeOK
  <2>2. data' \in [Instances -> Contents]
    BY <1>7, <2>1 DEF AppendEntry, TypeOK, Contents
  <2> QED
    BY <1>7, <2>2 DEF AppendEntry, TypeOK
<1>8. ASSUME NEW t \in Threads, OpenTmp(t)
      PROVE TypeInv'
  BY <1>8 DEF OpenTmp, TypeOK, NotContents
<1>9. ASSUME NEW t \in Threads, Dump(t)
      PROVE TypeInv'
  BY <1>9 DEF Dump, WriteThrough, Dumped, TypeOK, NotContents
<1>10. ASSUME NEW t \in Threads, Replace(t)
       PROVE TypeInv'
  BY <1>10 DEF Replace, Return, Renamed, TypeOK, NotContents
<1>11. ASSUME NEW t \in Threads, SaveFails(t)
       PROVE TypeInv'
  BY <1>11 DEF SaveFails, Return, WriteThrough, TypeOK, NotContents
<1>12. CASE Crash
  BY <1>12 DEF Crash, TypeOK
<1>13. CASE Restart
  <2>1. IsContents(disk) => disk \in Contents
    BY DEF IsContents, TypeOK
  <2>2. data' \in [Instances -> Contents]
    BY <1>13, <2>1 DEF Restart
  <2>3. disk' \in Contents \union NotContents /\ tmp' \in Contents \union NotContents
    BY <1>13 DEF Restart, TypeOK, NotContents
  <2>4. clash' \in BOOLEAN
    BY <1>13 DEF Restart
  <2>5. pc' = [t \in Threads |-> "idle"] /\ UNCHANGED <<pending, handle>>
    BY <1>13 DEF Restart
  <2> QED
    BY <2>2, <2>3, <2>4, <2>5 DEF TypeOK
<1> QED
  BY <1>1, <1>2, <1>3, <1>4, <1>5, <1>6, <1>7, <1>8, <1>9, <1>10, <1>11, <1>12, <1>13
  DEF Next, Operation, Remembering, Forgetting, Progress

\* Saves that do not overlap find their own temp file.
LEMMA NextFile == TypeInv /\ TypeInv' /\ FileInv /\ [Next]_vars => FileInv'
<1> SUFFICES ASSUME TypeInv, TypeInv', FileInv, [Next]_vars PROVE FileInv'
  OBVIOUS
<1> USE HomeAssumption, KindsApart DEF TypeInv, FileInv, Saving
<1>1. CASE UNCHANGED vars
  BY <1>1 DEF vars
<1>2. ASSUME NEW t \in Threads, NEW c \in Categories, NEW e \in Entry,
             Remember(t, c, e) \/ AddNote(t, c, e)
      PROVE FileInv'
  BY <1>2 DEF Remember, AddNote, TypeOK
<1>3. ASSUME NEW t \in Threads, NEW c \in Categories, NEW v \in Values,
             Describe(t, c, v) \/ Forget(t, c, v)
      PROVE FileInv'
  BY <1>3 DEF Describe, Forget, TypeOK
<1>4. ASSUME NEW t \in Threads, NEW c \in Categories, ClearCategory(t, c)
      PROVE FileInv'
  BY <1>4 DEF ClearCategory, TypeOK
<1>5. ASSUME NEW t \in Threads, ClearAll(t) \/ AppendEntry(t)
      PROVE FileInv'
  BY <1>5 DEF ClearAll, AppendEntry, TypeOK
<1>6. ASSUME NEW t \in Threads, OpenTmp(t)
      PROVE FileInv'
  <2>1. clash' = FALSE => clash = FALSE /\ \A u \in Threads : pc[u] \notin {"write", "replace"}
    BY <1>6 DEF OpenTmp, TypeOK
  <2>2. /\ \A u \in Threads : pc'[u] = IF u = t THEN "write" ELSE pc[u]
        /\ \A u \in Threads : handle'[u] = IF u = t THEN "tmp" ELSE handle[u]
        /\ tmp' = Empty /\ disk' = disk
    BY <1>6 DEF OpenTmp, TypeOK
  <2>3. clash' \in BOOLEAN
    BY DEF TypeOK
  <2> QED
    BY <2>1, <2>2, <2>3
<1>7. ASSUME NEW t \in Threads, Dump(t)
      PROVE FileInv'
  <2>1. data[Home[t]] \in Contents
    BY DEF TypeOK
  <2>2. ~clash => tmp' = data[Home[t]] /\ disk' = disk
    BY <1>7 DEF Dump, WriteThrough, Dumped
  <2> QED
    BY <1>7, <2>1, <2>2 DEF Dump, WriteThrough, TypeOK
<1>8. ASSUME NEW t \in Threads, Replace(t)
      PROVE FileInv'
  BY <1>8 DEF Replace, Return, Renamed, TypeOK
<1>9. ASSUME NEW t \in Threads, SaveFails(t)
      PROVE FileInv'
  BY <1>9 DEF SaveFails, Return, WriteThrough, TypeOK
<1>10. CASE Crash
  BY <1>10 DEF Crash, TypeOK
<1>11. CASE Restart
  BY <1>11 DEF Restart, IsContents, NotContents, TypeOK
<1> QED
  BY <1>1, <1>2, <1>3, <1>4, <1>5, <1>6, <1>7, <1>8, <1>9, <1>10, <1>11
  DEF Next, Operation, Remembering, Forgetting, Progress

\* The invariant of the files, for any number of threads and stores.
THEOREM MemoryFileInvariant == Spec => [](TypeInv /\ FileInv)
<1>1. Init => TypeInv /\ FileInv
  BY InitTypes
<1>2. TypeInv /\ FileInv /\ [Next]_vars => (TypeInv /\ FileInv)'
  BY NextTypes, NextFile
<1> QED
  BY <1>1, <1>2, PTL DEF Spec

\* Every reachable state is well typed (core/memory/store.py).
THEOREM MemoryTypes == Spec => []TypeOK
  BY MemoryFileInvariant, PTL DEF TypeInv

\* memory.json can be read at any moment, a crash or a failed save included,
\* unless two saves overlapped (core/memory/persistence.py, _save).
THEOREM FileReadable == Spec => []ReadableUnlessClash
<1>1. FileInv => ReadableUnlessClash
  BY DEF FileInv, ReadableUnlessClash
<1> QED
  BY <1>1, MemoryFileInvariant, PTL

-----------------------------------------------------------------------------
\* The threads that call a store, and their number as far as it matters: n of
\* them beside one another.
Callers(i) == {t \in Threads : Home[t] = i}
Sharing(n) == \A i \in Instances : IsFiniteSet(Callers(i)) /\ Cardinality(Callers(i)) <= n + 1

\* The deployments in which every thread has a store of its own.
OwnStores == \A t, u \in Threads : Home[t] = Home[u] => t = u

\* What is limited in a category: all its entries, those of a user, and, where
\* remember_* looks for it, those with a value.
Quotas(c) ==
    {[of |-> Entry, limit |-> GlobalLimit]}
    \union {[of |-> {e \in Entry : e.user = u}, limit |-> PerUserLimit] : u \in Users}
    \union (IF c \in Notes THEN {} ELSE {[of |-> {e \in Entry : e.value = v}, limit |-> 1] : v \in Values})

\* No quota is exceeded by more than n.
DataOK(D, n) ==
    \A c \in Categories : /\ IsFiniteSet(D[c])
                          /\ \A q \in Quotas(c) : Cardinality(D[c] \cap q.of) <= q.limit + n

\* The threads that have passed the checks with an entry of S.
Storing(i, c, S) ==
    {t \in Callers(i) : pc[t] = "append" /\ pending[t][1] = c /\ pending[t][2] \in S}

\* Those and what is there make up at most n more than each quota.
StoreOK(i, n) ==
    \A c \in Categories :
        /\ IsFiniteSet(data[i][c])
        /\ \A q \in Quotas(c) :
             Cardinality(data[i][c] \cap q.of) + Cardinality(Storing(i, c, q.of)) <= q.limit + n

EntryInv(n) ==
    /\ \A i \in Instances : StoreOK(i, n)
    /\ disk \in Contents => DataOK(disk, n)
    /\ tmp \in Contents => DataOK(tmp, n)

\* A quota is a set of entries and a number.
LEMMA QuotaTypes ==
    ASSUME NEW c \in Categories, NEW q \in Quotas(c)
    PROVE  q.of \subseteq Entry /\ q.limit \in Nat
<1>1. CASE q = [of |-> Entry, limit |-> GlobalLimit]
  BY <1>1, LimitAssumption
<1>2. ASSUME NEW u \in Users, q = [of |-> {e \in Entry : e.user = u}, limit |-> PerUserLimit]
      PROVE  q.of \subseteq Entry /\ q.limit \in Nat
  BY <1>2, LimitAssumption
<1>3. ASSUME NEW v \in Values, q = [of |-> {e \in Entry : e.value = v}, limit |-> 1]
      PROVE  q.of \subseteq Entry /\ q.limit \in Nat
  BY <1>3
<1> QED BY <1>1, <1>2, <1>3 DEF Quotas

\* The part of a finite set that meets a set is finite, and grows with it.
LEMMA PartsCounted ==
    ASSUME NEW A, NEW B, NEW S, IsFiniteSet(A), B \subseteq A
    PROVE  /\ IsFiniteSet(A \cap S) /\ IsFiniteSet(B \cap S) /\ IsFiniteSet(B)
           /\ Cardinality(A \cap S) \in Nat /\ Cardinality(B \cap S) \in Nat
           /\ Cardinality(B \cap S) <= Cardinality(A \cap S)
<1>1. A \cap S \subseteq A /\ B \cap S \subseteq A \cap S
  OBVIOUS
<1>2. IsFiniteSet(A \cap S) /\ IsFiniteSet(B)
  BY <1>1, FS_Subset
<1>3. IsFiniteSet(B \cap S) /\ Cardinality(B \cap S) <= Cardinality(A \cap S)
  BY <1>1, <1>2, FS_Subset
<1> QED BY <1>2, <1>3, FS_CardinalityType

\* The threads that store are counted.
LEMMA StoringCounted ==
    ASSUME NEW n \in Nat, Sharing(n), NEW i \in Instances, NEW c, NEW S
    PROVE  /\ IsFiniteSet(Storing(i, c, S))
           /\ Cardinality(Storing(i, c, S)) \in 0 .. n + 1
<1>1. IsFiniteSet(Callers(i)) /\ Cardinality(Callers(i)) <= n + 1 /\ Storing(i, c, S) \subseteq Callers(i)
  BY DEF Sharing, Storing
<1>2. /\ IsFiniteSet(Storing(i, c, S))
      /\ Cardinality(Storing(i, c, S)) <= Cardinality(Callers(i))
  BY <1>1, FS_Subset
<1>3. Cardinality(Storing(i, c, S)) \in Nat /\ Cardinality(Callers(i)) \in Nat
  BY <1>1, <1>2, FS_CardinalityType
<1> QED BY <1>1, <1>2, <1>3

\* A store without entries exceeds no quota.
LEMMA EmptyDataOK == ASSUME NEW n \in Nat PROVE DataOK(EmptyData, n)
<1> SUFFICES ASSUME NEW c \in Categories, NEW q \in Quotas(c)
             PROVE  IsFiniteSet({}) /\ Cardinality({}) <= q.limit + n
  <2>1. \A x \in Categories : [of |-> Entry, limit |-> GlobalLimit] \in Quotas(x)
    BY DEF Quotas
  <2>2. \A x \in Categories : EmptyData[x] = {} /\ (\A S : EmptyData[x] \cap S = {})
    BY DEF EmptyData
  <2> QED BY <2>1, <2>2 DEF DataOK
<1>1. IsFiniteSet({}) /\ Cardinality({}) = 0
  BY FS_EmptySet
<1> QED BY <1>1, QuotaTypes

\* Whatever removes entries, or ends an operation, keeps the quotas of a store.
LEMMA StoreKeeps ==
    ASSUME NEW n \in Nat, Sharing(n), NEW i \in Instances, StoreOK(i, n),
           \A c \in Categories : data'[i][c] \subseteq data[i][c],
           \A t \in Callers(i) : pc'[t] = "append" => pc[t] = "append" /\ pending'[t] = pending[t]
    PROVE  StoreOK(i, n)'
<1> SUFFICES ASSUME NEW c \in Categories
             PROVE  /\ IsFiniteSet(data'[i][c])
                    /\ \A q \in Quotas(c) :
                         Cardinality(data'[i][c] \cap q.of) + Cardinality(Storing(i, c, q.of)') <= q.limit + n
  BY DEF StoreOK
<1>1. IsFiniteSet(data[i][c]) /\ data'[i][c] \subseteq data[i][c]
  BY DEF StoreOK
<1>2. IsFiniteSet(data'[i][c])
  BY <1>1, FS_Subset
<1>3. ASSUME NEW q \in Quotas(c)
      PROVE  Cardinality(data'[i][c] \cap q.of) + Cardinality(Storing(i, c, q.of)') <= q.limit + n
  <2>1. Storing(i, c, q.of)' \subseteq Storing(i, c, q.of)
    BY DEF Storing
  <2>2. IsFiniteSet(Storing(i, c, q.of)) /\ Cardinality(Storing(i, c, q.of)) \in Nat
    BY StoringCounted
  <2>3. /\ Cardinality(Storing(i, c, q.of)') <= Cardinality(Storing(i, c, q.of))
        /\ Cardinality(Storing(i, c, q.of)') \in Nat
    BY <2>1, <2>2, FS_Subset, FS_CardinalityType
  <2>4. /\ Cardinality(data'[i][c] \cap q.of) <= Cardinality(data[i][c] \cap q.of)
        /\ Cardinality(data'[i][c] \cap q.of) \in Nat /\ Cardinality(data[i][c] \cap q.of) \in Nat
    BY <1>1, PartsCounted
  <2>5. Cardinality(data[i][c] \cap q.of) + Cardinality(Storing(i, c, q.of)) <= q.limit + n
    BY DEF StoreOK
  <2> QED BY <2>2, <2>3, <2>4, <2>5, QuotaTypes
<1> QED BY <1>2, <1>3

\* With a thread that has passed the checks, no quota is exceeded by more than
\* the threads beside it: none was reached when it looked.
LEMMA StoreAdmits ==
    ASSUME NEW n \in Nat, Sharing(n), NEW i \in Instances, StoreOK(i, n),
           NEW t \in Callers(i), NEW d \in Categories, NEW e \in Entry,
           \A c \in Categories : data'[i][c] = data[i][c],
           \A q \in Quotas(d) : e \in q.of => Cardinality(data[i][d] \cap q.of) < q.limit,
           pending'[t] = <<d, e>>,
           \A u \in Callers(i) \ {t} : pc'[u] = pc[u] /\ pending'[u] = pending[u]
    PROVE  StoreOK(i, n)'
<1> SUFFICES ASSUME NEW c \in Categories
             PROVE  /\ IsFiniteSet(data'[i][c])
                    /\ \A q \in Quotas(c) :
                         Cardinality(data'[i][c] \cap q.of) + Cardinality(Storing(i, c, q.of)') <= q.limit + n
  BY DEF StoreOK
<1>1. IsFiniteSet(data[i][c]) /\ data'[i][c] = data[i][c]
  BY DEF StoreOK
<1>3. ASSUME NEW q \in Quotas(c)
      PROVE  Cardinality(data[i][c] \cap q.of) + Cardinality(Storing(i, c, q.of)') <= q.limit + n
  <2> DEFINE A == Storing(i, c, q.of)
             B == {u \in Callers(i) : pc'[u] = "append" /\ pending'[u][1] = c /\ pending'[u][2] \in q.of}
  <2>1. Storing(i, c, q.of)' = B
    BY DEF Storing
  <2>2. IsFiniteSet(A) /\ Cardinality(A) \in Nat
    BY StoringCounted
  <2>4. Cardinality(data[i][c] \cap q.of) \in Nat
    BY <1>1, PartsCounted
  <2>5. Cardinality(data[i][c] \cap q.of) + Cardinality(A) <= q.limit + n
    BY DEF StoreOK
  <2>6. CASE c = d /\ e \in q.of
    <3>1. Cardinality(data[i][c] \cap q.of) < q.limit
      BY <2>6
    <3>2. IsFiniteSet(Callers(i)) /\ Cardinality(Callers(i)) <= n + 1 /\ B \subseteq Callers(i)
      BY DEF Sharing
    <3>3. Cardinality(B) <= Cardinality(Callers(i)) /\ Cardinality(B) \in Nat /\ Cardinality(Callers(i)) \in Nat
      BY <3>2, FS_Subset, FS_CardinalityType
    <3> HIDE DEF A, B
    <3> QED BY <2>1, <2>4, <3>1, <3>2, <3>3, QuotaTypes
  <2>7. CASE ~(c = d /\ e \in q.of)
    <3>1. B \subseteq A
      BY <2>7 DEF Storing
    <3> HIDE DEF A, B
    <3>2. Cardinality(B) <= Cardinality(A) /\ Cardinality(B) \in Nat
      BY <2>2, <3>1, FS_Subset, FS_CardinalityType
    <3> QED BY <2>1, <2>2, <2>4, <2>5, <3>2, QuotaTypes
  <2> QED BY <2>6, <2>7
<1> QED BY <1>1, <1>3

\* An append turns a thread that stores into an entry.
LEMMA StoreAppends ==
    ASSUME NEW n \in Nat, Sharing(n), NEW i \in Instances, StoreOK(i, n),
           NEW t \in Callers(i), NEW d \in Categories, NEW e \in Entry,
           pc[t] = "append", pc'[t] # "append", pending[t] = <<d, e>>,
           \A c \in Categories : data'[i][c] = IF c = d THEN data[i][c] \union {e} ELSE data[i][c],
           \A u \in Callers(i) \ {t} : pc'[u] = pc[u] /\ pending'[u] = pending[u]
    PROVE  StoreOK(i, n)'
<1> SUFFICES ASSUME NEW c \in Categories
             PROVE  /\ IsFiniteSet(data'[i][c])
                    /\ \A q \in Quotas(c) :
                         Cardinality(data'[i][c] \cap q.of) + Cardinality(Storing(i, c, q.of)') <= q.limit + n
  BY DEF StoreOK
<1>1. IsFiniteSet(data[i][c])
  BY DEF StoreOK
<1>2. IsFiniteSet(data'[i][c])
  BY <1>1, FS_AddElement
<1>3. ASSUME NEW q \in Quotas(c)
      PROVE  Cardinality(data'[i][c] \cap q.of) + Cardinality(Storing(i, c, q.of)') <= q.limit + n
  <2> DEFINE A == Storing(i, c, q.of)
             B == {u \in Callers(i) : pc'[u] = "append" /\ pending'[u][1] = c /\ pending'[u][2] \in q.of}
             D == data[i][c] \cap q.of
             E == data'[i][c] \cap q.of
  <2>1. Storing(i, c, q.of)' = B
    BY DEF Storing
  <2>2. IsFiniteSet(A) /\ Cardinality(A) \in Nat
    BY StoringCounted
  <2>4. IsFiniteSet(D) /\ Cardinality(D) \in Nat
    BY <1>1, PartsCounted
  <2>5. Cardinality(D) + Cardinality(A) <= q.limit + n
    BY DEF StoreOK
  <2>6. CASE c = d /\ e \in q.of
    <3>0. pending[t][1] = d /\ pending[t][2] = e
      OBVIOUS
    <3>1. E = D \union {e} /\ t \in A
      BY <2>6, <3>0 DEF Storing
    <3>4. B = A \ {t}
      BY DEF Storing
    <3> HIDE DEF A, B, D, E
    <3>2. Cardinality(E) \in Nat /\ Cardinality(E) <= Cardinality(D) + 1
      <4>1. IsFiniteSet(E) /\ Cardinality(E) = IF e \in D THEN Cardinality(D) ELSE Cardinality(D) + 1
        BY <2>4, <3>1, FS_AddElement
      <4> QED BY <2>4, <4>1
    <3>3. Cardinality(B) = Cardinality(A) - 1
      BY <2>2, <3>1, <3>4, FS_RemoveElement
    <3> QED BY <2>1, <2>2, <2>4, <2>5, <3>2, <3>3, QuotaTypes DEF E
  <2>7. CASE ~(c = d /\ e \in q.of)
    <3>1. E = D /\ B \subseteq A
      BY <2>7 DEF Storing
    <3> HIDE DEF A, B, D, E
    <3>2. Cardinality(B) <= Cardinality(A) /\ Cardinality(B) \in Nat
      BY <2>2, <3>1, FS_Subset, FS_CardinalityType
    <3>3. Cardinality(E) + Cardinality(B) <= q.limit + n
      BY <2>2, <2>4, <2>5, <3>1, <3>2, QuotaTypes
    <3> QED BY <2>1, <3>3 DEF E
  <2> QED BY <2>6, <2>7
<1> QED BY <1>2, <1>3

\* What a save takes from a store exceeds no quota by more.
LEMMA StoreSaved ==
    ASSUME NEW n \in Nat, Sharing(n), NEW i \in Instances, StoreOK(i, n)
    PROVE  DataOK(data[i], n)
<1> SUFFICES ASSUME NEW c \in Categories, NEW q \in Quotas(c)
             PROVE  IsFiniteSet(data[i][c]) /\ Cardinality(data[i][c] \cap q.of) <= q.limit + n
  <2>1. \A x \in Categories : [of |-> Entry, limit |-> GlobalLimit] \in Quotas(x)
    BY DEF Quotas
  <2> QED BY <2>1 DEF DataOK, StoreOK
<1>1. IsFiniteSet(data[i][c])
  BY DEF StoreOK
<1>2. Cardinality(data[i][c] \cap q.of) \in Nat
  BY <1>1, PartsCounted
<1>3. Cardinality(Storing(i, c, q.of)) \in Nat
  BY StoringCounted
<1>4. Cardinality(data[i][c] \cap q.of) + Cardinality(Storing(i, c, q.of)) <= q.limit + n
  BY DEF StoreOK
<1> QED BY <1>1, <1>2, <1>3, <1>4, QuotaTypes

\* Data without a thread that stores.
LEMMA StoreLoaded ==
    ASSUME NEW n \in Nat, NEW i \in Instances, NEW D, DataOK(D, n), data'[i] = D,
           \A t \in Callers(i) : pc'[t] # "append"
    PROVE  StoreOK(i, n)'
<1> SUFFICES ASSUME NEW c \in Categories, NEW q \in Quotas(c)
             PROVE  /\ IsFiniteSet(D[c])
                    /\ Cardinality(D[c] \cap q.of) + Cardinality(Storing(i, c, q.of)') <= q.limit + n
  <2>1. \A x \in Categories : [of |-> Entry, limit |-> GlobalLimit] \in Quotas(x)
    BY DEF Quotas
  <2> QED BY <2>1 DEF StoreOK
<1>1. IsFiniteSet(D[c]) /\ Cardinality(D[c] \cap q.of) <= q.limit + n
  BY DEF DataOK
<1>2. Cardinality(D[c] \cap q.of) \in Nat
  BY <1>1, PartsCounted
<1>3. Storing(i, c, q.of)' = {}
  BY DEF Storing
<1>4. Cardinality(Storing(i, c, q.of)') = 0
  BY <1>3, FS_EmptySet
<1> QED BY <1>1, <1>2, <1>4, QuotaTypes

\* Stores and files start without entries.
LEMMA InitEntries == ASSUME NEW n \in Nat, Init PROVE EntryInv(n)
<1>1. DataOK(EmptyData, n)
  BY EmptyDataOK
<1>2. ASSUME NEW i \in Instances PROVE StoreOK(i, n)
  <2> SUFFICES ASSUME NEW c \in Categories, NEW q \in Quotas(c)
               PROVE  /\ IsFiniteSet(data[i][c])
                      /\ Cardinality(data[i][c] \cap q.of) + Cardinality(Storing(i, c, q.of)) <= q.limit + n
    <3>1. \A x \in Categories : [of |-> Entry, limit |-> GlobalLimit] \in Quotas(x)
      BY DEF Quotas
    <3> QED BY <3>1 DEF StoreOK
  <2>1. data[i][c] = {} /\ Storing(i, c, q.of) = {} /\ data[i][c] \cap q.of = {}
    BY DEF Init, EmptyData, Storing, Callers
  <2> QED BY <2>1, FS_EmptySet, QuotaTypes
<1> QED BY <1>2, KindsApart DEF Init, EntryInv

\* What remember_* and add_note have checked, quota by quota.
LEMMA ChecksPassed ==
    ASSUME NEW D \in Contents, NEW c \in Categories, IsFiniteSet(D[c]), NEW e \in Entry,
           UnderLimits(D, c, e.user), c \notin Notes => ~Holds(D, c, e.value),
           NEW q \in Quotas(c), e \in q.of
    PROVE  Cardinality(D[c] \cap q.of) < q.limit
<1>1. D[c] \subseteq Entry
  BY DEF Contents
<1>2. CASE q = [of |-> Entry, limit |-> GlobalLimit]
  <2>1. D[c] \cap q.of = D[c]
    BY <1>1, <1>2
  <2> QED BY <1>2, <2>1 DEF UnderLimits
<1>3. ASSUME NEW u \in Users, q = [of |-> {x \in Entry : x.user = u}, limit |-> PerUserLimit]
      PROVE  Cardinality(D[c] \cap q.of) < q.limit
  <2>1. e.user = u
    BY <1>3
  <2>2. D[c] \cap q.of = EntriesOf(D, c, e.user)
    BY <1>1, <1>3, <2>1 DEF EntriesOf
  <2> QED BY <1>3, <2>2 DEF UnderLimits
<1>4. ASSUME c \notin Notes, NEW v \in Values, q = [of |-> {x \in Entry : x.value = v}, limit |-> 1]
      PROVE  Cardinality(D[c] \cap q.of) < q.limit
  <2>1. e.value = v
    BY <1>4
  <2>2. D[c] \cap q.of = {} /\ q.limit = 1
    BY <1>1, <1>4, <2>1 DEF Holds
  <2> QED BY <2>2, FS_EmptySet
<1> QED BY <1>2, <1>3, <1>4 DEF Quotas

\* Every step keeps to the quotas, but for as many entries as a store has other
\* callers.
LEMMA NextEntries ==
    ASSUME NEW n \in Nat, Sharing(n), TypeInv, TypeInv', EntryInv(n), [Next]_vars
    PROVE  EntryInv(n)'
<1> USE HomeAssumption, KindsApart DEF TypeInv
\* A step of thread t on its store.
<1>a. ASSUME NEW t \in Threads, StoreOK(Home[t], n)',
             \A i \in Instances \ {Home[t]} : data'[i] = data[i],
             \A u \in Threads \ {t} : pc'[u] = pc[u] /\ pending'[u] = pending[u],
             disk' \in Contents => DataOK(disk', n), tmp' \in Contents => DataOK(tmp', n)
      PROVE  EntryInv(n)'
  <2>1. ASSUME NEW i \in Instances \ {Home[t]} PROVE StoreOK(i, n)'
    <3>1. StoreOK(i, n) /\ t \notin Callers(i) /\ Callers(i) \subseteq Threads
      BY <2>1 DEF EntryInv, Callers
    <3>2. /\ \A c \in Categories : data'[i][c] \subseteq data[i][c]
          /\ \A u \in Callers(i) : pc'[u] = "append" => pc[u] = "append" /\ pending'[u] = pending[u]
      BY <1>a, <2>1, <3>1
    <3> QED BY <3>1, <3>2, StoreKeeps
  <2>2. \A i \in Instances : StoreOK(i, n)'
    <3> SUFFICES ASSUME NEW i \in Instances PROVE StoreOK(i, n)'
      OBVIOUS
    <3>1. CASE i = Home[t]
      BY <1>a, <3>1
    <3> QED BY <2>1, <3>1
  <2> QED BY <1>a, <2>2 DEF EntryInv
<1>b. ASSUME NEW t \in Threads PROVE Home[t] \in Instances /\ t \in Callers(Home[t]) /\ StoreOK(Home[t], n)
  BY <1>b DEF EntryInv, Callers
\* One that removes entries or ends.
<1>c. ASSUME NEW t \in Threads, \A c \in Categories : data'[Home[t]][c] \subseteq data[Home[t]][c],
             \A i \in Instances \ {Home[t]} : data'[i] = data[i],
             pc'[t] # "append",
             \A u \in Threads \ {t} : pc'[u] = pc[u] /\ pending'[u] = pending[u],
             disk' \in Contents => DataOK(disk', n), tmp' \in Contents => DataOK(tmp', n)
      PROVE  EntryInv(n)'
  <2>1. Home[t] \in Instances /\ StoreOK(Home[t], n) /\ Callers(Home[t]) \subseteq Threads
    BY <1>b DEF Callers
  <2>2. \A u \in Callers(Home[t]) : pc'[u] = "append" => pc[u] = "append" /\ pending'[u] = pending[u]
    BY <1>c, <2>1
  <2>3. StoreOK(Home[t], n)'
    BY <1>c, <2>1, <2>2, StoreKeeps
  <2> QED BY <1>a, <1>c, <2>3
<1>1. CASE UNCHANGED vars
  <2>1. ASSUME NEW i \in Instances PROVE StoreOK(i, n)'
    BY <1>1, <2>1, StoreKeeps DEF vars, EntryInv
  <2> QED BY <1>1, <2>1 DEF vars, EntryInv
<1>2. ASSUME NEW t \in Threads, NEW c \in Categories, NEW e \in Entry,
             Remember(t, c, e) \/ AddNote(t, c, e)
      PROVE  EntryInv(n)'
  <2> DEFINE D == data[Home[t]]
  <2>1. D \in Contents /\ IsFiniteSet(D[c])
    BY <1>b DEF StoreOK, TypeOK
  <2>2. UnderLimits(D, c, e.user) /\ (c \notin Notes => ~Holds(D, c, e.value))
    BY <1>2 DEF Remember, AddNote
  <2> HIDE DEF D
  <2>3. \A q \in Quotas(c) : e \in q.of => Cardinality(D[c] \cap q.of) < q.limit
    BY <2>1, <2>2, ChecksPassed
  <2>4. /\ data' = data /\ disk' = disk /\ tmp' = tmp
        /\ \A u \in Threads \ {t} : pc'[u] = pc[u] /\ pending'[u] = pending[u]
        /\ pending'[t] = <<c, e>>
    BY <1>2 DEF Remember, AddNote, TypeOK
  <2>5. /\ \A d \in Categories : data'[Home[t]][d] = data[Home[t]][d]
        /\ \A u \in Callers(Home[t]) \ {t} : pc'[u] = pc[u] /\ pending'[u] = pending[u]
    BY <2>4 DEF Callers
  <2>6. StoreOK(Home[t], n)'
    BY <1>b, <2>3, <2>4, <2>5, StoreAdmits DEF D
  <2> QED BY <1>a, <2>4, <2>6 DEF EntryInv
<1>3. ASSUME NEW t \in Threads, NEW c \in Categories, NEW v \in Values, Describe(t, c, v)
      PROVE  EntryInv(n)'
  <2>1. /\ data' = data /\ disk' = disk /\ tmp' = tmp /\ pc'[t] # "append"
        /\ \A u \in Threads \ {t} : pc'[u] = pc[u] /\ pending'[u] = pending[u]
    BY <1>3 DEF Describe, TypeOK
  <2> QED BY <1>c, <2>1 DEF EntryInv
<1>4. ASSUME NEW t \in Threads, Forgetting(t) PROVE EntryInv(n)'
  <2>1. /\ disk' = disk /\ tmp' = tmp /\ pc'[t] # "append"
        /\ \A u \in Threads \ {t} : pc'[u] = pc[u] /\ pending'[u] = pending[u]
    BY <1>4 DEF Forgetting, Forget, ClearCategory, ClearAll, TypeOK
  <2>2. \A i \in Instances \ {Home[t]} : data'[i] = data[i]
    BY <1>4 DEF Forgetting, Forget, ClearCategory, ClearAll, TypeOK
  <2>3. Home[t] \in Instances /\ data[Home[t]] \in Contents
    BY DEF TypeOK
  <2>4. ASSUME NEW c \in Categories, NEW v \in Values, Forget(t, c, v), NEW d \in Categories
        PROVE  data'[Home[t]][d] \subseteq data[Home[t]][d]
    <3>1. data'[Home[t]] = [data[Home[t]] EXCEPT ![c] = {e \in @ : e.value # v}]
      BY <2>3, <2>4 DEF Forget, TypeOK
    <3> QED BY <2>3, <3>1 DEF Contents
  <2>5. ASSUME NEW c \in Categories, ClearCategory(t, c), NEW d \in Categories
        PROVE  data'[Home[t]][d] \subseteq data[Home[t]][d]
    <3>1. data'[Home[t]] = [data[Home[t]] EXCEPT ![c] = {}]
      BY <2>3, <2>5 DEF ClearCategory, TypeOK
    <3> QED BY <2>3, <3>1 DEF Contents
  <2>6. ASSUME ClearAll(t), NEW d \in Categories
        PROVE  data'[Home[t]][d] \subseteq data[Home[t]][d]
    BY <2>3, <2>6 DEF ClearAll, TypeOK, EmptyData
  <2>7. \A d \in Categories : data'[Home[t]][d] \subseteq data[Home[t]][d]
    BY <1>4, <2>4, <2>5, <2>6 DEF Forgetting
  <2> QED BY <1>c, <2>1, <2>2, <2>7 DEF EntryInv
<1>7. ASSUME NEW t \in Threads, AppendEntry(t) PROVE EntryInv(n)'
  <2>1. PICK d \in Categories, e \in Entry : pending[t] = <<d, e>>
    BY <1>7 DEF AppendEntry, TypeOK
  <2>2. /\ pc[t] = "append" /\ pc'[t] # "append" /\ disk' = disk /\ tmp' = tmp
        /\ \A u \in Threads \ {t} : pc'[u] = pc[u] /\ pending'[u] = pending[u]
    BY <1>7 DEF AppendEntry, TypeOK
  <2>3. \A i \in Instances \ {Home[t]} : data'[i] = data[i]
    BY <1>7 DEF AppendEntry, TypeOK
  <2>4. \A c \in Categories : data'[Home[t]][c] = IF c = d THEN data[Home[t]][c] \union {e} ELSE data[Home[t]][c]
    <3>1. Home[t] \in Instances /\ data[Home[t]] \in Contents
      BY DEF TypeOK
    <3>2. data'[Home[t]] = [data[Home[t]] EXCEPT ![d] = @ \union {e}]
      BY <1>7, <2>1, <3>1 DEF AppendEntry, TypeOK
    <3> QED BY <3>1, <3>2 DEF Contents
  <2>5. \A u \in Callers(Home[t]) \ {t} : pc'[u] = pc[u] /\ pending'[u] = pending[u]
    BY <2>2 DEF Callers
  <2>6. StoreOK(Home[t], n)'
    BY <1>b, <2>1, <2>2, <2>4, <2>5, StoreAppends
  <2> QED BY <1>a, <2>2, <2>3, <2>6 DEF EntryInv
<1>8. ASSUME NEW t \in Threads, OpenTmp(t) PROVE EntryInv(n)'
  <2>1. /\ data' = data /\ disk' = disk /\ tmp' \notin Contents /\ pc'[t] # "append"
        /\ \A u \in Threads \ {t} : pc'[u] = pc[u] /\ pending'[u] = pending[u]
    BY <1>8 DEF OpenTmp, TypeOK
  <2> QED BY <1>c, <2>1 DEF EntryInv
<1>9. ASSUME NEW t \in Threads, Dump(t) \/ Replace(t) \/ SaveFails(t) PROVE EntryInv(n)'
  <2>1. DataOK(data[Home[t]], n)
    BY <1>b, StoreSaved
  <2>2. disk' \in {disk, tmp, Garbled, data[Home[t]]} /\ tmp' \in {tmp, NoFile, Garbled, data[Home[t]]}
    BY <1>9 DEF Dump, Replace, SaveFails, WriteThrough, Dumped
  <2>3. (disk' \in Contents => DataOK(disk', n)) /\ (tmp' \in Contents => DataOK(tmp', n))
    BY <2>1, <2>2 DEF EntryInv
  <2>4. /\ data' = data /\ pc'[t] # "append"
        /\ \A u \in Threads \ {t} : pc'[u] = pc[u] /\ pending'[u] = pending[u]
    BY <1>9 DEF Dump, Replace, SaveFails, Return, TypeOK
  <2> QED BY <1>c, <2>3, <2>4
<1>12. CASE Crash \/ Restart
  <2>1. IsContents(disk) => disk \in Contents
    BY DEF IsContents, TypeOK
  <2>2. DataOK(EmptyData, n)
    BY EmptyDataOK
  <2>3. ASSUME NEW i \in Instances PROVE data'[i] = EmptyData \/ (disk \in Contents /\ data'[i] = disk)
    BY <1>12, <2>1 DEF Crash, Restart
  <2>4. \A t \in Threads : pc'[t] # "append"
    BY <1>12 DEF Crash, Restart
  <2>5. ASSUME NEW i \in Instances PROVE StoreOK(i, n)'
    BY <2>2, <2>3, <2>4, StoreLoaded DEF EntryInv, Callers
  <2>6. (disk' \in Contents => DataOK(disk', n)) /\ (tmp' \in Contents => DataOK(tmp', n))
    BY <1>12, <2>2 DEF Crash, Restart, EntryInv
  <2> QED BY <2>5, <2>6 DEF EntryInv
<1> QED
  BY <1>1, <1>2, <1>3, <1>4, <1>7, <1>8, <1>9, <1>12
  DEF Next, Operation, Remembering, Progress

\* The entries of stores, files and saves under way in every reachable state.
THEOREM MemoryEntryInvariant == ASSUME NEW n \in Nat, Sharing(n) PROVE Spec => []EntryInv(n)
<1>1. Init => TypeInv /\ FileInv /\ EntryInv(n)
  BY InitTypes, InitEntries
<1>2. TypeInv /\ FileInv /\ EntryInv(n) /\ [Next]_vars => (TypeInv /\ FileInv /\ EntryInv(n))'
  BY NextTypes, NextFile, NextEntries
<1> QED BY <1>1, <1>2, PTL DEF Spec

\* Whatever a store, a save or a file holds exceeds no quota by more.
LEMMA HeldOK ==
    ASSUME NEW n \in Nat, Sharing(n), TypeInv, EntryInv(n), NEW D \in Held
    PROVE  D \in Contents /\ DataOK(D, n)
  BY StoreSaved DEF TypeInv, TypeOK, EntryInv, Held

\* What is left of the quotas where up to n threads beside one call a store.
QuotasOvershot(n) ==
    \A D \in Held : \A c \in Categories :
        /\ Cardinality(D[c]) <= GlobalLimit + n
        /\ \A u \in Users : Cardinality(EntriesOf(D, c, u)) <= PerUserLimit + n
        /\ c \notin Notes => \A v \in Values : Cardinality({e \in D[c] : e.value = v}) <= 1 + n

\* The quotas, one by one.
LEMMA QuotasMean ==
    ASSUME NEW n \in Nat, Sharing(n), TypeInv, EntryInv(n)
    PROVE  QuotasOvershot(n)
<1> SUFFICES ASSUME NEW D \in Held, NEW c \in Categories
             PROVE  /\ Cardinality(D[c]) <= GlobalLimit + n
                    /\ \A u \in Users : Cardinality(EntriesOf(D, c, u)) <= PerUserLimit + n
                    /\ c \notin Notes => \A v \in Values : Cardinality({e \in D[c] : e.value = v}) <= 1 + n
  BY DEF QuotasOvershot
<1>1. D[c] \subseteq Entry /\ \A q \in Quotas(c) : Cardinality(D[c] \cap q.of) <= q.limit + n
  BY HeldOK DEF DataOK, Contents
<1>2. Cardinality(D[c]) <= GlobalLimit + n
  <2> DEFINE q == [of |-> Entry, limit |-> GlobalLimit]
  <2>1. q \in Quotas(c) /\ D[c] \cap q.of = D[c]
    BY <1>1 DEF Quotas
  <2> QED BY <1>1, <2>1
<1>3. ASSUME NEW u \in Users PROVE Cardinality(EntriesOf(D, c, u)) <= PerUserLimit + n
  <2> DEFINE q == [of |-> {e \in Entry : e.user = u}, limit |-> PerUserLimit]
  <2>1. q \in Quotas(c) /\ D[c] \cap q.of = EntriesOf(D, c, u)
    BY <1>1 DEF Quotas, EntriesOf
  <2> QED BY <1>1, <2>1
<1>4. ASSUME c \notin Notes, NEW v \in Values PROVE Cardinality({e \in D[c] : e.value = v}) <= 1 + n
  <2> DEFINE q == [of |-> {e \in Entry : e.value = v}, limit |-> 1]
  <2>1. q \in Quotas(c) /\ D[c] \cap q.of = {e \in D[c] : e.value = v}
    BY <1>1, <1>4 DEF Quotas
  <2> QED BY <1>1, <2>1
<1> QED BY <1>2, <1>3, <1>4

\* Threads that share a store check and append in two steps without a lock: in
\* RAM and in every file, each quota is exceeded by at most one entry for every
\* other thread, and a value is there at most once for each (operations.py and
\* quotas.py).
THEOREM SharedStoresOvershoot == ASSUME NEW n \in Nat, Sharing(n) PROVE Spec => []QuotasOvershot(n)
<1>1. TypeInv /\ EntryInv(n) => QuotasOvershot(n)
  BY QuotasMean
<1> QED BY <1>1, MemoryFileInvariant, MemoryEntryInvariant, PTL

\* One caller per store is nobody beside it.
LEMMA OwnIsAlone == OwnStores => Sharing(0)
<1> SUFFICES ASSUME OwnStores, NEW i \in Instances
             PROVE  IsFiniteSet(Callers(i)) /\ Cardinality(Callers(i)) <= 0 + 1
  BY DEF Sharing
<1>1. CASE Callers(i) = {}
  BY <1>1, FS_EmptySet
<1>2. CASE Callers(i) # {}
  <2>1. PICK t \in Callers(i) : TRUE
    BY <1>2
  <2>2. Callers(i) = {t}
    BY <2>1 DEF OwnStores, Callers
  <2> QED BY <2>2, FS_Singleton
<1> QED BY <1>1, <1>2

\* Its entries keep to the quotas themselves.
LEMMA OwnEntries == OwnStores => (Spec => [](TypeInv /\ EntryInv(0)))
<1> SUFFICES ASSUME OwnStores PROVE Spec => [](TypeInv /\ EntryInv(0))
  OBVIOUS
<1>0. 0 \in Nat /\ Sharing(0)
  BY OwnIsAlone
<1>1. Init => TypeInv /\ EntryInv(0)
  BY <1>0, InitTypes, InitEntries
<1>2. TypeInv /\ EntryInv(0) /\ [Next]_vars => (TypeInv /\ EntryInv(0))'
  BY <1>0, NextTypes, NextEntries
<1> QED BY <1>1, <1>2, PTL DEF Spec

\* remember_* never stores a value twice where each store has one caller
\* (core/memory/operations.py, "Check if already exists").
THEOREM ValuesUnique == OwnStores => (Spec => []NoDuplicates)
<1> SUFFICES ASSUME OwnStores PROVE Spec => []NoDuplicates
  OBVIOUS
<1>0. 0 \in Nat /\ Sharing(0)
  BY OwnIsAlone
<1>1. TypeInv /\ EntryInv(0) => NoDuplicates
  <2> SUFFICES ASSUME TypeInv, EntryInv(0), NEW D \in Held, NEW c \in Categories \ Notes,
                      NEW e \in D[c], NEW f \in D[c], e.value = f.value
               PROVE  e = f
    BY DEF NoDuplicates
  <2> DEFINE S == {x \in D[c] : x.value = e.value}
  <2>1. D \in Contents /\ IsFiniteSet(D[c])
    BY <1>0, HeldOK DEF DataOK, Quotas
  <2>2. e.value \in Values
    BY <2>1 DEF Contents, Entry
  <2>3. Cardinality(S) <= 1 + 0
    BY <1>0, <2>2, QuotasMean DEF QuotasOvershot
  <2>4. IsFiniteSet(S) /\ e \in S /\ f \in S
    BY <2>1, FS_Subset
  <2> HIDE DEF S
  <2>5. S # {} /\ Cardinality(S) \in Nat /\ (Cardinality(S) = 0 <=> S = {})
    BY <2>4, FS_EmptySet, FS_CardinalityType
  <2>6. Cardinality(S) = 1
    BY <2>3, <2>5
  <2> QED BY <2>4, <2>6, FS_Singleton
<1>2. Spec => [](TypeInv /\ EntryInv(0))
  BY OwnEntries
<1> QED BY <1>1, <1>2, PTL

\* The quotas hold in RAM and on disk where each store has one caller
\* (core/memory/quotas.py).
THEOREM QuotasKept == OwnStores => (Spec => []WithinQuotas)
<1> SUFFICES ASSUME OwnStores PROVE Spec => []WithinQuotas
  OBVIOUS
<1>0. 0 \in Nat /\ Sharing(0)
  BY OwnIsAlone
<1>1. TypeInv /\ EntryInv(0) => WithinQuotas
  BY <1>0, LimitAssumption, QuotasMean DEF QuotasOvershot, WithinQuotas
<1>2. Spec => [](TypeInv /\ EntryInv(0))
  BY OwnEntries
<1> QED BY <1>1, <1>2, PTL

-----------------------------------------------------------------------------
\* A file ready to be put in place is the state of the store being saved, unless
\* another caller of the store has changed it meanwhile: he has still to save,
\* or his save may have failed.
Outdated(t) ==
    \E u \in Threads \ {t} : Home[u] = Home[t] /\ (pc[u] = "open" \/ SaveMayFail)

WholeInv ==
    \A t \in Threads : ~clash /\ pc[t] = "replace" => tmp = data[Home[t]] \/ Outdated(t)

\* Between its dump and its rename an undisturbed save finds its own dump in the
\* temp file.
LEMMA NextWhole == TypeInv /\ FileInv /\ WholeInv /\ [Next]_vars => WholeInv'
<1> SUFFICES ASSUME TypeInv, FileInv, WholeInv, [Next]_vars PROVE WholeInv'
  OBVIOUS
<1> USE HomeAssumption, KindsApart DEF TypeInv
<1>1. CASE UNCHANGED vars
  BY <1>1 DEF vars, WholeInv, Outdated
<1>2. ASSUME NEW t \in Threads, Operation(t) \/ AppendEntry(t)
      PROVE  WholeInv'
  <2>1. /\ pc'[t] \in {"append", "open"} /\ pc[t] # "open" /\ \A u \in Threads \ {t} : pc'[u] = pc[u]
        /\ tmp' = tmp /\ clash' = clash
    BY <1>2 DEF Operation, Remembering, Forgetting, AppendEntry, Remember, AddNote, Describe, Forget,
                ClearCategory, ClearAll, TypeOK
  <2>2. \A i \in Instances \ {Home[t]} : data'[i] = data[i]
    BY <1>2 DEF Operation, Remembering, Forgetting, AppendEntry, Remember, AddNote, Describe, Forget,
                ClearCategory, ClearAll, TypeOK
  <2>3. data' = data \/ pc'[t] = "open"
    BY <1>2 DEF Operation, Remembering, Forgetting, AppendEntry, Remember, AddNote, Describe, Forget,
                ClearCategory, ClearAll, TypeOK
  <2> SUFFICES ASSUME NEW u \in Threads, ~clash', pc'[u] = "replace"
               PROVE  tmp' = data'[Home[u]] \/ Outdated(u)'
    BY DEF WholeInv
  <2>4. u # t /\ pc[u] = "replace" /\ ~clash
    BY <2>1
  <2>5. CASE Home[u] = Home[t] /\ pc'[t] = "open"
    BY <2>4, <2>5 DEF Outdated
  <2>6. CASE ~(Home[u] = Home[t] /\ pc'[t] = "open")
    <3>1. data'[Home[u]] = data[Home[u]]
      BY <2>2, <2>3, <2>6
    <3>2. Outdated(u) => Outdated(u)'
      BY <2>1 DEF Outdated
    <3> QED BY <2>1, <2>4, <3>1, <3>2 DEF WholeInv
  <2> QED BY <2>5, <2>6
<1>3. ASSUME NEW t \in Threads, OpenTmp(t)
      PROVE  WholeInv'
  <2>1. ~clash' => \A u \in Threads : pc'[u] # "replace"
    BY <1>3 DEF OpenTmp, Saving, TypeOK
  <2> QED BY <2>1 DEF WholeInv
<1>4. ASSUME NEW t \in Threads, Dump(t)
      PROVE  WholeInv'
  <2>1. ~clash => tmp' = data[Home[t]]
    BY <1>4 DEF Dump, WriteThrough, Dumped, FileInv, Saving
  <2>2. \A u \in Threads : ~clash /\ pc'[u] = "replace" => u = t
    BY <1>4 DEF Dump, FileInv, Saving, TypeOK
  <2>3. data' = data /\ clash' = clash
    BY <1>4 DEF Dump
  <2> QED BY <2>1, <2>2, <2>3 DEF WholeInv
<1>5. ASSUME NEW t \in Threads, Replace(t) \/ SaveFails(t)
      PROVE  WholeInv'
  <2>1. pc'[t] = "idle" /\ \A u \in Threads \ {t} : pc'[u] = pc[u]
    BY <1>5 DEF Replace, SaveFails, Return, TypeOK
  <2>2. data' = data /\ clash' = clash
    BY <1>5 DEF Replace, SaveFails
  <2> SUFFICES ASSUME NEW u \in Threads, ~clash, pc'[u] = "replace"
               PROVE  tmp' = data[Home[u]] \/ Outdated(u)'
    BY <2>2 DEF WholeInv
  <2>3. u # t /\ pc[u] = "replace"
    BY <2>1
  <2>4. ~Saving(t)
    BY <2>3 DEF FileInv, Saving
  <2>5. SaveFails(t) /\ pc[t] = "open" /\ SaveMayFail
    BY <1>5, <2>4 DEF Replace, SaveFails, Saving
  <2>6. tmp' = tmp
    BY <2>5 DEF SaveFails, WriteThrough, FileInv
  <2>7. Outdated(u) => Outdated(u)'
    BY <2>5 DEF Outdated
  <2> QED BY <2>3, <2>6, <2>7 DEF WholeInv
<1>6. CASE Crash \/ Restart
  <2>1. \A t \in Threads : pc'[t] # "replace"
    BY <1>6 DEF Crash, Restart
  <2> QED BY <2>1 DEF WholeInv
<1> QED
  BY <1>1, <1>2, <1>3, <1>4, <1>5, <1>6 DEF Next, Progress

\* What an undisturbed save puts into memory.json.
LEMMA WholeReplaced ==
    ASSUME TypeInv, FileInv, WholeInv, NEW t \in Threads, Replace(t), ~clash
    PROVE  disk' = data[Home[t]] \/ Outdated(t)
<1>1. tmp \in Contents /\ (tmp = data[Home[t]] \/ Outdated(t))
  BY DEF Replace, FileInv, WholeInv
<1> QED BY <1>1, KindsApart DEF Replace

\* It holds in every behaviour.
LEMMA WholeInvariant == Spec => [](TypeInv /\ FileInv /\ WholeInv)
<1>1. Init => TypeInv /\ FileInv /\ WholeInv
  BY InitTypes DEF Init, WholeInv
<1>2. TypeInv /\ FileInv /\ WholeInv /\ [Next]_vars => (TypeInv /\ FileInv /\ WholeInv)'
  BY NextTypes, NextFile, NextWhole
<1> QED BY <1>1, <1>2, PTL DEF Spec

\* A save that met no other save leaves the store's state in memory.json
\* (core/memory/persistence.py, _save).
THEOREM SavesWhole == OwnStores => (Spec => UndisturbedSaveIsWhole)
<1> SUFFICES ASSUME OwnStores PROVE Spec => UndisturbedSaveIsWhole
  OBVIOUS
<1>1. ASSUME TypeInv, FileInv, WholeInv, NEW t \in Threads, Replace(t), ~clash
      PROVE  disk' = data[Home[t]]
  BY <1>1, WholeReplaced DEF Outdated, OwnStores
<1>2. TypeInv /\ FileInv /\ WholeInv => \A t \in Threads : Replace(t) /\ ~clash => disk' = data[Home[t]]
  BY <1>1
<1> QED BY <1>2, WholeInvariant, PTL DEF UndisturbedSaveIsWhole

\* Where threads share a store and no save fails, such a save lacks at most what
\* another thread has changed since and is about to save.
THEOREM SharedSavesWhole ==
    ~SaveMayFail =>
        (Spec => [][\A t \in Threads : Replace(t) /\ ~clash =>
                       \/ disk' = data[Home[t]]
                       \/ \E u \in Threads : Home[u] = Home[t] /\ pc[u] = "open"]_vars)
<1> SUFFICES ASSUME ~SaveMayFail
             PROVE  Spec => [][\A t \in Threads : Replace(t) /\ ~clash =>
                                  \/ disk' = data[Home[t]]
                                  \/ \E u \in Threads : Home[u] = Home[t] /\ pc[u] = "open"]_vars
  OBVIOUS
<1>1. ASSUME TypeInv, FileInv, WholeInv, NEW t \in Threads, Replace(t), ~clash
      PROVE  \/ disk' = data[Home[t]]
             \/ \E u \in Threads : Home[u] = Home[t] /\ pc[u] = "open"
  BY <1>1, WholeReplaced DEF Outdated
<1>2. TypeInv /\ FileInv /\ WholeInv =>
         \A t \in Threads : Replace(t) /\ ~clash =>
            \/ disk' = data[Home[t]]
            \/ \E u \in Threads : Home[u] = Home[t] /\ pc[u] = "open"
  BY <1>1
<1> QED BY <1>2, WholeInvariant, PTL

-----------------------------------------------------------------------------
\* A process with one thread, as the command line program: its store and the file agree
\* between operations, and a store that was added to has what the file has.
Lone == ~SaveMayFail /\ \A t, u \in Threads : t = u

LoneInv ==
    /\ ~clash
    /\ \A t \in Threads :
         /\ pc[t] \in {"down", "idle"} => pending[t] = Nothing
         /\ pc[t] \in {"idle", "append"} /\ disk \in Contents => data[Home[t]] = disk
         /\ pc[t] \in {"open", "write", "replace"} /\ pending[t] # Nothing /\ disk \in Contents =>
               \A c \in Categories : disk[c] \subseteq data[Home[t]][c]

\* The agreement is kept: only a save and a restart change the file.
LEMMA NextLone ==
    Lone /\ TypeInv /\ FileInv /\ WholeInv /\ LoneInv /\ [Next]_vars => LoneInv'
<1> SUFFICES ASSUME Lone, TypeInv, FileInv, WholeInv, LoneInv, [Next]_vars PROVE LoneInv'
  OBVIOUS
<1> USE HomeAssumption, KindsApart DEF TypeInv
<1>1. CASE UNCHANGED vars
  BY <1>1 DEF vars, LoneInv
<1>2. ASSUME NEW t \in Threads, Operation(t)
      PROVE  LoneInv'
  <2>1. \A u \in Threads : u = t
    BY DEF Lone
  <2>2. CASE \E c \in Categories, e \in Entry : Remember(t, c, e) \/ AddNote(t, c, e)
    BY <2>1, <2>2 DEF Remember, AddNote, LoneInv, TypeOK
  <2>3. CASE /\ pc[t] = "idle" /\ pc'[t] = "open" /\ pending' = pending /\ clash' = clash
    BY <2>1, <2>3 DEF LoneInv
  <2>4. Operation(t) => \/ \E c \in Categories, e \in Entry : Remember(t, c, e) \/ AddNote(t, c, e)
                        \/ pc[t] = "idle" /\ pc'[t] = "open" /\ pending' = pending /\ clash' = clash
    BY DEF Operation, Remembering, Forgetting, Describe, Forget, ClearCategory, ClearAll, TypeOK
  <2> QED BY <1>2, <2>2, <2>3, <2>4
<1>3. ASSUME NEW t \in Threads, AppendEntry(t)
      PROVE  LoneInv'
  <2>1. \A u \in Threads : u = t
    BY DEF Lone
  <2>2. /\ pc[t] = "append" /\ pc'[t] = "open" /\ UNCHANGED <<disk, pending, clash>>
        /\ data' = [data EXCEPT ![Home[t]][pending[t][1]] = @ \union {pending[t][2]}]
    BY <1>3 DEF AppendEntry, TypeOK
  <2>3. Home[t] \in Instances /\ data[Home[t]] \in Contents
    BY DEF TypeOK
  <2>4. \A c \in Categories : data[Home[t]][c] \subseteq data'[Home[t]][c]
    BY <2>2, <2>3 DEF TypeOK, Contents
  <2> QED BY <2>1, <2>2, <2>4 DEF LoneInv
<1>4. ASSUME NEW t \in Threads, OpenTmp(t)
      PROVE  LoneInv'
  <2>1. \A u \in Threads : u = t
    BY DEF Lone
  <2>2. /\ pc[t] = "open" /\ pc'[t] = "write" /\ UNCHANGED <<data, disk, pending>>
    BY <1>4 DEF OpenTmp, TypeOK
  <2>3. ~clash'
    <3>1. \A u \in Threads : ~Saving(u)
      BY <2>1, <2>2 DEF Saving
    <3> QED BY <1>4, <3>1 DEF OpenTmp, LoneInv
  <2> QED BY <2>1, <2>2, <2>3 DEF LoneInv
<1>5. ASSUME NEW t \in Threads, Dump(t)
      PROVE  LoneInv'
  <2>1. \A u \in Threads : u = t
    BY DEF Lone
  <2>2. /\ pc[t] = "write" /\ pc'[t] = "replace" /\ UNCHANGED <<data, pending, clash>>
    BY <1>5 DEF Dump, TypeOK
  <2>3. disk' = disk
    BY <1>5, <2>2 DEF Dump, WriteThrough, FileInv, LoneInv, Saving
  <2> QED BY <2>1, <2>2, <2>3 DEF LoneInv
<1>6. ASSUME NEW t \in Threads, Replace(t)
      PROVE  LoneInv'
  <2>1. \A u \in Threads : u = t
    BY DEF Lone
  <2>2. /\ pc'[t] = "idle" /\ pending'[t] = Nothing /\ UNCHANGED <<data, clash>>
    BY <1>6 DEF Replace, Return, TypeOK
  <2>3. disk' = data[Home[t]]
    BY <1>6, <2>1, WholeReplaced DEF Outdated, LoneInv
  <2> QED BY <2>1, <2>2, <2>3 DEF LoneInv
<1>7. ASSUME NEW t \in Threads, SaveFails(t) PROVE LoneInv'
  BY <1>7 DEF SaveFails, Lone
<1>8. CASE Crash
  BY <1>8 DEF Crash, LoneInv
<1>9. CASE Restart
  <2>1. /\ \A t \in Threads : pc[t] = "down" /\ pc'[t] = "idle"
        /\ ~clash' /\ pending' = pending
    BY <1>9 DEF Restart, LoneInv
  <2>2. \A t \in Threads : disk' \in Contents => data'[Home[t]] = disk'
    BY <1>9 DEF Restart, Lone, TypeOK, IsContents
  <2> QED BY <2>1, <2>2 DEF LoneInv
<1> QED
  BY <1>1, <1>2, <1>3, <1>4, <1>5, <1>6, <1>7, <1>8, <1>9 DEF Next, Progress

\* With one thread whose saves do not fail, remembering takes nothing out of memory.json: what
\* was reported as stored goes only when it is forgotten (store.py, "Persistent storage").
THEOREM LoneRememberKeepsOthers ==
    Lone => (Spec => [][\A t \in Threads :
                           Replace(t) /\ pending[t] # Nothing /\ disk \in Contents =>
                               \A c \in Categories : disk[c] \subseteq disk'[c]]_vars)
<1> SUFFICES ASSUME Lone
             PROVE  Spec => [][\A t \in Threads :
                                  Replace(t) /\ pending[t] # Nothing /\ disk \in Contents =>
                                      \A c \in Categories : disk[c] \subseteq disk'[c]]_vars
  OBVIOUS
<1>1. Init => LoneInv
  BY KindsApart DEF Init, LoneInv
<1>2. TypeInv /\ FileInv /\ WholeInv /\ LoneInv /\ [Next]_vars => LoneInv'
  BY NextLone
<1>3. ASSUME TypeInv, FileInv, WholeInv, LoneInv, NEW t \in Threads,
             Replace(t), pending[t] # Nothing, disk \in Contents
      PROVE  \A c \in Categories : disk[c] \subseteq disk'[c]
  <2>1. disk' = data[Home[t]]
    BY <1>3, WholeReplaced DEF Outdated, LoneInv, Lone
  <2>2. pc[t] = "replace"
    BY <1>3 DEF Replace
  <2> QED BY <1>3, <2>1, <2>2 DEF LoneInv
<1>4. TypeInv /\ FileInv /\ WholeInv /\ LoneInv =>
         \A t \in Threads : Replace(t) /\ pending[t] # Nothing /\ disk \in Contents =>
            \A c \in Categories : disk[c] \subseteq disk'[c]
  BY <1>3
<1> QED BY <1>1, <1>2, <1>4, WholeInvariant, PTL DEF Spec
=============================================================================
