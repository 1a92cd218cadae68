--------------------------- MODULE Monitors_proofs ---------------------------
(***************************************************************************)
(* What watches over the program keeps its word, for any number of         *)
(* connections, threads, test files and rules, and any bounds: the audit   *)
(* trail of the requests, the window that runs the tests, and the alerts   *)
(* of the health monitor.                                                  *)
(***************************************************************************)
EXTENDS ApiRequests, TestDashboard, HealthMonitor, Integers, FiniteSetTheorems, Lists_proofs, TLAPS

-----------------------------------------------------------------------------
\* An event stands in a file at a place; the events that were logged after it,
\* when all the files but the first are full.
Stands(files, f, p) == f \in 1 .. Len(files) /\ p \in 1 .. Len(files[f])
After(f) == (f - 1) * FileSize
Newer(files, f, p) == Len(files[1]) + After(f) - p

FilesFull(files) ==
    /\ files \in Seq(Seq(Events)) /\ Len(files) \in 1 .. Backups + 1
    /\ Len(files[1]) <= FileSize
    /\ \A f \in 2 .. Len(files) : Len(files[f]) = FileSize

\* No event stands at two places.
EachOnce(files) ==
    \A f, g, p, q \in Nat : 
        Stands(files, f, p) /\ Stands(files, g, q) /\ files[f][p] = files[g][q] => f = g /\ p = q

Logs(files, event) == \E f, p \in Nat : Stands(files, f, p) /\ files[f][p] = event

\* A file further back has a file more before it.
LEMMA AfterNext ==
    /\ After(1) = 0 /\ After(Backups + 1) = Backups * FileSize
    /\ \A f \in Nat : After(f) \in Int /\ After(f + 1) = After(f) + FileSize
<1>1. After(1) = 0
  BY ApiRequestsAssumption DEF After
<1>2. After(Backups + 1) = Backups * FileSize
  <2>1. (Backups + 1) - 1 = Backups
    BY ApiRequestsAssumption
  <2> QED  BY <2>1 DEF After
<1>3. ASSUME NEW f \in Nat PROVE After(f) \in Int /\ After(f + 1) = After(f) + FileSize
  <2>1. FileSize \in Nat
    BY ApiRequestsAssumption
  <2>2. f - 1 \in Int /\ (f + 1) - 1 = (f - 1) + 1
    OBVIOUS
  <2> DEFINE m == f - 1
  <2> HIDE DEF m
  <2>3. m \in Int
    BY <2>2 DEF m
  <2>4. m * FileSize \in Int /\ (m + 1) * FileSize = m * FileSize + FileSize
    BY <2>1, <2>3
  <2>5. After(f) = m * FileSize /\ After(f + 1) = (m + 1) * FileSize
    BY <2>2 DEF After, m
  <2> QED  BY <2>4, <2>5
<1> QED  BY <1>1, <1>2, <1>3

\* Logging an event: it is the newest, every other has one newer more, and an
\* event that is gone had a log full of them.
Follows(files, new, event) ==
    /\ FilesFull(new)
    /\ Stands(new, 1, Len(new[1])) /\ new[1][Len(new[1])] = event
    /\ \E s \in {0, 1} :
         /\ \A g, q \in Nat : Stands(new, g, q) =>
              \/ g = 1 /\ q = Len(new[1])
              \/ g - s \in Nat /\ Stands(files, g - s, q) /\ new[g][q] = files[g - s][q]
         /\ \A f, p \in Nat : Stands(files, f, p) =>
              \/ /\ Stands(new, f + s, p) /\ new[f + s][p] = files[f][p]
                 /\ Newer(new, f + s, p) = Newer(files, f, p) + 1
              \/ Newer(files, f, p) >= Backups * FileSize

\* To a file that is not full.
LEMMA LogsToOpen ==
    ASSUME FilesFull(auditFiles), NEW event \in Events, Len(auditFiles[1]) < FileSize
    PROVE  Follows(auditFiles, [auditFiles EXCEPT ![1] = Append(@, event)], event)
<1> DEFINE old == auditFiles
           r == Append(old[1], event)
           new == [old EXCEPT ![1] = r]
<1>1. old \in Seq(Seq(Events)) /\ Len(old) \in 1 .. Backups + 1 /\ old[1] \in Seq(Events) /\ Backups \in Nat /\ FileSize \in Nat
  BY ApiRequestsAssumption, ElementIn DEF FilesFull
<1>2. r \in Seq(Events) /\ Len(r) = Len(old[1]) + 1 /\ r[Len(r)] = event /\ Len(old[1]) \in Nat
      /\ \A p \in 1 .. Len(old[1]) : r[p] = old[1][p]
  BY <1>1
<1> HIDE DEF r
<1>3. new \in Seq(Seq(Events)) /\ Len(new) = Len(old) /\ new[1] = r /\ \A f \in 2 .. Len(old) : new[f] = old[f]
  BY <1>1, <1>2
<1> HIDE DEF new
<1>4. FilesFull(new)
  <2>1. Len(new) \in 1 .. Backups + 1
    BY <1>1, <1>3
  <2>2. Len(new[1]) <= FileSize
    <3>1. Len(old[1]) < FileSize /\ Len(new[1]) = Len(old[1]) + 1
      BY <1>2, <1>3
    <3> QED  BY ONLY <1>1, <1>2, <3>1
  <2>3. \A f \in 2 .. Len(new) : Len(new[f]) = FileSize
    BY <1>3 DEF FilesFull
  <2> QED  BY <1>3, <2>1, <2>2, <2>3 DEF FilesFull
<1>5. Stands(new, 1, Len(new[1])) /\ new[1][Len(new[1])] = event
  BY <1>1, <1>2, <1>3 DEF Stands
<1>6. ASSUME NEW g \in Nat, NEW q \in Nat, Stands(new, g, q)
      PROVE  \/ g = 1 /\ q = Len(new[1])
             \/ g - 0 \in Nat /\ Stands(old, g - 0, q) /\ new[g][q] = old[g - 0][q]
  <2>0. g - 0 = g /\ g \in 1 .. Len(old) /\ q \in 1 .. Len(new[g])
    BY <1>3, <1>6 DEF Stands
  <2>1. CASE g = 1
    BY <1>2, <1>3, <2>0, <2>1 DEF Stands
  <2>2. CASE g # 1
    <3>1. g \in 2 .. Len(old)
      BY <1>1, <2>0, <2>2
    <3>2. new[g] = old[g]
      BY <1>3, <3>1
    <3> QED  BY <2>0, <3>2 DEF Stands
  <2> QED  BY <2>1, <2>2
<1>7. ASSUME NEW f \in Nat, NEW p \in Nat, Stands(old, f, p)
      PROVE  /\ Stands(new, f + 0, p) /\ new[f + 0][p] = old[f][p]
             /\ Newer(new, f + 0, p) = Newer(old, f, p) + 1
  <2>0. f + 0 = f /\ f \in 1 .. Len(old) /\ p \in 1 .. Len(old[f])
    BY <1>7 DEF Stands
  <2>1. Stands(new, f, p) /\ new[f][p] = old[f][p]
    <3>1. CASE f = 1
      BY <1>2, <1>3, <2>0, <3>1 DEF Stands
    <3>2. CASE f # 1
      <4>1. f \in 2 .. Len(old)
        BY <1>1, <2>0, <3>2
      <4>2. new[f] = old[f] /\ f \in 1 .. Len(new)
        BY <1>1, <1>3, <2>0, <4>1
      <4> QED  BY ONLY <2>0, <4>2 DEF Stands
    <3> QED  BY <3>1, <3>2
  <2>2. Newer(new, f, p) = Newer(old, f, p) + 1
    <3>1. After(f) \in Int /\ Len(new[1]) = Len(old[1]) + 1
      BY <1>2, <1>3, AfterNext
    <3> QED  BY <1>2, <3>1 DEF Newer
  <2> QED  BY <2>0, <2>1, <2>2
<1>8. \E s \in {0, 1} :
         /\ \A g, q \in Nat : Stands(new, g, q) =>
              \/ g = 1 /\ q = Len(new[1])
              \/ g - s \in Nat /\ Stands(old, g - s, q) /\ new[g][q] = old[g - s][q]
         /\ \A f, p \in Nat : Stands(old, f, p) =>
              \/ /\ Stands(new, f + s, p) /\ new[f + s][p] = old[f][p]
                 /\ Newer(new, f + s, p) = Newer(old, f, p) + 1
              \/ Newer(old, f, p) >= Backups * FileSize
  BY <1>6, <1>7, Zenon
<1>9. Follows(old, new, event)
  BY <1>4, <1>5, <1>8 DEF Follows
<1> QED  BY <1>9 DEF new, r

\* To a new file: the others move back, the last of too many goes.
LEMMA LogsToNew ==
    ASSUME FilesFull(auditFiles), NEW event \in Events, Len(auditFiles[1]) >= FileSize
    PROVE  Follows(auditFiles, [Rotated EXCEPT ![1] = Append(@, event)], event)
<1> DEFINE old == auditFiles
           n == IF Len(old) <= Backups THEN Len(old) ELSE Backups
           r == <<event>>
           new == [Rotated EXCEPT ![1] = Append(@, event)]
<1>1. old \in Seq(Seq(Events)) /\ Len(old) \in 1 .. Backups + 1 /\ old[1] \in Seq(Events) /\ Backups \in Nat
      /\ FileSize \in Nat \ {0}
  BY ApiRequestsAssumption, ElementIn DEF FilesFull
<1>2. n \in Nat /\ n <= Len(old) /\ n <= Backups
  BY <1>1
<1>3. Rotated = <<<<>>>> \o SubSeq(old, 1, n)
  <2>1. SubSeq(old, 1, Len(old)) = old
    BY <1>1
  <2> QED  BY <1>1, <2>1 DEF Rotated
<1>4. <<>> \in Seq(Events) /\ <<<<>>>> \in Seq(Seq(Events)) /\ <<<<>>>>[1] = <<>> /\ Len(<<<<>>>>) = 1
  OBVIOUS
<1> DEFINE back == SubSeq(old, 1, n)
<1>5. back \in Seq(Seq(Events)) /\ Len(back) = n /\ \A f \in 1 .. n : back[f] = old[f]
  BY <1>1, <1>2
<1>6. /\ Rotated \in Seq(Seq(Events)) /\ Len(Rotated) = n + 1 /\ Rotated[1] = <<>>
      /\ \A f \in 1 .. n : Rotated[f + 1] = old[f]
  <2> HIDE DEF back, n
  <2>1. Rotated = <<<<>>>> \o back
    BY <1>3 DEF back
  <2> QED  BY <1>2, <1>4, <1>5, <2>1
<1>7. Append(<<>>, event) = r /\ r \in Seq(Events) /\ Len(r) = 1 /\ r[1] = event
  OBVIOUS
<1> HIDE DEF r, n, back
<1>8. new \in Seq(Seq(Events)) /\ Len(new) = n + 1 /\ new[1] = r /\ \A f \in 1 .. n : new[f + 1] = old[f]
  BY <1>2, <1>6, <1>7
<1> HIDE DEF new
<1>9. \A f \in 1 .. Len(old) : Len(old[f]) = FileSize
  <2>1. Len(old[1]) = FileSize
    BY <1>1 DEF FilesFull
  <2> QED  BY <1>1, <2>1 DEF FilesFull
<1>10. FilesFull(new)
  <2>1. Len(new[1]) <= FileSize
    <3>1. Len(new[1]) = 1
      BY <1>7, <1>8
    <3>2. FileSize \in Nat \ {0}
      BY <1>1
    <3> QED  BY ONLY <3>1, <3>2
  <2>2. ASSUME NEW f \in 2 .. Len(new) PROVE Len(new[f]) = FileSize
    <3>1. f - 1 \in 1 .. n /\ (f - 1) + 1 = f
      BY <1>2, <1>8
    <3>2. new[f] = old[f - 1]
      BY <1>8, <3>1
    <3> QED  BY <1>1, <1>2, <1>9, <3>1, <3>2
  <2> QED  BY <1>1, <1>2, <1>8, <2>1, <2>2 DEF FilesFull
<1>11. Stands(new, 1, Len(new[1])) /\ new[1][Len(new[1])] = event
  <2>1. Len(new[1]) = 1 /\ new[1][1] = event
    BY <1>7, <1>8
  <2>2. 1 \in 1 .. Len(new)
    BY <1>2, <1>8
  <2> QED  BY ONLY <2>1, <2>2 DEF Stands
<1>12. ASSUME NEW g \in Nat, NEW q \in Nat, Stands(new, g, q)
      PROVE  \/ g = 1 /\ q = Len(new[1])
             \/ g - 1 \in Nat /\ Stands(old, g - 1, q) /\ new[g][q] = old[g - 1][q]
  <2>0. g \in 1 .. n + 1 /\ q \in 1 .. Len(new[g])
    BY <1>8, <1>12 DEF Stands
  <2>1. CASE g = 1
    BY <1>7, <1>8, <2>0, <2>1
  <2>2. CASE g # 1
    <3>1. g - 1 \in 1 .. n /\ (g - 1) + 1 = g
      BY <1>2, <2>0, <2>2
    <3>2. new[g] = old[g - 1]
      BY <1>8, <3>1
    <3>3. g - 1 \in 1 .. Len(old)
      BY <1>1, <1>2, <3>1
    <3> QED  BY <2>0, <3>1, <3>2, <3>3 DEF Stands
  <2> QED  BY <2>1, <2>2
<1>13. ASSUME NEW f \in Nat, NEW p \in Nat, Stands(old, f, p)
      PROVE  \/ /\ Stands(new, f + 1, p) /\ new[f + 1][p] = old[f][p]
                /\ Newer(new, f + 1, p) = Newer(old, f, p) + 1
             \/ Newer(old, f, p) >= Backups * FileSize
  <2>0. f \in 1 .. Len(old) /\ p \in 1 .. Len(old[f]) /\ Len(old[f]) = FileSize /\ Len(old[1]) = FileSize
    BY <1>1, <1>9, <1>13 DEF Stands
  <2>1. CASE f <= n
    <3>1. f \in 1 .. n
      BY <1>2, <2>0, <2>1
    <3>2. new[f + 1] = old[f] /\ f + 1 \in 1 .. Len(new)
      BY <1>2, <1>8, <3>1
    <3>3. After(f) \in Int /\ After(f + 1) = After(f) + FileSize
      BY AfterNext
    <3>4. Newer(new, f + 1, p) = Newer(old, f, p) + 1
      <4>1. Len(new[1]) = 1 /\ Len(old[1]) = FileSize /\ FileSize \in Nat /\ p \in Int
        BY <1>1, <1>7, <1>8, <2>0
      <4>2. Newer(new, f + 1, p) = 1 + After(f + 1) - p /\ Newer(old, f, p) = FileSize + After(f) - p
        BY <4>1 DEF Newer
      <4> QED  BY ONLY <3>3, <4>1, <4>2
    <3> QED  BY <2>0, <3>2, <3>4 DEF Stands
  <2>2. CASE f > n
    <3>1. f = Backups + 1
      BY <1>1, <2>0, <2>2 DEF n
    <3>2. After(f) = Backups * FileSize /\ After(f) \in Int
      BY <3>1, AfterNext
    <3>3. p <= FileSize
      BY <1>1, <2>0
    <3>4. Newer(old, f, p) = FileSize + After(f) - p
      BY <2>0 DEF Newer
    <3> QED  BY <1>1, <3>2, <3>3, <3>4
  <2> QED  BY <1>2, <2>1, <2>2
<1>14. \E s \in {0, 1} :
         /\ \A g, q \in Nat : Stands(new, g, q) =>
              \/ g = 1 /\ q = Len(new[1])
              \/ g - s \in Nat /\ Stands(old, g - s, q) /\ new[g][q] = old[g - s][q]
         /\ \A f, p \in Nat : Stands(old, f, p) =>
              \/ /\ Stands(new, f + s, p) /\ new[f + s][p] = old[f][p]
                 /\ Newer(new, f + s, p) = Newer(old, f, p) + 1
              \/ Newer(old, f, p) >= Backups * FileSize
  BY <1>12, <1>13, Zenon
<1>15. Follows(old, new, event)
  BY <1>10, <1>11, <1>14 DEF Follows
<1> QED  BY <1>15 DEF new

\* Either way.
LEMMA LoggedFollows ==
    ASSUME FilesFull(auditFiles), NEW event \in Events
    PROVE  Follows(auditFiles, Logged(event), event)
<1>1. Len(auditFiles[1]) \in Nat /\ FileSize \in Nat
  BY ApiRequestsAssumption, ElementIn DEF FilesFull
<1>2. CASE Len(auditFiles[1]) < FileSize
  BY <1>2, LogsToOpen DEF Logged
<1>3. CASE ~ (Len(auditFiles[1]) < FileSize)
  <2>1. Len(auditFiles[1]) >= FileSize
    BY <1>1, <1>3
  <2> QED  BY <1>3, <2>1, LogsToNew DEF Logged
<1> QED  BY <1>2, <1>3

\* An event that is not in the log yet is in it once.
LEMMA OnceFollows ==
    ASSUME NEW files, NEW new, NEW event, FilesFull(files), Follows(files, new, event), EachOnce(files), ~ Logs(files, event)
    PROVE  EachOnce(new) /\ (\A e : Logs(new, e) => e = event \/ Logs(files, e))
<1>1. PICK s \in {0, 1} :
         /\ \A g, q \in Nat : Stands(new, g, q) =>
              \/ g = 1 /\ q = Len(new[1])
              \/ g - s \in Nat /\ Stands(files, g - s, q) /\ new[g][q] = files[g - s][q]
         /\ \A f, p \in Nat : Stands(files, f, p) =>
              \/ /\ Stands(new, f + s, p) /\ new[f + s][p] = files[f][p]
                 /\ Newer(new, f + s, p) = Newer(files, f, p) + 1
              \/ Newer(files, f, p) >= Backups * FileSize
  BY Zenon DEF Follows
<1> DEFINE New(g, q) == g = 1 /\ q = Len(new[1])
           Old(g, q) == g - s \in Nat /\ Stands(files, g - s, q) /\ new[g][q] = files[g - s][q]
<1>2. \A g, q \in Nat : Stands(new, g, q) => New(g, q) \/ Old(g, q)
  BY <1>1
<1>3. new[1][Len(new[1])] = event
  BY DEF Follows
<1>4. \A g, q \in Nat : Old(g, q) => new[g][q] # event
  BY DEF Logs
<1>5. ASSUME NEW f \in Nat, NEW g \in Nat, NEW p \in Nat, NEW q \in Nat,
             Stands(new, f, p), Stands(new, g, q), new[f][p] = new[g][q]
      PROVE  f = g /\ p = q
  <2>1. CASE New(f, p) /\ New(g, q)
    BY <2>1
  <2>2. CASE New(f, p) /\ Old(g, q)
    BY <1>3, <1>4, <1>5, <2>2
  <2>3. CASE Old(f, p) /\ New(g, q)
    BY <1>3, <1>4, <1>5, <2>3
  <2>4. CASE Old(f, p) /\ Old(g, q)
    <3>1. f - s = g - s /\ p = q
      BY <1>5, <2>4 DEF EachOnce
    <3> QED  BY <3>1
  <2> HIDE DEF New, Old
  <2> QED  BY <1>2, <1>5, <2>1, <2>2, <2>3, <2>4
<1>6. ASSUME NEW e, Logs(new, e) PROVE e = event \/ Logs(files, e)
  <2>1. PICK g, q \in Nat : Stands(new, g, q) /\ new[g][q] = e
    BY <1>6 DEF Logs
  <2>2. CASE New(g, q)
    BY <1>3, <2>1, <2>2
  <2>3. CASE Old(g, q)
    BY <2>1, <2>3 DEF Logs
  <2>4. New(g, q) \/ Old(g, q)
    BY <1>2, <2>1
  <2> QED  BY <2>2, <2>3, <2>4
<1> QED  BY <1>5, <1>6 DEF EachOnce

-----------------------------------------------------------------------------
\* The recursion of Searched has a solution, up to any file.
LEMMA SearchExists ==
    \E up : up = [i \in 0 .. Backups + 1 |->
              IF i = 0 THEN <<>> ELSE up[i - 1] \o (IF i <= Len(auditFiles) THEN auditFiles[i] ELSE <<>>)]
<1> DEFINE File(i) == IF i <= Len(auditFiles) THEN auditFiles[i] ELSE <<>>
           Solves(f, m) == f = [i \in 0 .. m |-> IF i = 0 THEN <<>> ELSE f[i - 1] \o File(i)]
           T == {m \in Nat : \E f : Solves(f, m)}
<1>1. 0 \in T
  <2>1. Solves([i \in 0 .. 0 |-> <<>>], 0)
    OBVIOUS
  <2> QED  BY <2>1
<1>2. ASSUME NEW m \in Nat, m \in T
      PROVE  m + 1 \in T
  <2>1. PICK f : Solves(f, m)
    BY <1>2
  <2> HIDE DEF File
  <2> DEFINE g == [i \in 0 .. m + 1 |-> IF i = m + 1 THEN f[m] \o File(m + 1) ELSE f[i]]
  <2>2. ASSUME NEW i \in 0 .. m + 1
        PROVE  g[i] = IF i = 0 THEN <<>> ELSE g[i - 1] \o File(i)
    <3>1. CASE i = m + 1
      <4>1. g[i] = f[m] \o File(i) /\ i # 0 /\ i - 1 = m /\ g[i - 1] = f[m]
        BY <3>1
      <4> QED  BY <4>1
    <3>2. CASE i # m + 1
      <4>1. i \in 0 .. m /\ g[i] = f[i]
        BY <3>2
      <4>2. f[i] = IF i = 0 THEN <<>> ELSE f[i - 1] \o File(i)
        BY <2>1, <4>1
      <4>3. i # 0 => g[i - 1] = f[i - 1]
        BY <4>1
      <4> HIDE DEF g
      <4> QED  BY <4>1, <4>2, <4>3
    <3> QED  BY <3>1, <3>2
  <2>3. g = [i \in 0 .. m + 1 |-> g[i]]
    OBVIOUS
  <2> HIDE DEF g
  <2>4. Solves(g, m + 1)
    BY <2>2, <2>3
  <2>5. \E h : Solves(h, m + 1)
    <3> HIDE DEF Solves
    <3> QED  BY <2>4
  <2> HIDE DEF Solves
  <2> QED  BY <2>5
<1>3. Nat \subseteq T
  <2> HIDE DEF T
  <2> QED  BY <1>1, <1>2, NumbersInduct
<1>4. \E f : Solves(f, Backups + 1)
  <2>1. Backups + 1 \in Nat
    BY ApiRequestsAssumption
  <2> HIDE DEF Solves
  <2> QED  BY <1>3, <2>1
<1> QED  BY <1>4

\* What a search returns: every event of the files, each from one place.
LEMMA SearchFinds ==
    ASSUME FilesFull(auditFiles), EachOnce(auditFiles), NEW f \in Nat, NEW p \in Nat, Stands(auditFiles, f, p)
    PROVE  Times(auditFiles[f][p]) = 1
<1> DEFINE File(i) == IF i <= Len(auditFiles) THEN auditFiles[i] ELSE <<>>
           Solves(g) == g = [i \in 0 .. Backups + 1 |-> IF i = 0 THEN <<>> ELSE g[i - 1] \o File(i)]
           up == CHOOSE g : Solves(g)
<1>1. Solves(up)
  <2>1. \E g : Solves(g)
    BY SearchExists
  <2> HIDE DEF Solves
  <2> QED  BY <2>1
<1>2. Searched = up[Backups + 1]
  BY DEF Searched
<1> HIDE DEF up
<1>3. up[0] = <<>> /\ \A i \in 1 .. Backups + 1 : up[i] = up[i - 1] \o File(i)
  <2> HIDE DEF File
  <2>1. Backups + 1 \in Nat
    BY ApiRequestsAssumption
  <2>2. \A i \in 0 .. Backups + 1 : up[i] = IF i = 0 THEN <<>> ELSE up[i - 1] \o File(i)
    BY <1>1
  <2>3. 0 \in 0 .. Backups + 1
    BY <2>1
  <2>4. up[0] = <<>>
    BY <2>2, <2>3
  <2>5. ASSUME NEW i \in 1 .. Backups + 1 PROVE up[i] = up[i - 1] \o File(i)
    <3>1. i \in 0 .. Backups + 1 /\ i # 0
      BY <2>1
    <3> QED  BY <2>2, <3>1
  <2> QED  BY <2>4, <2>5
<1>4. \A i \in 1 .. Backups + 1 : /\ File(i) \in Seq(Events)
                                  /\ \A q \in 1 .. Len(File(i)) : Stands(auditFiles, i, q) /\ File(i)[q] = auditFiles[i][q]
  <2>1. ASSUME NEW i \in 1 .. Backups + 1
        PROVE  /\ File(i) \in Seq(Events)
               /\ \A q \in 1 .. Len(File(i)) : Stands(auditFiles, i, q) /\ File(i)[q] = auditFiles[i][q]
    <3>1. auditFiles \in Seq(Seq(Events)) /\ i \in Nat /\ Len(auditFiles) \in Nat
      BY ApiRequestsAssumption DEF FilesFull
    <3>2. CASE i <= Len(auditFiles)
      BY <3>1, <3>2, ElementIn DEF Stands
    <3>3. CASE ~ (i <= Len(auditFiles))
      <4>1. File(i) = <<>>
        BY <3>3
      <4>2. <<>> \in Seq(Events) /\ \A q \in 1 .. Len(<<>>) : FALSE
        OBVIOUS
      <4> HIDE DEF File
      <4> QED  BY <4>1, <4>2
    <3> QED  BY <3>2, <3>3
  <2> QED  BY <2>1
<1> DEFINE Good(i) ==
        /\ up[i] \in Seq(Events)
        /\ \A k \in 1 .. Len(up[i]) : \E g, q \in Nat :
              g <= i /\ Stands(auditFiles, g, q) /\ up[i][k] = auditFiles[g][q]
        /\ \A k, m \in 1 .. Len(up[i]) : up[i][k] = up[i][m] => k = m
        /\ f <= i => \E k \in 1 .. Len(up[i]) : up[i][k] = auditFiles[f][p]
      T == {i \in Nat : i <= Backups + 1 => Good(i)}
<1>5. 0 \in T
  <2>1. ~ (f <= 0)
    BY DEF Stands
  <2>2. <<>> \in Seq(Events) /\ \A k \in 1 .. Len(<<>>) : FALSE
    OBVIOUS
  <2>3. Good(0)
    BY <1>3, <2>1, <2>2
  <2> HIDE DEF Good
  <2> QED  BY <2>3
<1>6. ASSUME NEW j \in Nat, j \in T PROVE j + 1 \in T
  <2> SUFFICES ASSUME j + 1 <= Backups + 1 PROVE Good(j + 1)
    <3> HIDE DEF Good
    <3> QED  OBVIOUS
  <2> DEFINE s == up[j]
             t == File(j + 1)
             u == up[j + 1]
  <2>1. j + 1 \in 1 .. Backups + 1 /\ Good(j) /\ (j + 1) - 1 = j
    <3> HIDE DEF Good
    <3> QED  BY <1>6, ApiRequestsAssumption
  <2>2. u = s \o t
    <3> HIDE DEF File
    <3> QED  BY <1>3, <2>1
  <2>3. /\ s \in Seq(Events)
        /\ \A k \in 1 .. Len(s) : \E g, q \in Nat : g <= j /\ Stands(auditFiles, g, q) /\ s[k] = auditFiles[g][q]
        /\ \A k, m \in 1 .. Len(s) : s[k] = s[m] => k = m
        /\ f <= j => \E k \in 1 .. Len(s) : s[k] = auditFiles[f][p]
    BY <2>1
  <2>4. /\ t \in Seq(Events)
        /\ \A q \in 1 .. Len(t) : Stands(auditFiles, j + 1, q) /\ t[q] = auditFiles[j + 1][q]
    <3> HIDE DEF File
    <3> QED  BY <1>4, <2>1
  <2>5. f = j + 1 => t = auditFiles[f] /\ p \in 1 .. Len(t)
    BY DEF Stands
  <2> HIDE DEF s, t, u, File, Good, T
  <2>6. /\ u \in Seq(Events) /\ Len(u) = Len(s) + Len(t) /\ Len(s) \in Nat /\ Len(t) \in Nat
        /\ \A k \in 1 .. Len(s) : u[k] = s[k]
        /\ \A k \in 1 .. Len(u) : k \notin 1 .. Len(s) => k - Len(s) \in 1 .. Len(t) /\ u[k] = t[k - Len(s)]
    BY <2>2, <2>3, <2>4
  <2>7. ASSUME NEW k \in 1 .. Len(u)
        PROVE  \E g, q \in Nat : g <= j + 1 /\ Stands(auditFiles, g, q) /\ u[k] = auditFiles[g][q]
    <3>1. CASE k \in 1 .. Len(s)
      <4>1. PICK g, q \in Nat : g <= j /\ Stands(auditFiles, g, q) /\ s[k] = auditFiles[g][q]
        BY <2>3, <3>1
      <4> QED  BY <2>6, <3>1, <4>1
    <3>2. CASE k \notin 1 .. Len(s)
      <4>1. k - Len(s) \in 1 .. Len(t) /\ u[k] = t[k - Len(s)]
        BY <2>6, <3>2
      <4>2. k - Len(s) \in Nat /\ Stands(auditFiles, j + 1, k - Len(s)) /\ u[k] = auditFiles[j + 1][k - Len(s)]
        BY <2>4, <2>6, <4>1
      <4> QED  BY <4>2
    <3> QED  BY <3>1, <3>2
  <2>8. ASSUME NEW k \in 1 .. Len(s), NEW m \in 1 .. Len(u), m \notin 1 .. Len(s) PROVE u[k] # u[m]
    <3>1. PICK g, q \in Nat : g <= j /\ Stands(auditFiles, g, q) /\ s[k] = auditFiles[g][q]
      BY <2>3
    <3>2. m - Len(s) \in 1 .. Len(t) /\ u[m] = t[m - Len(s)]
      BY <2>6, <2>8
    <3>3. m - Len(s) \in Nat /\ Stands(auditFiles, j + 1, m - Len(s)) /\ u[m] = auditFiles[j + 1][m - Len(s)]
      BY <2>4, <2>6, <3>2
    <3>4. g # j + 1 /\ j + 1 \in Nat
      BY <3>1
    <3>5. auditFiles[g][q] # auditFiles[j + 1][m - Len(s)]
      BY <3>1, <3>3, <3>4, Zenon DEF EachOnce
    <3> QED  BY <2>6, <3>1, <3>3, <3>5
  <2>9. ASSUME NEW k \in 1 .. Len(u), NEW m \in 1 .. Len(u), u[k] = u[m] PROVE k = m
    <3>1. CASE k \in 1 .. Len(s) /\ m \in 1 .. Len(s)
      BY <2>3, <2>6, <2>9, <3>1
    <3>2. CASE k \in 1 .. Len(s) /\ m \notin 1 .. Len(s)
      BY <2>8, <2>9, <3>2
    <3>3. CASE k \notin 1 .. Len(s) /\ m \in 1 .. Len(s)
      BY <2>8, <2>9, <3>3
    <3>4. CASE k \notin 1 .. Len(s) /\ m \notin 1 .. Len(s)
      <4>1. /\ k - Len(s) \in 1 .. Len(t) /\ u[k] = t[k - Len(s)]
            /\ m - Len(s) \in 1 .. Len(t) /\ u[m] = t[m - Len(s)]
        BY <2>6, <3>4
      <4>2. /\ Stands(auditFiles, j + 1, k - Len(s)) /\ u[k] = auditFiles[j + 1][k - Len(s)]
            /\ Stands(auditFiles, j + 1, m - Len(s)) /\ u[m] = auditFiles[j + 1][m - Len(s)]
            /\ k - Len(s) \in Nat /\ m - Len(s) \in Nat /\ j + 1 \in Nat
        BY <2>4, <2>6, <4>1
      <4>3. auditFiles[j + 1][k - Len(s)] = auditFiles[j + 1][m - Len(s)]
        BY <2>9, <4>2
      <4>4. k - Len(s) = m - Len(s)
        BY <4>2, <4>3, Zenon DEF EachOnce
      <4> QED  BY <2>6, <4>4
    <3> QED  BY <3>1, <3>2, <3>3, <3>4
  <2>10. ASSUME f <= j + 1 PROVE \E k \in 1 .. Len(u) : u[k] = auditFiles[f][p]
    <3>1. CASE f <= j
      <4>1. PICK k \in 1 .. Len(s) : s[k] = auditFiles[f][p]
        BY <2>3, <3>1
      <4>2. k \in 1 .. Len(u) /\ u[k] = auditFiles[f][p]
        BY <2>6, <4>1
      <4> QED  BY <4>2
    <3>2. CASE f = j + 1
      <4>1. p \in 1 .. Len(t) /\ t[p] = auditFiles[f][p]
        BY <2>5, <3>2
      <4>2. Len(s) + p \in 1 .. Len(u) /\ Len(s) + p \notin 1 .. Len(s) /\ (Len(s) + p) - Len(s) = p
        BY <2>6, <4>1
      <4>3. u[Len(s) + p] = auditFiles[f][p]
        BY <2>6, <4>1, <4>2
      <4> QED  BY <4>2, <4>3
    <3> QED  BY <2>10, <3>1, <3>2
  <2> QED  BY <2>6, <2>7, <2>9, <2>10 DEF Good, u
<1>7. Good(Backups + 1)
  <2>1. Nat \subseteq T
    <3> HIDE DEF T
    <3> QED  BY <1>5, <1>6, NumbersInduct
  <2>2. Backups + 1 \in Nat
    BY ApiRequestsAssumption
  <2> HIDE DEF Good
  <2> QED  BY <2>1, <2>2
<1>8. f <= Backups + 1
  BY ApiRequestsAssumption DEF Stands, FilesFull
<1>9. PICK k \in 1 .. Len(Searched) : Searched[k] = auditFiles[f][p]
  BY <1>2, <1>7, <1>8
<1>10. {i \in DOMAIN Searched : Searched[i] = auditFiles[f][p]} = {k}
  BY <1>2, <1>7, <1>9
<1> QED  BY <1>10, FS_Singleton DEF Times

-----------------------------------------------------------------------------
Auditing == {c \in Connections : request[c].at = "audit"}

\* As many events as may still be logged after the i-th due one, besides those
\* on their way now: at most one for every other connection was late, and those
\* that became due later.
Room(i) == Len(due) - i + Cardinality(Connections) - 1 - Cardinality(Auditing)

RequestRecord ==
    [at : {"idle", "limiter", "origin", "endpoint", "audit"}, id : 0 .. ArrivalsMax,
     path : Paths, origin : Origins, raised : BOOLEAN]

TrailTyped ==
    /\ dev \in BOOLEAN /\ server \in {"begins", "serves", "refused"}
    /\ request \in [Connections -> RequestRecord]
    /\ FilesFull(auditFiles) /\ due \in Seq(Events) /\ arrivals \in 0 .. ArrivalsMax

\* The requests under way are different ones that have arrived, and what is
\* logged or due is of requests that have arrived.
Arrived ==
    /\ \A c \in Connections : request[c].at # "idle" => request[c].id \in 1 .. arrivals
    /\ \A c, d \in Connections : request[c].at # "idle" /\ request[d].at # "idle" /\ request[c].id = request[d].id => c = d
    /\ \A e : Logs(auditFiles, e) => e.id <= arrivals

\* No line is in the log before its request is audited, and nothing of a
\* request that has not come to its end.
NotLogged(c) ==
    /\ request[c].at \notin {"idle", "audit"} => \A e : Logs(auditFiles, e) => e.id # request[c].id
    /\ request[c].at = "audit" => ~ Logs(auditFiles, LineOf(c))

\* Where the i-th due event is: on its way, in a file with at most so many newer
\* ones that there is room for, or out of files that are full of newer ones.
OnItsWay(e) == \E c \in Connections : request[c].at = "audit" /\ LineOf(c) = e
InFile(i) == \E f, p \in Nat : /\ Stands(auditFiles, f, p) /\ auditFiles[f][p] = due[i]
                              /\ Newer(auditFiles, f, p) <= Room(i)
Outlived(i) == Backups * FileSize + 1 <= Room(i)
Traced(i) == OnItsWay(due[i]) \/ InFile(i) \/ Outlived(i)

TrailInv ==
    /\ TrailTyped /\ Arrived /\ EachOnce(auditFiles)
    /\ \A c \in Connections : NotLogged(c)
    /\ \A i \in 1 .. Len(due) : Traced(i)

\* An empty log and no request at first.
LEMMA TrailBegins == ApiRequestsInit => TrailInv
<1> SUFFICES ASSUME ApiRequestsInit PROVE TrailInv
  OBVIOUS
<1>1. <<>> \in Seq(Events) /\ <<<<>>>> \in Seq(Seq(Events)) /\ Len(<<<<>>>>) = 1 /\ <<<<>>>>[1] = <<>>
      /\ Len(<<>>) = 0
  OBVIOUS
<1>2. FilesFull(auditFiles)
  BY <1>1, ApiRequestsAssumption DEF ApiRequestsInit, FilesFull
<1>3. \A f, p \in Nat : ~ Stands(auditFiles, f, p)
  BY <1>1 DEF ApiRequestsInit, Stands
<1>4. \A e : ~ Logs(auditFiles, e)
  BY <1>3 DEF Logs
<1>5. Waiting \in RequestRecord
  BY ApiRequestsAssumption DEF Waiting, RequestRecord, Paths, Origins
<1>6. request \in [Connections -> RequestRecord] /\ \A c \in Connections : request[c].at = "idle"
  BY <1>5 DEF ApiRequestsInit, Waiting
<1>7. TrailTyped
  <2>1. arrivals \in 0 .. ArrivalsMax
    BY ApiRequestsAssumption DEF ApiRequestsInit
  <2>2. due \in Seq(Events) /\ dev \in BOOLEAN /\ server \in {"begins", "serves", "refused"}
    BY <1>1 DEF ApiRequestsInit
  <2> QED  BY <1>2, <1>6, <2>1, <2>2 DEF TrailTyped
<1>8. Arrived /\ \A c \in Connections : NotLogged(c)
  BY <1>4, <1>6 DEF Arrived, NotLogged
<1>9. Len(due) = 0
  BY <1>1 DEF ApiRequestsInit
<1> QED  BY <1>3, <1>7, <1>8, <1>9 DEF TrailInv, EachOnce

\* What the invariant gives.
LEMMA TrailFollows == TrailInv => TrailComplete /\ ApiRequestsTypeOK
<1> SUFFICES ASSUME TrailInv PROVE TrailComplete /\ ApiRequestsTypeOK
  OBVIOUS
<1>1. TrailTyped /\ EachOnce(auditFiles) /\ \A i \in 1 .. Len(due) : Traced(i)
  BY DEF TrailInv
<1>2. Len(due) \in Nat /\ DOMAIN due = 1 .. Len(due) /\ IsFiniteSet(Connections) /\ Backups \in Nat /\ FileSize \in Nat
  BY <1>1, ApiRequestsAssumption DEF TrailTyped
<1>3. Cardinality(Connections) \in Nat /\ Cardinality(Auditing) \in Nat
  <2>1. IsFiniteSet(Auditing)
    BY <1>2, FS_Subset DEF Auditing
  <2> QED  BY <1>2, <2>1, FS_CardinalityType
<1>4. ASSUME NEW i \in DOMAIN due, i + Kept > Len(due)
      PROVE  Times(due[i]) = 1 \/ OnItsWay(due[i])
  <2>1. i \in 1 .. Len(due)
    BY <1>2
  <2>2. ~ Outlived(i)
    <3> DEFINE m == Backups * FileSize
    <3>1. m \in Nat
      BY <1>2
    <3> HIDE DEF m
    <3>2. Kept = m + 2 - Cardinality(Connections)
      BY DEF Kept, m
    <3>3. ~ (m + 1 <= Room(i))
      BY <1>2, <1>3, <1>4, <2>1, <3>1, <3>2 DEF Room
    <3> QED  BY <3>3 DEF Outlived, m
  <2>3. InFile(i) => Times(due[i]) = 1
    <3> SUFFICES ASSUME InFile(i) PROVE Times(due[i]) = 1
      OBVIOUS
    <3>1. PICK f, p \in Nat : Stands(auditFiles, f, p) /\ auditFiles[f][p] = due[i]
      BY DEF InFile
    <3>2. FilesFull(auditFiles)
      BY <1>1 DEF TrailTyped
    <3>3. Times(auditFiles[f][p]) = 1
      BY <1>1, <3>1, <3>2, SearchFinds
    <3> QED  BY <3>1, <3>3
  <2> QED  BY <1>1, <2>1, <2>2, <2>3 DEF Traced
<1>5. TrailComplete
  BY <1>4 DEF TrailComplete, OnItsWay
<1>6. \A i \in DOMAIN auditFiles : Len(auditFiles[i]) <= FileSize
  <2>1. FilesFull(auditFiles) /\ DOMAIN auditFiles = 1 .. Len(auditFiles)
    BY <1>1 DEF TrailTyped, FilesFull
  <2>2. ASSUME NEW i \in 1 .. Len(auditFiles) PROVE Len(auditFiles[i]) <= FileSize
    <3>1. CASE i = 1
      BY <2>1, <3>1 DEF FilesFull
    <3>2. CASE i # 1
      <4>1. i \in 2 .. Len(auditFiles)
        BY <2>1, <3>2 DEF FilesFull
      <4>2. Len(auditFiles[i]) = FileSize
        BY <2>1, <4>1 DEF FilesFull
      <4> QED  BY <1>2, <4>2
    <3> QED  BY <3>1, <3>2
  <2> QED  BY <2>1, <2>2
<1>7. \A i \in DOMAIN due : due[i] \in Events
  BY <1>1, <1>2, ElementIn DEF TrailTyped
<1>8. \A c \in Connections : /\ request[c].at \in {"idle", "limiter", "origin", "endpoint", "audit"}
                             /\ request[c].path \in Paths /\ request[c].id \in 0 .. ArrivalsMax
  BY <1>1 DEF TrailTyped, RequestRecord
<1>9. Len(auditFiles) \in 1 .. Backups + 1 /\ dev \in BOOLEAN /\ server \in {"begins", "serves", "refused"}
  BY <1>1 DEF TrailTyped, FilesFull
<1>10. ApiRequestsTypeOK
  BY <1>6, <1>7, <1>8, <1>9 DEF ApiRequestsTypeOK
<1> QED  BY <1>5, <1>10

-----------------------------------------------------------------------------
\* Two requests under way have two numbers, and neither those of nothing.
LEMMA RequestsApart ==
    ASSUME TrailInv, NEW c \in Connections, NEW d \in Connections, c # d,
           request[c].at # "idle", request[d].at # "idle"
    PROVE  request[c].id # request[d].id
  BY DEF TrailInv, Arrived

\* One request moves.
LEMMA RequestMoves ==
    ASSUME TrailInv, NEW c \in Connections, NEW r, r \in RequestRecord, request' = [request EXCEPT ![c] = r]
    PROVE  /\ request' \in [Connections -> RequestRecord] /\ request'[c] = r
           /\ \A d \in Connections \ {c} : request'[d] = request[d]
           /\ IsFiniteSet(Auditing) /\ Cardinality(Auditing) \in Nat /\ Cardinality(Auditing') \in Nat
           /\ Cardinality(Connections) \in Nat
           /\ Cardinality(Auditing') <= Cardinality(Connections)
           /\ r.at = request[c].at => Auditing' = Auditing
           /\ r.at # "audit" /\ request[c].at # "audit" => Auditing' = Auditing
           /\ r.at = "audit" /\ request[c].at # "audit" => Cardinality(Auditing') = Cardinality(Auditing) + 1
           /\ r.at # "audit" /\ request[c].at = "audit" =>
                /\ Cardinality(Auditing') = Cardinality(Auditing) - 1
                /\ Cardinality(Auditing') <= Cardinality(Connections) - 1
<1>1. request \in [Connections -> RequestRecord] /\ IsFiniteSet(Connections)
  BY ApiRequestsAssumption DEF TrailInv, TrailTyped
<1>2. /\ request' \in [Connections -> RequestRecord] /\ request'[c] = r
      /\ \A d \in Connections \ {c} : request'[d] = request[d]
  BY <1>1
<1>3. IsFiniteSet(Auditing) /\ IsFiniteSet(Auditing') /\ Auditing' \subseteq Connections
  <2>1. Auditing \subseteq Connections /\ Auditing' \subseteq Connections
    BY DEF Auditing
  <2> QED  BY <1>1, <2>1, FS_Subset
<1>4. /\ Cardinality(Auditing) \in Nat /\ Cardinality(Auditing') \in Nat
      /\ Cardinality(Connections) \in Nat /\ Cardinality(Auditing') <= Cardinality(Connections)
  BY <1>1, <1>3, FS_CardinalityType, FS_Subset
<1>5. (r.at = request[c].at => Auditing' = Auditing) /\ (r.at # "audit" /\ request[c].at # "audit" => Auditing' = Auditing)
  BY <1>2 DEF Auditing
<1>6. r.at = "audit" /\ request[c].at # "audit" => Cardinality(Auditing') = Cardinality(Auditing) + 1
  <2> SUFFICES ASSUME r.at = "audit", request[c].at # "audit"
               PROVE  Cardinality(Auditing') = Cardinality(Auditing) + 1
    OBVIOUS
  <2>1. Auditing' = Auditing \union {c} /\ c \notin Auditing
    BY <1>2 DEF Auditing
  <2> QED  BY <1>3, <2>1, FS_AddElement
<1>7. r.at # "audit" /\ request[c].at = "audit" =>
        /\ Cardinality(Auditing') = Cardinality(Auditing) - 1
        /\ Cardinality(Auditing') <= Cardinality(Connections) - 1
  <2> SUFFICES ASSUME r.at # "audit", request[c].at = "audit"
               PROVE  /\ Cardinality(Auditing') = Cardinality(Auditing) - 1
                      /\ Cardinality(Auditing') <= Cardinality(Connections) - 1
    OBVIOUS
  <2>1. Auditing' = Auditing \ {c} /\ c \in Auditing /\ Auditing \subseteq Connections
    BY <1>2 DEF Auditing
  <2>2. Cardinality(Auditing') = Cardinality(Auditing) - 1
    BY <1>3, <2>1, FS_RemoveElement
  <2>3. Cardinality(Auditing) <= Cardinality(Connections)
    BY <1>1, <2>1, FS_Subset
  <2> QED  BY <1>4, <2>2, <2>3
<1> QED  BY <1>2, <1>3, <1>4, <1>5, <1>6, <1>7

\* The first four parts of the invariant when nothing is logged: nobody has a
\* number that is not his or new.
LEMMA UnloggedKeeps ==
    ASSUME TrailInv, NEW c \in Connections, NEW r, r \in RequestRecord, request' = [request EXCEPT ![c] = r],
           UNCHANGED auditFiles, arrivals' \in Nat, arrivals' >= arrivals,
           \/ r.at = "idle"
           \/ request[c].at \notin {"idle", "audit"} /\ r.id = request[c].id
           \/ arrivals' = arrivals + 1 /\ r.id = arrivals'
    PROVE  Arrived' /\ EachOnce(auditFiles)' /\ \A d \in Connections : NotLogged(d)'
<1>1. /\ request'[c] = r /\ \A d \in Connections \ {c} : request'[d] = request[d]
  BY RequestMoves
<1>2. arrivals \in Nat /\ Arrived /\ \A d \in Connections : NotLogged(d)
  BY ApiRequestsAssumption DEF TrailInv, TrailTyped
<1>3. \A e : Logs(auditFiles', e) = Logs(auditFiles, e)
  OBVIOUS
<1>4. \A e : Logs(auditFiles, e) => e.id <= arrivals
  BY <1>2 DEF Arrived
<1>5. \A d \in Connections : request[d].at # "idle" => request[d].id \in 1 .. arrivals
  BY <1>2 DEF Arrived
<1>6. r.at # "idle" => /\ r.id \in 1 .. arrivals'
                      /\ \A d \in Connections \ {c} : request[d].at # "idle" => r.id # request[d].id
  <2> SUFFICES ASSUME r.at # "idle"
               PROVE  /\ r.id \in 1 .. arrivals'
                      /\ \A d \in Connections \ {c} : request[d].at # "idle" => r.id # request[d].id
    OBVIOUS
  <2>1. CASE request[c].at \notin {"idle", "audit"} /\ r.id = request[c].id
    <3>1. request[c].id \in 1 .. arrivals
      BY <1>5, <2>1
    <3>2. r.id \in 1 .. arrivals'
      BY <1>2, <2>1, <3>1
    <3> QED  BY <2>1, <3>2, RequestsApart
  <2>2. CASE arrivals' = arrivals + 1 /\ r.id = arrivals'
    BY <1>2, <1>5, <2>2
  <2> QED  BY <2>1, <2>2
<1>7. Arrived'
  <2>1. ASSUME NEW d \in Connections, request'[d].at # "idle" PROVE request'[d].id \in 1 .. arrivals'
    <3>1. CASE d = c
      BY <1>1, <1>6, <2>1, <3>1
    <3>2. CASE d # c
      <4>1. request[d].id \in 1 .. arrivals /\ request'[d] = request[d]
        BY <1>1, <1>5, <2>1, <3>2
      <4> QED  BY <1>2, <4>1
    <3> QED  BY <3>1, <3>2
  <2>2. ASSUME NEW d \in Connections, NEW b \in Connections, d # b, request'[d].at # "idle", request'[b].at # "idle"
        PROVE  request'[d].id # request'[b].id
    <3>1. CASE d # c /\ b # c
      BY <1>1, <2>2, <3>1, RequestsApart
    <3>2. CASE d = c
      BY <1>1, <1>6, <2>2, <3>2
    <3>3. CASE b = c
      BY <1>1, <1>6, <2>2, <3>3
    <3> QED  BY <3>1, <3>2, <3>3
  <2>3. ASSUME NEW e, Logs(auditFiles', e) PROVE e.id <= arrivals'
    <3>1. e \in Events
      <4>1. PICK f, p \in Nat : Stands(auditFiles, f, p) /\ auditFiles[f][p] = e
        BY <2>3 DEF Logs
      <4>2. auditFiles \in Seq(Seq(Events))
        BY DEF TrailInv, TrailTyped, FilesFull
      <4> QED  BY <4>1, <4>2, ElementIn DEF Stands
    <3>2. e.id \in Nat
      BY <3>1, ApiRequestsAssumption DEF Events
    <3> QED  BY <1>2, <1>4, <2>3, <3>2
  <2> QED  BY <2>1, <2>2, <2>3 DEF Arrived
<1>8. ASSUME NEW d \in Connections PROVE NotLogged(d)'
  <2>1. CASE d # c
    <3>1. request'[d] = request[d] /\ LineOf(d)' = LineOf(d)
      BY <1>1, <2>1 DEF LineOf
    <3> QED  BY <1>2, <3>1 DEF NotLogged
  <2>2. CASE d = c
    <3>1. ASSUME r.at # "idle", NEW e, Logs(auditFiles, e) PROVE e.id # r.id
      <4>1. CASE request[c].at \notin {"idle", "audit"} /\ r.id = request[c].id
        BY <1>2, <3>1, <4>1 DEF NotLogged
      <4>2. CASE arrivals' = arrivals + 1 /\ r.id = arrivals'
        BY <1>2, <1>4, <3>1, <4>2
      <4> QED  BY <3>1, <4>1, <4>2
    <3>2. LineOf(c)'.id = r.id
      BY <1>1 DEF LineOf
    <3> QED  BY <1>1, <2>2, <3>1, <3>2 DEF NotLogged
  <2> QED  BY <2>1, <2>2
<1> QED  BY <1>7, <1>8 DEF TrailInv, EachOnce

\* The same when an event of the request that moves is logged.
LEMMA LoggingKeeps ==
    ASSUME TrailInv, NEW c \in Connections, NEW r, r \in RequestRecord, request' = [request EXCEPT ![c] = r],
           UNCHANGED arrivals, NEW event \in Events, auditFiles' = Logged(event),
           request[c].at # "idle", event.id = request[c].id, ~ Logs(auditFiles, event),
           \/ r.at = "idle"
           \/ /\ r.at = "audit" /\ request[c].at # "audit" /\ r.id = request[c].id
              /\ event.kind # "api_request"
    PROVE  /\ FilesFull(auditFiles)' /\ Follows(auditFiles, auditFiles', event)
           /\ Arrived' /\ EachOnce(auditFiles)' /\ \A d \in Connections : NotLogged(d)'
<1>1. /\ request'[c] = r /\ \A d \in Connections \ {c} : request'[d] = request[d]
  BY RequestMoves
<1>2. arrivals \in Nat /\ Arrived /\ (\A d \in Connections : NotLogged(d)) /\ FilesFull(auditFiles) /\ EachOnce(auditFiles)
  BY ApiRequestsAssumption DEF TrailInv, TrailTyped
<1>3. Follows(auditFiles, auditFiles', event)
  BY <1>2, LoggedFollows
<1>4. EachOnce(auditFiles') /\ \A e : Logs(auditFiles', e) => e = event \/ Logs(auditFiles, e)
  <2> DEFINE new == auditFiles'
  <2> HIDE DEF new
  <2>1. Follows(auditFiles, new, event)
    BY <1>3 DEF new
  <2>2. EachOnce(new) /\ \A e : Logs(new, e) => e = event \/ Logs(auditFiles, e)
    BY <1>2, <2>1, OnceFollows
  <2> QED  BY <2>2 DEF new
<1>5. FilesFull(auditFiles')
  BY <1>3 DEF Follows
<1>6. EachOnce(auditFiles)' /\ FilesFull(auditFiles)'
  BY <1>4, <1>5 DEF EachOnce, FilesFull, Stands
<1>7. \A e : Logs(auditFiles, e)' => e = event \/ Logs(auditFiles, e)
  BY <1>4 DEF Logs, Stands
<1>8. request[c].id \in 1 .. arrivals /\ event.id <= arrivals
  BY <1>2 DEF Arrived
<1>9. \A d \in Connections : request'[d].at # "idle" => request[d].at # "idle" /\ request'[d].id = request[d].id
  BY <1>1
<1>10. Arrived'
  <2>1. \A e : Logs(auditFiles, e)' => e.id <= arrivals'
    BY <1>2, <1>7, <1>8 DEF Arrived
  <2>2. \A d \in Connections : request'[d].at # "idle" => request'[d].id \in 1 .. arrivals'
    BY <1>2, <1>9 DEF Arrived
  <2>3. \A d, b \in Connections : request'[d].at # "idle" /\ request'[b].at # "idle" /\ request'[d].id = request'[b].id => d = b
    BY <1>9, RequestsApart
  <2> QED  BY <2>1, <2>2, <2>3 DEF Arrived
<1>11. ASSUME NEW d \in Connections PROVE NotLogged(d)'
  <2>1. CASE d # c
    <3>1. request'[d] = request[d] /\ LineOf(d)' = LineOf(d) /\ LineOf(d).id = request[d].id
      BY <1>1, <2>1 DEF LineOf
    <3>2. request[d].at # "idle" => request[d].id # event.id
      BY <2>1, RequestsApart
    <3>3. request[d].at \notin {"idle", "audit"} => \A e : Logs(auditFiles, e)' => e.id # request[d].id
      BY <1>2, <1>7, <3>2 DEF NotLogged
    <3>4. request[d].at = "audit" => ~ Logs(auditFiles, LineOf(d))'
      BY <1>2, <1>7, <3>1, <3>2 DEF NotLogged
    <3>5. request[d].at = "audit" => ~ Logs(auditFiles', LineOf(d))
      BY <1>2, <1>4, <3>1, <3>2 DEF NotLogged
    <3> QED  BY <3>1, <3>3, <3>5 DEF NotLogged
  <2>2. CASE d = c
    <3>1. CASE r.at = "idle"
      BY <1>1, <2>2, <3>1 DEF NotLogged
    <3>2. CASE r.at # "idle"
      <4>1. LineOf(c)'.id = request[c].id /\ LineOf(c)'.kind = "api_request" /\ r.at = "audit" /\ request[c].at \notin {"idle", "audit"}
        BY <1>1, <3>2 DEF LineOf
      <4>2. LineOf(c)' # event
        BY <3>2, <4>1
      <4> DEFINE l == LineOf(c)'
      <4> HIDE DEF l
      <4>3. ~ Logs(auditFiles, l)
        BY <1>2, <4>1 DEF NotLogged, l
      <4>4. ~ Logs(auditFiles', l)
        BY <1>4, <4>2, <4>3 DEF l
      <4> QED  BY <1>1, <2>2, <4>1, <4>4 DEF NotLogged, l
    <3> QED  BY <3>1, <3>2
  <2> QED  BY <2>1, <2>2
<1> QED  BY <1>3, <1>6, <1>10, <1>11

\* An event that was in a file has room for the one that is newer.
LEMMA LoggingTraces ==
    ASSUME NEW event, FilesFull(auditFiles), Follows(auditFiles, auditFiles', event),
           NEW i \in Nat, due'[i] = due[i], Room(i) \in Int, Room(i)' = Room(i) + 1, InFile(i) \/ Outlived(i)
    PROVE  InFile(i)' \/ Outlived(i)'
<1> DEFINE new == auditFiles'
           k == Room(i)
           m == Backups * FileSize
<1>1. k \in Int /\ Room(i)' = k + 1 /\ m \in Nat
  BY ApiRequestsAssumption
<1>2. CASE Outlived(i)
  <2>1. m + 1 <= k
    BY <1>2 DEF Outlived
  <2> HIDE DEF k, m
  <2>2. m + 1 <= Room(i)'
    BY <1>1, <2>1
  <2> QED  BY <2>2 DEF Outlived, m
<1>3. CASE InFile(i)
  <2>1. PICK f, p \in Nat : Stands(auditFiles, f, p) /\ auditFiles[f][p] = due[i] /\ Newer(auditFiles, f, p) <= k
    BY <1>3 DEF InFile
  <2>2. PICK s \in {0, 1} :
         /\ \A g, q \in Nat : Stands(new, g, q) =>
              \/ g = 1 /\ q = Len(new[1])
              \/ g - s \in Nat /\ Stands(auditFiles, g - s, q) /\ new[g][q] = auditFiles[g - s][q]
         /\ \A g, q \in Nat : Stands(auditFiles, g, q) =>
              \/ /\ Stands(new, g + s, q) /\ new[g + s][q] = auditFiles[g][q]
                 /\ Newer(new, g + s, q) = Newer(auditFiles, g, q) + 1
              \/ Newer(auditFiles, g, q) >= Backups * FileSize
    BY Zenon DEF Follows
  <2> HIDE DEF new
  <2>3. \/ /\ Stands(new, f + s, p) /\ new[f + s][p] = auditFiles[f][p]
           /\ Newer(new, f + s, p) = Newer(auditFiles, f, p) + 1
        \/ Newer(auditFiles, f, p) >= Backups * FileSize
    BY <2>1, <2>2
  <2>4. Newer(auditFiles, f, p) \in Int
    <3>1. After(f) \in Int /\ Len(auditFiles[1]) \in Nat
      <4>1. auditFiles \in Seq(Seq(Events)) /\ 1 \in 1 .. Len(auditFiles)
        BY DEF FilesFull
      <4>2. auditFiles[1] \in Seq(Events)
        BY <4>1, ElementIn
      <4>3. Len(auditFiles[1]) \in Nat
        BY <4>2
      <4>4. After(f) \in Int
        BY AfterNext, Zenon
      <4> QED  BY <4>3, <4>4
    <3> QED  BY <3>1 DEF Newer
  <2> DEFINE w == Newer(auditFiles, f, p)
  <2> HIDE DEF w, k, m
  <2>5. w \in Int /\ w <= k
    BY <2>1, <2>4 DEF w
  <2>6. CASE w >= m
    <3>1. m + 1 <= Room(i)'
      BY <1>1, <2>5, <2>6
    <3> QED  BY <3>1 DEF Outlived, m
  <2>7. CASE Stands(new, f + s, p) /\ new[f + s][p] = auditFiles[f][p] /\ Newer(new, f + s, p) = w + 1
    <3>1. Newer(new, f + s, p) <= Room(i)'
      BY <1>1, <2>5, <2>7
    <3>2. f + s \in Nat
      OBVIOUS
    <3>3. new[f + s][p] = due'[i]
      BY <2>1, <2>7
    <3>4. \E g, q \in Nat : Stands(new, g, q) /\ new[g][q] = due'[i] /\ Newer(new, g, q) <= Room(i)'
      BY <2>7, <3>1, <3>2, <3>3
    <3> QED  BY <3>4 DEF InFile, new, Stands, Newer
  <2> QED  BY <2>3, <2>6, <2>7 DEF w, m
<1> QED  BY <1>2, <1>3

\* What is known of a due event in any state.
LEMMA DueFacts ==
    ASSUME TrailInv
    PROVE  /\ Len(due) \in Nat /\ due \in Seq(Events)
           /\ \A i \in 1 .. Len(due) : Traced(i)
           /\ Cardinality(Connections) \in Nat /\ Cardinality(Auditing) \in Nat
           /\ \A i \in Int : Room(i) \in Int
<1>1. due \in Seq(Events) /\ IsFiniteSet(Connections)
  BY ApiRequestsAssumption DEF TrailInv, TrailTyped
<1>2. Cardinality(Connections) \in Nat /\ Cardinality(Auditing) \in Nat
  <2>1. IsFiniteSet(Auditing)
    BY <1>1, FS_Subset DEF Auditing
  <2> QED  BY <1>1, <2>1, FS_CardinalityType
<1>3. Len(due) \in Nat
  BY <1>1
<1>4. \A i \in Int : Room(i) \in Int
  BY <1>2, <1>3 DEF Room
<1> QED  BY <1>1, <1>2, <1>3, <1>4 DEF TrailInv

\* A request moves on, and nothing is due or logged.
LEMMA TrailQuiet ==
    ASSUME TrailInv, NEW c \in Connections, NEW r, r \in RequestRecord, request' = [request EXCEPT ![c] = r],
           UNCHANGED <<auditFiles, due, dev, server>>, arrivals' \in 0 .. ArrivalsMax, arrivals' >= arrivals,
           r.at # "audit", request[c].at # "audit",
           \/ r.at = "idle"
           \/ request[c].at # "idle" /\ r.id = request[c].id
           \/ arrivals' = arrivals + 1 /\ r.id = arrivals'
    PROVE  TrailInv'
<1>1. Arrived' /\ EachOnce(auditFiles)' /\ \A d \in Connections : NotLogged(d)'
  <2>1. arrivals' \in Nat
    BY ApiRequestsAssumption
  <2> QED  BY <2>1, UnloggedKeeps
<1>2. /\ request' \in [Connections -> RequestRecord] /\ request'[c] = r
      /\ \A d \in Connections \ {c} : request'[d] = request[d]
      /\ Auditing' = Auditing
  BY RequestMoves
<1>3. TrailTyped'
  BY <1>2 DEF TrailInv, TrailTyped, FilesFull
<1>4. ASSUME NEW i \in 1 .. Len(due) PROVE Traced(i)'
  <2>1. Traced(i)
    BY DEF TrailInv
  <2>2. Room(i)' = Room(i)
    BY <1>2 DEF Room
  <2>3. OnItsWay(due[i]) => OnItsWay(due[i])'
    <3> SUFFICES ASSUME OnItsWay(due[i]) PROVE OnItsWay(due[i])'
      OBVIOUS
    <3>1. PICK d \in Connections : request[d].at = "audit" /\ LineOf(d) = due[i]
      BY DEF OnItsWay
    <3>2. request'[d] = request[d]
      BY <1>2, <3>1
    <3>3. request'[d].at = "audit" /\ LineOf(d)' = due'[i]
      BY <3>1, <3>2 DEF LineOf
    <3> QED  BY <3>3 DEF OnItsWay
  <2>4. InFile(i) => InFile(i)'
    BY <2>2 DEF InFile, Stands, Newer
  <2>5. Outlived(i) => Outlived(i)'
    BY <2>2 DEF Outlived
  <2> QED  BY <2>1, <2>3, <2>4, <2>5 DEF Traced
<1> QED  BY <1>1, <1>3, <1>4 DEF TrailInv

\* A request comes to its end, its line becomes due.
LEMMA TrailDue ==
    ASSUME TrailInv, NEW c \in Connections, NEW r, r \in RequestRecord, request' = [request EXCEPT ![c] = r],
           UNCHANGED <<auditFiles, arrivals, dev, server>>, due' = Append(due, LineOf(c)),
           request[c].at \notin {"idle", "audit"}, r.at = "audit", r.id = request[c].id
    PROVE  TrailInv'
<1>1. arrivals \in Nat /\ arrivals <= ArrivalsMax /\ request[c].id \in 1 .. arrivals
  BY ApiRequestsAssumption DEF TrailInv, TrailTyped, Arrived
<1>2. Arrived' /\ EachOnce(auditFiles)' /\ \A d \in Connections : NotLogged(d)'
  <2>1. arrivals' \in Nat /\ arrivals' >= arrivals
    BY <1>1
  <2> QED  BY <2>1, UnloggedKeeps
<1>3. /\ request' \in [Connections -> RequestRecord] /\ request'[c] = r
      /\ \A d \in Connections \ {c} : request'[d] = request[d]
      /\ Cardinality(Auditing') = Cardinality(Auditing) + 1
  BY RequestMoves
<1>4. LineOf(c) \in Events
  BY <1>1, ApiRequestsAssumption DEF LineOf, Events
<1>5. /\ due' \in Seq(Events) /\ Len(due') = Len(due) + 1 /\ due'[Len(due) + 1] = LineOf(c)
      /\ \A i \in 1 .. Len(due) : due'[i] = due[i]
  BY <1>4, DueFacts
<1>6. TrailTyped'
  BY <1>3, <1>5 DEF TrailInv, TrailTyped, FilesFull
<1>7. LineOf(c)' = LineOf(c)
  BY <1>3 DEF LineOf
<1>8. ASSUME NEW i \in 1 .. Len(due) + 1 PROVE Traced(i)'
  <2>1. CASE i = Len(due) + 1
    <3>1. request'[c].at = "audit" /\ LineOf(c)' = due'[i]
      BY <1>3, <1>5, <1>7, <2>1
    <3> QED  BY <3>1 DEF Traced, OnItsWay
  <2>2. CASE i # Len(due) + 1
    <3>1. i \in 1 .. Len(due) /\ due'[i] = due[i] /\ Traced(i)
      <4>1. Len(due) \in Nat
        BY DueFacts
      <4>2. i \in 1 .. Len(due)
        BY <2>2, <4>1
      <4> QED  BY <1>5, <4>2, DueFacts, Zenon
    <3>2. Room(i)' = Room(i)
      <4>1. Len(due) \in Nat /\ Cardinality(Connections) \in Nat /\ Cardinality(Auditing) \in Nat /\ i \in Int
        BY DueFacts
      <4>2. Room(i)' = (Len(due) + 1) - i + Cardinality(Connections) - 1 - (Cardinality(Auditing) + 1)
        BY <1>3, <1>5 DEF Room
      <4>3. Room(i) = Len(due) - i + Cardinality(Connections) - 1 - Cardinality(Auditing)
        BY DEF Room
      <4> QED  BY ONLY <4>1, <4>2, <4>3
    <3>3. OnItsWay(due[i]) => OnItsWay(due[i])'
      <4> SUFFICES ASSUME OnItsWay(due[i]) PROVE OnItsWay(due[i])'
        OBVIOUS
      <4>1. PICK d \in Connections : request[d].at = "audit" /\ LineOf(d) = due[i]
        BY DEF OnItsWay
      <4>2. request'[d] = request[d]
        BY <1>3, <4>1
      <4>3. request'[d].at = "audit" /\ LineOf(d)' = due'[i]
        BY <3>1, <4>1, <4>2 DEF LineOf
      <4> QED  BY <4>3 DEF OnItsWay
    <3>4. InFile(i) => InFile(i)'
      BY <3>1, <3>2 DEF InFile, Stands, Newer
    <3>5. Outlived(i) => Outlived(i)'
      BY <3>2 DEF Outlived
    <3> QED  BY <3>1, <3>3, <3>4, <3>5 DEF Traced
  <2> QED  BY <2>1, <2>2
<1>9. \A i \in 1 .. Len(due') : Traced(i)'
  BY <1>5, <1>8
<1> QED  BY <1>2, <1>6, <1>9 DEF TrailInv

\* A key changes: its line is logged at once, that of the request becomes due.
LEMMA TrailKey ==
    ASSUME TrailInv, NEW c \in Connections, NEW r, r \in RequestRecord, request' = [request EXCEPT ![c] = r],
           UNCHANGED <<arrivals, dev, server>>, NEW event, event = [kind |-> "security", id |-> request[c].id],
           auditFiles' = Logged(event), due' = due \o <<event, LineOf(c)>>,
           request[c].at \notin {"idle", "audit"}, r.at = "audit", r.id = request[c].id
    PROVE  TrailInv'
<1>1. arrivals \in Nat /\ arrivals <= ArrivalsMax /\ request[c].id \in 1 .. arrivals
  BY ApiRequestsAssumption DEF TrailInv, TrailTyped, Arrived
<1>2. event \in Events /\ LineOf(c) \in Events /\ event.id = request[c].id /\ event.kind # "api_request"
  BY <1>1, ApiRequestsAssumption DEF LineOf, Events
<1>3. ~ Logs(auditFiles, event) /\ FilesFull(auditFiles)
  BY <1>2 DEF TrailInv, TrailTyped, NotLogged
<1>4. /\ FilesFull(auditFiles)' /\ Follows(auditFiles, auditFiles', event)
      /\ Arrived' /\ EachOnce(auditFiles)' /\ \A d \in Connections : NotLogged(d)'
  BY <1>2, <1>3, LoggingKeeps
<1>5. /\ request' \in [Connections -> RequestRecord] /\ request'[c] = r
      /\ \A d \in Connections \ {c} : request'[d] = request[d]
      /\ Cardinality(Auditing') = Cardinality(Auditing) + 1
      /\ Cardinality(Auditing') <= Cardinality(Connections) /\ Cardinality(Connections) \in Nat
      /\ Cardinality(Auditing') \in Nat
  BY RequestMoves
<1>0. PICK n \in Nat : n = Len(due)
  BY DueFacts
<1>6. /\ due' \in Seq(Events) /\ Len(due') = n + 2 /\ due'[n + 1] = event /\ due'[n + 2] = LineOf(c)
      /\ (\A i \in 1 .. n : due'[i] = due[i]) /\ n \in Nat
  <2>1. due \in Seq(Events) /\ n \in Nat
    BY <1>0, DueFacts
  <2>2. <<event, LineOf(c)>> \in Seq(Events) /\ Len(<<event, LineOf(c)>>) = 2
        /\ <<event, LineOf(c)>>[1] = event /\ <<event, LineOf(c)>>[2] = LineOf(c)
    BY <1>2
  <2> DEFINE t == <<event, LineOf(c)>>
  <2> HIDE DEF t
  <2>3. t \in Seq(Events) /\ Len(t) = 2 /\ t[1] = event /\ t[2] = LineOf(c) /\ due' = due \o t
    BY <2>2 DEF t
  <2>4. due' \in Seq(Events) /\ Len(due') = n + 2 /\ (\A i \in 1 .. n : due'[i] = due[i])
    BY <1>0, <2>1, <2>3
  <2>5. due'[n + 1] = t[1] /\ due'[n + 2] = t[2]
    BY <1>0, <2>1, <2>3
  <2> QED  BY <2>3, <2>4, <2>5
<1>7. TrailTyped'
  BY <1>4, <1>5, <1>6 DEF TrailInv, TrailTyped
<1>8. LineOf(c)' = LineOf(c)
  BY <1>5 DEF LineOf
<1>9. ASSUME NEW i \in 1 .. n PROVE Traced(i)'
  <2>1. i \in Nat /\ due'[i] = due[i] /\ Traced(i) /\ Room(i) \in Int
    BY <1>0, <1>6, DueFacts
  <2>2. Room(i)' = Room(i) + 1
    <3>1. Cardinality(Auditing) \in Nat
      BY DueFacts
    <3>2. Room(i)' = (n + 2) - i + Cardinality(Connections) - 1 - Cardinality(Auditing')
      BY <1>6 DEF Room
    <3>3. Room(i) = n - i + Cardinality(Connections) - 1 - Cardinality(Auditing)
      BY <1>0 DEF Room
    <3>4. i \in Int /\ n \in Int
      BY <2>1
    <3> QED  BY ONLY <1>5, <3>1, <3>2, <3>3, <3>4
  <2>3. OnItsWay(due[i]) => OnItsWay(due[i])'
    <3> SUFFICES ASSUME OnItsWay(due[i]) PROVE OnItsWay(due[i])'
      OBVIOUS
    <3>1. PICK d \in Connections : request[d].at = "audit" /\ LineOf(d) = due[i]
      BY DEF OnItsWay
    <3>2. request'[d] = request[d]
      BY <1>5, <3>1
    <3>3. request'[d].at = "audit" /\ LineOf(d)' = due'[i]
      BY <2>1, <3>1, <3>2 DEF LineOf
    <3> QED  BY <3>3 DEF OnItsWay
  <2>4. InFile(i) \/ Outlived(i) => InFile(i)' \/ Outlived(i)'
    BY <1>3, <1>4, <2>1, <2>2, LoggingTraces
  <2> QED  BY <2>1, <2>3, <2>4 DEF Traced
<1>10. Traced(n + 1)'
  <2>1. Room(n + 1)' >= 0
    <3>1. Room(n + 1)' = (n + 2) - (n + 1) + Cardinality(Connections) - 1 - Cardinality(Auditing')
      BY <1>6 DEF Room
    <3> QED  BY <1>5, <1>6, <3>1
  <2> DEFINE new == auditFiles'
             l == Len(new[1])
  <2>2. Stands(new, 1, l) /\ new[1][l] = due'[n + 1]
    BY <1>4, <1>6 DEF Follows
  <2>3. l \in Nat /\ Newer(new, 1, l) = 0
    <3>1. l \in Nat
      <4>1. new \in Seq(Seq(Events)) /\ 1 \in 1 .. Len(new)
        BY <1>4, <2>2 DEF FilesFull, Stands
      <4>2. new[1] \in Seq(Events)
        BY <4>1, ElementIn
      <4> QED  BY <4>2
    <3>2. After(1) = 0
      BY AfterNext
    <3> QED  BY <3>1, <3>2 DEF Newer
  <2> HIDE DEF l
  <2>4. Newer(new, 1, l) <= Room(n + 1)'
    <3> DEFINE k == Room(n + 1)'
    <3> HIDE DEF k, new
    <3>1. k >= 0 /\ Newer(new, 1, l) = 0
      BY <2>1, <2>3 DEF k
    <3> QED  BY <3>1 DEF k
  <2>5. InFile(n + 1)'
    <3>1. \E f, p \in Nat : Stands(new, f, p) /\ new[f][p] = due'[n + 1] /\ Newer(new, f, p) <= Room(n + 1)'
      BY <2>2, <2>3, <2>4
    <3> QED  BY <3>1 DEF InFile, Stands, Newer
  <2> QED  BY <2>5 DEF Traced
<1>11. Traced(n + 2)'
  <2>1. request'[c].at = "audit" /\ LineOf(c)' = due'[n + 2]
    BY <1>5, <1>6, <1>8
  <2> QED  BY <2>1 DEF Traced, OnItsWay
<1>12. \A i \in 1 .. Len(due') : Traced(i)'
  <2>1. \A i \in 1 .. n + 2 : i \in 1 .. n \/ i = n + 1 \/ i = n + 2
    BY <1>6
  <2> QED  BY <1>6, <1>9, <1>10, <1>11, <2>1
<1> QED  BY <1>4, <1>7, <1>12 DEF TrailInv

\* A request that has ended is logged: its line is the newest.
LEMMA TrailAudit ==
    ASSUME TrailInv, NEW c \in Connections, Audits(c), UNCHANGED <<dev, server>>
    PROVE  TrailInv'
<1> DEFINE r == Waiting
<1>1. /\ request' = [request EXCEPT ![c] = r] /\ request[c].at = "audit" /\ UNCHANGED <<due, arrivals, dev, server>>
      /\ auditFiles' = Logged(LineOf(c))
  BY DEF Audits
<1>2. r \in RequestRecord /\ r.at = "idle"
  BY ApiRequestsAssumption DEF Waiting, RequestRecord, Paths, Origins
<1>3. PICK event \in Events : event = LineOf(c)
  <2>1. arrivals \in Nat /\ arrivals <= ArrivalsMax /\ request[c].id \in 1 .. arrivals
    BY <1>1, ApiRequestsAssumption DEF TrailInv, TrailTyped, Arrived
  <2>2. LineOf(c) \in Events
    BY <2>1, ApiRequestsAssumption DEF LineOf, Events
  <2> QED  BY <2>2
<1>4. event.id = request[c].id /\ request[c].at # "idle" /\ ~ Logs(auditFiles, event) /\ FilesFull(auditFiles)
  BY <1>1, <1>3 DEF LineOf, TrailInv, TrailTyped, NotLogged
<1> HIDE DEF r
<1>5. /\ FilesFull(auditFiles)' /\ Follows(auditFiles, auditFiles', event)
      /\ Arrived' /\ EachOnce(auditFiles)' /\ \A d \in Connections : NotLogged(d)'
  BY <1>1, <1>2, <1>3, <1>4, LoggingKeeps
<1>6. /\ request' \in [Connections -> RequestRecord]
      /\ \A d \in Connections \ {c} : request'[d] = request[d]
      /\ Cardinality(Auditing') = Cardinality(Auditing) - 1
      /\ Cardinality(Auditing') <= Cardinality(Connections) - 1 /\ Cardinality(Connections) \in Nat
      /\ Cardinality(Auditing') \in Nat /\ Cardinality(Auditing) \in Nat
  BY <1>1, <1>2, RequestMoves
<1>7. TrailTyped'
  BY <1>1, <1>5, <1>6 DEF TrailInv, TrailTyped
<1>8. ASSUME NEW i \in 1 .. Len(due) PROVE Traced(i)'
  <2>1. i \in Nat /\ i <= Len(due) /\ Len(due) \in Nat /\ due'[i] = due[i] /\ Traced(i) /\ Room(i) \in Int
    BY <1>1, DueFacts
  <2>2. Room(i)' = Len(due) - i + Cardinality(Connections) - 1 - Cardinality(Auditing')
    BY <1>1 DEF Room
  <2>3. Room(i)' = Room(i) + 1
    <3>1. Room(i) = Len(due) - i + Cardinality(Connections) - 1 - Cardinality(Auditing)
      BY DEF Room
    <3> QED  BY ONLY <1>6, <2>1, <2>2, <3>1
  <2>4. Room(i)' >= 0
    BY ONLY <1>6, <2>1, <2>2
  <2>5. CASE InFile(i) \/ Outlived(i)
    <3>1. InFile(i)' \/ Outlived(i)'
      BY <1>4, <1>5, <2>1, <2>3, <2>5, LoggingTraces
    <3> QED  BY <3>1 DEF Traced
  <2>6. ASSUME NEW d \in Connections, d # c, request[d].at = "audit", LineOf(d) = due[i]
        PROVE  Traced(i)'
    <3>1. request'[d] = request[d]
      BY <1>6, <2>6
    <3>2. request'[d].at = "audit" /\ LineOf(d)' = due'[i]
      BY <2>1, <2>6, <3>1 DEF LineOf
    <3> QED  BY <3>2 DEF Traced, OnItsWay
  <2>7. CASE LineOf(c) = due[i]
    <3> DEFINE new == auditFiles'
               l == Len(new[1])
    <3>1. Stands(new, 1, l) /\ new[1][l] = due'[i]
      BY <1>3, <1>5, <2>1, <2>7 DEF Follows
    <3>2. l \in Nat /\ Newer(new, 1, l) = 0
      <4>1. l \in Nat
        <5>1. new \in Seq(Seq(Events)) /\ 1 \in 1 .. Len(new)
          BY <1>5, <3>1 DEF FilesFull, Stands
        <5>2. new[1] \in Seq(Events)
          BY <5>1, ElementIn
        <5> QED  BY <5>2
      <4>2. After(1) = 0
        BY AfterNext
      <4> QED  BY <4>1, <4>2 DEF Newer
    <3> HIDE DEF l
    <3>3. Newer(new, 1, l) <= Room(i)'
      <4> DEFINE k == Room(i)'
      <4> HIDE DEF k, new
      <4>1. k >= 0 /\ Newer(new, 1, l) = 0
        BY <2>4, <3>2 DEF k
      <4> QED  BY <4>1 DEF k
    <3>4. \E f, p \in Nat : Stands(new, f, p) /\ new[f][p] = due'[i] /\ Newer(new, f, p) <= Room(i)'
      BY <3>1, <3>2, <3>3
    <3>5. InFile(i)'
      BY <3>4 DEF InFile, Stands, Newer
    <3> QED  BY <3>5 DEF Traced
  <2> QED  BY <2>1, <2>5, <2>6, <2>7 DEF Traced, OnItsWay
<1>9. Len(due') = Len(due)
  BY <1>1
<1> QED  BY <1>5, <1>7, <1>8, <1>9 DEF TrailInv

\* Nothing of the requests and of the log changes.
LEMMA TrailStays ==
    ASSUME TrailInv, TrailTyped', UNCHANGED <<request, auditFiles, due, arrivals>>
    PROVE  TrailInv'
<1>1. Arrived'
  BY DEF TrailInv, Arrived, Logs, Stands
<1>2. EachOnce(auditFiles)'
  BY DEF TrailInv, EachOnce, Stands
<1>3. ASSUME NEW c \in Connections PROVE NotLogged(c)'
  <2>1. NotLogged(c) /\ LineOf(c)' = LineOf(c)
    BY DEF TrailInv, LineOf
  <2> QED  BY <2>1 DEF NotLogged, Logs, Stands
<1>4. ASSUME NEW i \in 1 .. Len(due) PROVE Traced(i)'
  <2>1. Traced(i)
    BY DEF TrailInv
  <2>2. Room(i)' = Room(i)
    BY DEF Room, Auditing
  <2>3. OnItsWay(due[i]) => OnItsWay(due[i])'
    BY DEF OnItsWay, LineOf
  <2>4. InFile(i) => InFile(i)'
    BY <2>2 DEF InFile, Stands, Newer
  <2>5. Outlived(i) => Outlived(i)'
    BY <2>2 DEF Outlived
  <2> QED  BY <2>1, <2>3, <2>4, <2>5 DEF Traced
<1> QED  BY <1>1, <1>2, <1>3, <1>4 DEF TrailInv

\* Every step keeps the trail.
LEMMA TrailStep == TrailInv /\ [ApiRequestsNext]_requestVars => TrailInv'
<1> SUFFICES ASSUME TrailInv, [ApiRequestsNext]_requestVars PROVE TrailInv'
  OBVIOUS
<1>1. TrailTyped /\ request \in [Connections -> RequestRecord]
  BY DEF TrailInv, TrailTyped
<1>2. arrivals \in 0 .. ArrivalsMax /\ ArrivalsMax \in Nat
  BY <1>1, ApiRequestsAssumption DEF TrailTyped
<1>3. Waiting \in RequestRecord /\ Waiting.at = "idle"
  BY ApiRequestsAssumption DEF Waiting, RequestRecord, Paths, Origins
<1>4. CASE StartsUp
  <2>1. dev' \in BOOLEAN /\ server' \in {"begins", "serves", "refused"} /\ UNCHANGED <<request, auditFiles, due, arrivals>>
    <3>1. PICK environment \in Environments : dev' = environment.dev /\ server' = IF Sound(environment) THEN "serves" ELSE "refused"
      BY <1>4 DEF StartsUp
    <3>2. environment.dev \in BOOLEAN
      BY DEF Environments
    <3> QED  BY <1>4, <3>1, <3>2 DEF StartsUp
  <2>2. TrailTyped'
    BY <1>1, <2>1 DEF TrailTyped, FilesFull
  <2> QED  BY <2>1, <2>2, TrailStays
<1>5. CASE UNCHANGED requestVars
  <2>1. UNCHANGED <<dev, server, request, auditFiles, due, arrivals>>
    BY <1>5 DEF requestVars
  <2>2. TrailTyped'
    BY <1>1, <2>1 DEF TrailTyped, FilesFull
  <2> QED  BY <2>1, <2>2, TrailStays
<1>6. ASSUME NEW c \in Connections, UNCHANGED <<dev, server>>, Arrives(c) PROVE TrailInv'
  <2>1. PICK path \in Paths : \E origin \in IF path \in SafeScopes THEN {"good"} ELSE Origins :
         request' = [request EXCEPT ![c] =
            [at |-> IF path = "public" THEN "endpoint" ELSE "limiter", id |-> arrivals + 1,
             path |-> path, origin |-> origin, raised |-> FALSE]]
    BY <1>6 DEF Arrives
  <2>2. PICK origin \in Origins : 
         request' = [request EXCEPT ![c] =
            [at |-> IF path = "public" THEN "endpoint" ELSE "limiter", id |-> arrivals + 1,
             path |-> path, origin |-> origin, raised |-> FALSE]]
    BY <2>1 DEF Origins
  <2> DEFINE r == [at |-> IF path = "public" THEN "endpoint" ELSE "limiter", id |-> arrivals + 1,
                   path |-> path, origin |-> origin, raised |-> FALSE]
  <2>3. arrivals + 1 \in 0 .. ArrivalsMax /\ arrivals' = arrivals + 1 /\ request[c].at = "idle"
        /\ UNCHANGED <<auditFiles, due>>
    BY <1>2, <1>6 DEF Arrives, Unlogged
  <2>4. r \in RequestRecord /\ r.at # "audit" /\ r.id = arrivals + 1
    BY <2>3 DEF RequestRecord
  <2>5. request' = [request EXCEPT ![c] = r]
    BY <2>2
  <2> HIDE DEF r
  <2>6. arrivals' >= arrivals /\ arrivals' \in 0 .. ArrivalsMax /\ r.id = arrivals'
    BY <1>2, <2>3, <2>4
  <2> QED  BY <1>6, <2>3, <2>4, <2>5, <2>6, TrailQuiet
<1>7. ASSUME NEW c \in Connections, UNCHANGED <<dev, server>>, LimiterRefuses(c) PROVE TrailInv'
  <2>1. arrivals' >= arrivals /\ arrivals' \in 0 .. ArrivalsMax /\ UNCHANGED <<auditFiles, due, dev, server>>
        /\ request' = [request EXCEPT ![c] = Waiting] /\ request[c].at # "audit"
    BY <1>2, <1>7 DEF LimiterRefuses, Unlogged
  <2> QED  BY <1>3, <2>1, TrailQuiet
<1>8. ASSUME NEW c \in Connections, UNCHANGED <<dev, server>>, LimiterPasses(c) \/ OriginPasses(c) PROVE TrailInv'
  <2>1. PICK place \in {"origin", "endpoint"} : RequestGoes(c, place)
    BY <1>8 DEF LimiterPasses, OriginPasses
  <2>2. arrivals' >= arrivals /\ arrivals' \in 0 .. ArrivalsMax /\ UNCHANGED <<auditFiles, due, dev, server>>
        /\ request[c].at \notin {"idle", "audit"}
    BY <1>2, <1>8 DEF LimiterPasses, OriginPasses, Unlogged
  <2> DEFINE r == [request[c] EXCEPT !.at = place]
  <2>3. r \in RequestRecord /\ r.at = place /\ r.id = request[c].id
    BY <1>1 DEF RequestRecord
  <2>4. request' = [request EXCEPT ![c] = r]
    BY <2>1 DEF RequestGoes
  <2> HIDE DEF r
  <2> QED  BY <2>2, <2>3, <2>4, TrailQuiet
<1>9. ASSUME NEW c \in Connections, NEW raised \in BOOLEAN, UNCHANGED <<dev, server, auditFiles, arrivals>>,
             Ends(c, raised), due' = Append(due, LineOf(c)), request[c].at \notin {"idle", "audit"}
      PROVE  TrailInv'
  <2> DEFINE r == [request[c] EXCEPT !.at = "audit", !.raised = raised]
  <2>1. r \in RequestRecord /\ r.at = "audit" /\ r.id = request[c].id
    BY <1>1 DEF RequestRecord
  <2>2. request' = [request EXCEPT ![c] = r]
    BY <1>9 DEF Ends
  <2> HIDE DEF r
  <2> QED  BY <1>9, <2>1, <2>2, TrailDue
<1>10. ASSUME NEW c \in Connections, UNCHANGED <<dev, server>>, OriginRefused(c) PROVE TrailInv'
  BY <1>9, <1>10 DEF OriginRefused
<1>11. ASSUME NEW c \in Connections, UNCHANGED <<dev, server>>, Responds(c) PROVE TrailInv'
  <2>1. CASE request[c].path = "public"
    <3>1. arrivals' >= arrivals /\ arrivals' \in 0 .. ArrivalsMax /\ UNCHANGED <<auditFiles, due, dev, server>>
          /\ request' = [request EXCEPT ![c] = Waiting] /\ request[c].at # "audit"
      BY <1>2, <1>11, <2>1 DEF Responds
    <3> QED  BY <1>3, <3>1, TrailQuiet
  <2>2. CASE request[c].path # "public"
    BY <1>9, <1>11, <2>2 DEF Responds
  <2> QED  BY <2>1, <2>2
<1>12. ASSUME NEW c \in Connections, UNCHANGED <<dev, server>>, ChangesKey(c) PROVE TrailInv'
  <2> DEFINE r == [request[c] EXCEPT !.at = "audit", !.raised = FALSE]
  <2>1. r \in RequestRecord /\ r.at = "audit" /\ r.id = request[c].id
    BY <1>1 DEF RequestRecord
  <2>2. request' = [request EXCEPT ![c] = r]
    BY <1>12 DEF ChangesKey, Ends
  <2> HIDE DEF r
  <2> DEFINE event == [kind |-> "security", id |-> request[c].id]
  <2>3. auditFiles' = Logged(event) /\ due' = due \o <<event, LineOf(c)>> /\ UNCHANGED arrivals
        /\ request[c].at \notin {"idle", "audit"}
    BY <1>12 DEF ChangesKey
  <2> QED  BY <1>12, <2>1, <2>2, <2>3, TrailKey
<1>13. ASSUME NEW c \in Connections, UNCHANGED <<dev, server>>, Audits(c) PROVE TrailInv'
  BY <1>13, TrailAudit
<1> QED  BY <1>4, <1>5, <1>6, <1>7, <1>8, <1>10, <1>11, <1>12, <1>13 DEF ApiRequestsNext

\* Whatever way a request that passed the shared limiter ends, a search of the
\* audit log finds its line, once, as long as the files still have to hold it;
\* and the line of every change of a key (app.audit_logging_middleware,
\* AuditLogger.search_logs).  For any number of connections and any size and
\* number of files.
THEOREM TrailStaysComplete == ApiRequestsSpec => []TrailComplete
<1>1. TrailInv => TrailComplete
  BY TrailFollows
<1> QED  BY <1>1, TrailBegins, TrailStep, PTL DEF ApiRequestsSpec

\* The audit log's types, and its bounds: no file is longer than its size, no
\* more files are kept than those of backup_count and the open one.
THEOREM RequestTypesHold == ApiRequestsSpec => []ApiRequestsTypeOK
<1>1. TrailInv => ApiRequestsTypeOK
  BY TrailFollows
<1> QED  BY <1>1, TrailBegins, TrailStep, PTL DEF ApiRequestsSpec

-----------------------------------------------------------------------------
\* What a result, an ending, a run is.
Files == ToSet(TestFiles)
FileResults == [file : Files, outcome : Outcomes]
Endings == [file : {"none"}, outcome : {"complete", "crashed"}]
RunnerSteps == {"idle", "start", "loop", "leaving"}
RunnerModes == {"none", "all", "one", "loop", "pool"}
Runner == [at : RunnerSteps, mode : RunnerModes, todo : Seq(Files), busy : SUBSET Files, done : Seq(FileResults)]

RunTyped ==
    /\ isRunning \in BOOLEAN /\ stopRequested \in BOOLEAN /\ dialog \in BOOLEAN
    /\ runner \in Runner
    /\ updates \in Seq(FileResults \union Endings)
    /\ results \in Seq(FileResults) /\ reported \in Seq(FileResults)
    /\ status \in {"loaded", "running", "stopping", "cleared", "failures", "error", "all passed"}
    /\ runs \in 0 .. RunsMax

\* The completion is posted when the thread ends, and nothing after it.
CompletionLast ==
    /\ runner.at = "idle" => runner = NoRunner
    /\ isRunning /\ runner.at = "idle" => updates # <<>> /\ updates[Len(updates)] \in Endings
    /\ runner.at # "idle" => isRunning /\ \A i \in 1 .. Len(updates) : updates[i] \in FileResults
    /\ \A i \in 1 .. Len(updates) : i < Len(updates) => updates[i] \in FileResults
    /\ ~isRunning => updates = <<>>

\* k of the updates are results: the last k of the results reported, of which the
\* others are the last ones that the window has.
Posted(k) ==
    /\ \A i \in 1 .. Len(updates) : i <= k <=> updates[i] \in FileResults
    /\ k <= Len(updates) /\ k <= Len(reported) /\ Len(reported) - k <= Len(results)
    /\ \A i \in 1 .. k : reported[Len(reported) - k + i] = updates[i]
    /\ \A i \in 1 .. Len(reported) - k : reported[i] = results[Len(results) - (Len(reported) - k) + i]

FilesOf(s) == {s[i].file : i \in 1 .. Len(s)}
Once(s) == \A i, j \in 1 .. Len(s) : s[i].file = s[j].file => i = j

\* A file of the run is to be started, runs, is finished or is reported.
Apart(told, done, todo, busy) ==
    /\ Once(told) /\ Once(done)
    /\ \A i, j \in 1 .. Len(todo) : todo[i] = todo[j] => i = j
    /\ \A f \in FilesOf(told) : f \notin FilesOf(done) /\ f \notin busy /\ f \notin ToSet(todo)
    /\ \A f \in FilesOf(done) : f \notin busy /\ f \notin ToSet(todo)
    /\ \A f \in busy : f \notin ToSet(todo)

FilesApart == Apart(reported, runner.done, runner.todo, runner.busy)

RunInv == RunTyped /\ CompletionLast /\ (\E k \in Nat : Posted(k)) /\ FilesApart

\* No run is a run.
LEMMA NoRunnerTyped == NoRunner \in Runner /\ NoRunner.at = "idle" /\ NoRunner.busy = {} /\ NoRunner.todo = <<>>
                       /\ NoRunner.done = <<>>
  BY DEF NoRunner, Runner, RunnerSteps, RunnerModes

\* One file more
LEMMA FileAdded ==
    ASSUME NEW s \in Seq(FileResults), NEW r \in FileResults, Once(s), r.file \notin FilesOf(s)
    PROVE  /\ Once(Append(s, r)) /\ FilesOf(Append(s, r)) = FilesOf(s) \union {r.file}
<1> DEFINE q == Append(s, r)
           n == Len(s)
<1>1. /\ q \in Seq(FileResults) /\ Len(q) = n + 1 /\ q[n + 1] = r /\ n \in Nat
      /\ \A i \in 1 .. n : q[i] = s[i]
  BY Appended
<1> HIDE DEF q
<1>2. \A i \in 1 .. n + 1 : i \in 1 .. n \/ i = n + 1
  BY <1>1
<1>3. \A i \in 1 .. n : s[i].file # r.file
  BY DEF FilesOf
<1>4. Once(q)
  <2> SUFFICES ASSUME NEW i \in 1 .. n + 1, NEW j \in 1 .. n + 1, q[i].file = q[j].file PROVE i = j
    BY <1>1 DEF Once
  <2>1. CASE i \in 1 .. n /\ j \in 1 .. n
    BY <1>1, <2>1 DEF Once
  <2>2. CASE ~(i \in 1 .. n /\ j \in 1 .. n)
    BY <1>1, <1>2, <1>3, <2>2
  <2> QED  BY <2>1, <2>2
<1>5. ASSUME NEW f PROVE f \in FilesOf(q) <=> f \in FilesOf(s) \union {r.file}
  <2>1. f \in FilesOf(q) <=> \E i \in 1 .. n + 1 : q[i].file = f
    BY <1>1 DEF FilesOf
  <2>2. f \in FilesOf(s) <=> \E i \in 1 .. n : s[i].file = f
    BY DEF FilesOf
  <2>3. n + 1 \in 1 .. n + 1 /\ 1 .. n \subseteq 1 .. n + 1
    BY <1>1
  <2> QED  BY <1>1, <1>2, <2>1, <2>2, <2>3
<1> QED  BY <1>4, <1>5 DEF q

\* One file less
LEMMA FileTaken ==
    ASSUME NEW s \in Seq(FileResults), s # <<>>, Once(s)
    PROVE  /\ Once(Tail(s)) /\ FilesOf(Tail(s)) = FilesOf(s) \ {Head(s).file} /\ Head(s).file \in FilesOf(s)
<1> DEFINE q == Tail(s)
           n == Len(s)
<1>1. /\ n \in Nat \ {0} /\ Head(s) = s[1] /\ q \in Seq(FileResults) /\ Len(q) = n - 1
      /\ \A i \in 1 .. n - 1 : q[i] = s[i + 1]
  BY Shortened
<1> HIDE DEF q
<1>2. \A i \in 1 .. n - 1 : i + 1 \in 1 .. n /\ i + 1 # 1
  BY <1>1
<1>3. \A i \in 1 .. n : i = 1 \/ \E j \in 1 .. n - 1 : i = j + 1
  <2> SUFFICES ASSUME NEW i \in 1 .. n, i # 1 PROVE \E j \in 1 .. n - 1 : i = j + 1
    OBVIOUS
  <2>1. i - 1 \in 1 .. n - 1 /\ i = (i - 1) + 1
    BY <1>1
  <2> QED  BY <2>1
<1>4. Once(q)
  <2> SUFFICES ASSUME NEW i \in 1 .. n - 1, NEW j \in 1 .. n - 1, q[i].file = q[j].file PROVE i = j
    BY <1>1 DEF Once
  <2>1. i + 1 = j + 1
    BY <1>1, <1>2 DEF Once
  <2> QED  BY <1>1, <2>1
<1>5. 1 \in 1 .. n
  BY <1>1
<1>6. ASSUME NEW f PROVE f \in FilesOf(q) <=> f \in FilesOf(s) \ {s[1].file}
  <2>1. f \in FilesOf(q) <=> \E i \in 1 .. n - 1 : s[i + 1].file = f
    BY <1>1 DEF FilesOf
  <2>2. f \in FilesOf(s) <=> \E i \in 1 .. n : s[i].file = f
    BY DEF FilesOf
  <2>3. \A i \in 1 .. n - 1 : s[i + 1].file # s[1].file
    BY <1>2, <1>5 DEF Once
  <2> QED  BY <1>2, <1>3, <2>1, <2>2, <2>3
<1> QED  BY <1>1, <1>4, <1>5, <1>6 DEF q, FilesOf

\* A file is started.
LEMMA FileStarted ==
    ASSUME NEW s \in Seq(Files), s # <<>>, \A i, j \in 1 .. Len(s) : s[i] = s[j] => i = j
    PROVE  /\ \A i, j \in 1 .. Len(Tail(s)) : Tail(s)[i] = Tail(s)[j] => i = j
           /\ ToSet(Tail(s)) = ToSet(s) \ {Head(s)} /\ Head(s) \in ToSet(s)
<1> DEFINE q == Tail(s)
           n == Len(s)
<1>1. /\ n \in Nat \ {0} /\ Head(s) = s[1] /\ q \in Seq(Files) /\ Len(q) = n - 1
      /\ \A i \in 1 .. n - 1 : q[i] = s[i + 1]
  BY Shortened
<1>0. DOMAIN s = 1 .. n /\ DOMAIN q = 1 .. n - 1
  BY <1>1
<1> HIDE DEF q
<1>2. \A i \in 1 .. n - 1 : i + 1 \in 1 .. n /\ i + 1 # 1
  BY <1>1
<1>3. \A i \in 1 .. n : i = 1 \/ \E j \in 1 .. n - 1 : i = j + 1
  <2> SUFFICES ASSUME NEW i \in 1 .. n, i # 1 PROVE \E j \in 1 .. n - 1 : i = j + 1
    OBVIOUS
  <2>1. i - 1 \in 1 .. n - 1 /\ i = (i - 1) + 1
    BY <1>1
  <2> QED  BY <2>1
<1>4. \A i, j \in 1 .. n - 1 : q[i] = q[j] => i = j
  <2> SUFFICES ASSUME NEW i \in 1 .. n - 1, NEW j \in 1 .. n - 1, q[i] = q[j] PROVE i = j
    OBVIOUS
  <2>1. i + 1 = j + 1
    BY <1>1, <1>2
  <2> QED  BY <1>1, <2>1
<1>5. 1 \in 1 .. n
  BY <1>1
<1>6. ASSUME NEW f PROVE f \in ToSet(q) <=> f \in ToSet(s) \ {s[1]}
  <2>1. f \in ToSet(q) <=> \E i \in 1 .. n - 1 : s[i + 1] = f
    <3>1. f \in ToSet(q) <=> \E i \in 1 .. n - 1 : q[i] = f
      BY <1>0, Zenon DEF ToSet
    <3> QED  BY <1>1, <3>1
  <2>2. f \in ToSet(s) <=> \E i \in 1 .. n : s[i] = f
    BY <1>0, Zenon DEF ToSet
  <2>3. \A i \in 1 .. n - 1 : s[i + 1] # s[1]
    BY <1>2, <1>5
  <2> QED  BY <1>2, <1>3, <2>1, <2>2, <2>3
<1>7. ToSet(q) = ToSet(s) \ {s[1]} /\ s[1] \in ToSet(s)
  <2>1. s[1] \in ToSet(s)
    BY <1>0, <1>5, Zenon DEF ToSet
  <2> QED  BY <1>6, <2>1
<1> QED  BY <1>1, <1>4, <1>7 DEF q

\* No list
LEMMA NothingListed ==
    /\ <<>> \in Seq(FileResults) /\ <<>> \in Seq(Files) /\ <<>> \in Seq(FileResults \union Endings) /\ Len(<<>>) = 0
    /\ Once(<<>>) /\ FilesOf(<<>>) = {} /\ ToSet(<<>>) = {}
  BY DEF Once, FilesOf, ToSet

\* An ending is no result.
LEMMA EndingsApart == Endings \intersect FileResults = {}
  BY DEF Endings, FileResults, Outcomes

\* A result is reported: posted to the window.
LEMMA ResultPosted ==
    ASSUME RunTyped, NEW k \in Nat, Posted(k), \A i \in 1 .. Len(updates) : updates[i] \in FileResults,
           NEW r \in FileResults, Reports(r), UNCHANGED results
    PROVE  /\ \E q \in Nat : Posted(q)'
           /\ updates' \in Seq(FileResults \union Endings) /\ reported' \in Seq(FileResults)
           /\ \A i \in 1 .. Len(updates') : updates'[i] \in FileResults
<1> DEFINE U == FileResults \union Endings
           n == Len(updates)
           m == Len(reported)
<1>1. /\ updates \in Seq(U) /\ reported \in Seq(FileResults) /\ r \in U /\ results \in Seq(FileResults)
      /\ n \in Nat /\ m \in Nat /\ Len(results) \in Nat
  <2>1. updates \in Seq(U) /\ reported \in Seq(FileResults) /\ r \in U /\ results \in Seq(FileResults)
    BY Zenon DEF RunTyped
  <2> QED  BY <2>1
<1>2. /\ updates' \in Seq(U) /\ Len(updates') = n + 1 /\ updates'[n + 1] = r
      /\ \A i \in 1 .. n : updates'[i] = updates[i]
  BY <1>1, Appended DEF Reports
<1>3. /\ reported' \in Seq(FileResults) /\ Len(reported') = m + 1 /\ reported'[m + 1] = r
      /\ \A i \in 1 .. m : reported'[i] = reported[i]
  BY <1>1, Appended DEF Reports
<1>4. k = n /\ k <= m
  <2>1. k <= n
    BY DEF Posted
  <2>2. CASE n = 0
    BY <1>1, <2>1, <2>2 DEF Posted
  <2>3. CASE n # 0
    <3>1. n \in 1 .. n
      BY <1>1, <2>3
    <3>2. n <= k
      BY <3>1 DEF Posted
    <3> QED  BY <1>1, <2>1, <3>2 DEF Posted
  <2> QED  BY <2>2, <2>3
<1> HIDE DEF n, m
<1>5. \A i \in 1 .. n + 1 : i \in 1 .. n \/ i = n + 1
  BY <1>1
<1>6. \A i \in 1 .. n + 1 : updates'[i] \in FileResults
  BY <1>2, <1>5 DEF n
<1>7. ASSUME NEW i \in 1 .. n + 1 PROVE reported'[(m + 1) - (n + 1) + i] = updates'[i]
  <2>1. CASE i = n + 1
    <3>1. (m + 1) - (n + 1) + i = m + 1
      BY <1>1, <2>1
    <3> QED  BY <1>2, <1>3, <2>1, <3>1
  <2>2. CASE i # n + 1
    <3>1. i \in 1 .. n /\ (m + 1) - (n + 1) + i = m - n + i /\ m - n + i \in 1 .. m
      BY <1>1, <1>4, <2>2
    <3>2. reported[m - n + i] = updates[i]
      BY <1>4, <3>1 DEF Posted, m
    <3> QED  BY <1>2, <1>3, <3>1, <3>2
  <2> QED  BY <2>1, <2>2
<1>8. ASSUME NEW i \in 1 .. (m + 1) - (n + 1)
      PROVE  reported'[i] = results[Len(results) - ((m + 1) - (n + 1)) + i]
  <2>1. (m + 1) - (n + 1) = m - n /\ i \in 1 .. m - n /\ i \in 1 .. m
    BY <1>1, <1>4
  <2>2. reported[i] = results[Len(results) - (m - n) + i]
    BY <1>4, <2>1 DEF Posted, m
  <2> QED  BY <1>3, <2>1, <2>2
<1>9. (m + 1) - (n + 1) <= Len(results) /\ n + 1 \in Nat /\ n + 1 <= m + 1 /\ \A i \in 1 .. n + 1 : i <= n + 1
  <2>1. m - n <= Len(results)
    BY <1>4 DEF Posted, m
  <2> QED  BY <1>1, <1>4, <2>1
<1>10. Posted(k + 1)'
  <2>1. Len(updates') = k + 1 /\ Len(reported') = m + 1 /\ UNCHANGED results
    BY <1>2, <1>3, <1>4 DEF n, m
  <2>2. /\ \A i \in 1 .. k + 1 : i <= k + 1 <=> updates'[i] \in FileResults
        /\ k + 1 <= k + 1 /\ k + 1 <= m + 1 /\ (m + 1) - (k + 1) <= Len(results)
    BY <1>4, <1>6, <1>9
  <2>3. /\ \A i \in 1 .. k + 1 : reported'[(m + 1) - (k + 1) + i] = updates'[i]
        /\ \A i \in 1 .. (m + 1) - (k + 1) : reported'[i] = results[Len(results) - ((m + 1) - (k + 1)) + i]
    BY <1>4, <1>7, <1>8
  <2> QED  BY <2>1, <2>2, <2>3 DEF Posted
<1>11. k + 1 \in Nat
  OBVIOUS
<1>12. \A i \in 1 .. Len(updates') : updates'[i] \in FileResults
  BY <1>2, <1>6 DEF n
<1>13. updates' \in Seq(FileResults \union Endings)
  BY <1>2
<1> QED  BY <1>3, <1>10, <1>11, <1>12, <1>13

\* The completion is posted.
LEMMA EndingPosted ==
    ASSUME RunTyped, NEW k \in Nat, Posted(k), \A i \in 1 .. Len(updates) : updates[i] \in FileResults,
           NEW x \in Endings, updates' = Append(updates, x), UNCHANGED <<results, reported>>
    PROVE  /\ Posted(k)'
           /\ updates' \in Seq(FileResults \union Endings)
           /\ updates' # <<>> /\ updates'[Len(updates')] \in Endings
           /\ \A i \in 1 .. Len(updates') : i < Len(updates') => updates'[i] \in FileResults
<1> DEFINE U == FileResults \union Endings
           n == Len(updates)
<1>1. updates \in Seq(U) /\ x \in U /\ n \in Nat /\ x \notin FileResults
  <2>1. updates \in Seq(U) /\ x \in U /\ x \notin FileResults
    BY EndingsApart, Zenon DEF RunTyped
  <2> QED  BY <2>1
<1>2. /\ updates' \in Seq(U) /\ Len(updates') = n + 1 /\ updates'[n + 1] = x
      /\ \A i \in 1 .. n : updates'[i] = updates[i]
  BY <1>1, Appended
<1>3. updates' # <<>>
  BY <1>1, <1>2
<1> HIDE DEF n
<1>4. \A i \in 1 .. n + 1 : (i \in 1 .. n \/ i = n + 1) /\ (i < n + 1 => i \in 1 .. n)
  BY <1>1
<1>5. k <= n /\ ~(n + 1 <= k)
  BY <1>1 DEF Posted, n
<1>6. Posted(k)'
  <2>1. ASSUME NEW i \in 1 .. n + 1 PROVE i <= k <=> updates'[i] \in FileResults
    <3>1. CASE i = n + 1
      BY <1>1, <1>2, <1>5, <3>1
    <3>2. CASE i \in 1 .. n
      BY <1>2, <3>2 DEF Posted, n
    <3> QED  BY <1>4, <3>1, <3>2
  <2>2. \A i \in 1 .. k : i \in 1 .. n
    BY <1>1, <1>5
  <2>3. k <= n + 1
    BY <1>1, <1>5
  <2>4. \A i \in 1 .. k : reported[Len(reported) - k + i] = updates'[i]
    BY <1>2, <2>2 DEF Posted
  <2> QED  BY <1>2, <2>1, <2>3, <2>4 DEF Posted
<1> QED  BY <1>2, <1>3, <1>4, <1>6 DEF n

\* A step that leaves what is posted alone
LEMMA NothingPosted ==
    ASSUME NEW k \in Nat, Posted(k), UNCHANGED <<updates, results, reported>>
    PROVE  \E q \in Nat : Posted(q)'
<1>1. Posted(k)'
  BY DEF Posted
<1> QED  BY <1>1

\* Tests are started: no run is on, nothing of the run before is left.
LEMMA RunStarts ==
    ASSUME RunInv, NEW mode \in RunnerModes, NEW files \in Seq(Files), NEW list \in Seq(FileResults),
           \A i, j \in 1 .. Len(files) : files[i] = files[j] => i = j,
           Starts(mode, files, list)
    PROVE  RunInv'
<1> DEFINE r == [NoRunner EXCEPT !.at = "start", !.mode = mode, !.todo = files]
<1>1. RunTyped /\ CompletionLast /\ FilesApart
  BY DEF RunInv
<1>2. /\ ~isRunning /\ isRunning' = TRUE /\ runs < RunsMax /\ runs' = runs + 1 /\ results' = list /\ reported' = <<>>
      /\ status' = "running" /\ runner' = r /\ UNCHANGED <<stopRequested, updates, dialog>>
  BY DEF Starts
<1>3. r \in Runner /\ r.at = "start" /\ r.todo = files /\ r.busy = {} /\ r.done = <<>>
  BY NoRunnerTyped DEF NoRunner, Runner, RunnerSteps, RunnerModes
<1> HIDE DEF r
<1>4. runs' \in 0 .. RunsMax
  <2>1. runs \in Nat /\ RunsMax \in Nat
    <3>1. RunsMax \in Nat
      BY DashboardAssumption, Zenon
    <3>2. runs \in 0 .. RunsMax
      BY <1>1, Zenon DEF RunTyped
    <3> QED  BY <3>1, <3>2
  <2> QED  BY <1>2, <2>1
<1>5. RunTyped'
  BY <1>1, <1>2, <1>3, <1>4, NothingListed DEF RunTyped
<1>6. updates = <<>>
  BY <1>1, <1>2 DEF CompletionLast
<1>7. CompletionLast'
  BY <1>2, <1>3, <1>6, NothingListed DEF CompletionLast
<1>8. Posted(0)'
  <2>1. Len(results') \in Nat
    BY <1>2
  <2> QED  BY <1>2, <1>6, <2>1, NothingListed DEF Posted
<1>9. FilesApart'
  <2>1. Once(reported') /\ Once(r.done) /\ FilesOf(reported') = {} /\ FilesOf(r.done) = {}
    BY <1>2, <1>3, NothingListed
  <2>2. Apart(reported', r.done, files, {})
    BY <2>1 DEF Apart
  <2> QED  BY <1>2, <1>3, <2>2 DEF FilesApart
<1> QED  BY <1>5, <1>7, <1>8, <1>9 DEF RunInv

\* A step of the thread of the run or of the window that touches neither files nor results
LEMMA RunGoesOn ==
    ASSUME RunInv, UNCHANGED <<isRunning, updates, results, reported, runs>>,
           stopRequested' \in BOOLEAN, dialog' \in BOOLEAN,
           status' \in {"loaded", "running", "stopping", "cleared", "failures", "error", "all passed"},
           NEW r \in Runner, runner' = r, r = runner \/ (runner.at # "idle" /\ r.at # "idle"),
           r.todo = runner.todo, r.busy = runner.busy, r.done = runner.done
    PROVE  RunInv'
<1>1. RunTyped /\ CompletionLast /\ FilesApart
  BY DEF RunInv
<1>2. RunTyped'
  BY <1>1 DEF RunTyped
<1>3. CompletionLast'
  BY <1>1 DEF CompletionLast
<1>4. FilesApart'
  BY <1>1 DEF FilesApart
<1>5. PICK k \in Nat : Posted(k)
  BY DEF RunInv
<1>6. \E q \in Nat : Posted(q)'
  BY <1>5, NothingPosted
<1> QED  BY <1>2, <1>3, <1>4, <1>6 DEF RunInv

\* The thread begins.
LEMMA ThreadBegins ==
    ASSUME RunInv, RunnerBegins
    PROVE  RunInv'
<1>1. RunTyped
  BY DEF RunInv
<1>2. PICK mode \in {"loop", "pool", "one"} : runner' = [runner EXCEPT !.at = "loop", !.mode = mode]
  BY DEF RunnerBegins
<1> DEFINE r == [runner EXCEPT !.at = "loop", !.mode = mode]
<1>3. r \in Runner /\ r.at = "loop" /\ r.todo = runner.todo /\ r.busy = runner.busy /\ r.done = runner.done
  BY <1>1 DEF RunTyped, Runner, RunnerSteps, RunnerModes
<1>4. runner' = r /\ runner.at # "idle"
  BY <1>2 DEF RunnerBegins
<1> HIDE DEF r
<1>5. stopRequested' \in BOOLEAN /\ UNCHANGED <<isRunning, updates, results, status, dialog, reported, runs>>
  BY <1>1 DEF RunnerBegins, RunTyped
<1>6. dialog' \in BOOLEAN /\ status' \in {"loaded", "running", "stopping", "cleared", "failures", "error", "all passed"}
  BY <1>1, <1>5 DEF RunTyped
<1> QED  BY <1>3, <1>4, <1>5, <1>6, RunGoesOn

\* A stop is asked for.
LEMMA StopAsked ==
    ASSUME RunInv, AsksToStop \/ StopTests
    PROVE  RunInv'
<1>1. RunTyped
  BY DEF RunInv
<1>2. /\ UNCHANGED <<isRunning, runner, updates, results, reported, runs>>
      /\ stopRequested' \in BOOLEAN /\ dialog' \in BOOLEAN
      /\ status' \in {"loaded", "running", "stopping", "cleared", "failures", "error", "all passed"}
  BY <1>1 DEF AsksToStop, StopTests, RunTyped
<1>3. runner \in Runner /\ runner' = runner
  BY <1>1, <1>2 DEF RunTyped
<1> QED  BY <1>2, <1>3, RunGoesOn

\* A pytest process is started.
LEMMA PytestStarts ==
    ASSUME RunInv, StartsPytest
    PROVE  RunInv'
<1>1. RunTyped /\ CompletionLast /\ FilesApart
  BY DEF RunInv
<1>2. runner \in Runner /\ runner.todo \in Seq(Files) /\ runner.todo # <<>> /\ runner.at # "idle"
      /\ UNCHANGED <<isRunning, stopRequested, updates, results, status, dialog, reported, runs>>
  BY <1>1 DEF RunTyped, StartsPytest, Runner
<1> DEFINE t == runner.todo
           f == Head(t)
           rest == Tail(t)
           now == runner.busy \union {f}
           r == [runner EXCEPT !.busy = now, !.todo = rest]
<1>3. runner' = r
  BY DEF StartsPytest
<1>4. f \in Files /\ rest \in Seq(Files)
  BY <1>2, Shortened
<1>5. /\ \A i, j \in 1 .. Len(rest) : rest[i] = rest[j] => i = j
      /\ ToSet(rest) = ToSet(t) \ {f} /\ f \in ToSet(t)
  <2>1. \A i, j \in 1 .. Len(t) : t[i] = t[j] => i = j
    BY <1>1 DEF FilesApart, Apart
  <2>2. t \in Seq(Files) /\ t # <<>>
    BY <1>2
  <2> HIDE DEF t
  <2> QED  BY <2>1, <2>2, FileStarted
<1> HIDE DEF f, rest
<1>6. /\ r \in Runner /\ r.at = runner.at /\ r.done = runner.done /\ r.busy = now /\ r.todo = rest
  BY <1>2, <1>4 DEF Runner
<1> HIDE DEF r
<1>7. RunTyped'
  BY <1>1, <1>2, <1>3, <1>6 DEF RunTyped
<1>8. CompletionLast'
  BY <1>1, <1>2, <1>3, <1>6 DEF CompletionLast
<1>9. FilesApart'
  <2>1. Apart(reported, runner.done, t, runner.busy)
    BY <1>1 DEF FilesApart
  <2> HIDE DEF t
  <2>2. Apart(reported, runner.done, rest, now)
    BY <1>5, <2>1 DEF Apart
  <2> HIDE DEF now
  <2> QED  BY <1>2, <1>3, <1>6, <2>2 DEF FilesApart
<1>10. PICK k \in Nat : Posted(k)
  BY DEF RunInv
<1>11. \E q \in Nat : Posted(q)'
  BY <1>2, <1>10, NothingPosted
<1> QED  BY <1>7, <1>8, <1>9, <1>11 DEF RunInv

\* A file of the pool is finished.
LEMMA FutureDone ==
    ASSUME RunInv, NEW f \in runner.busy, NEW outcome \in Outcomes, NEW res, res = [file |-> f, outcome |-> outcome],
           runner.at # "idle",
           runner' = [runner EXCEPT !.busy = @ \ {f}, !.done = Append(@, res)],
           UNCHANGED <<isRunning, stopRequested, updates, results, status, dialog, reported, runs>>
    PROVE  RunInv'
<1>1. RunTyped /\ CompletionLast /\ FilesApart
  BY DEF RunInv
<1>2. runner \in Runner /\ runner.done \in Seq(FileResults) /\ f \in Files
  BY <1>1 DEF RunTyped, Runner
<1>3. res \in FileResults /\ res.file = f
  BY <1>2 DEF FileResults
<1> DEFINE d == runner.done
           more == Append(d, res)
           now == runner.busy \ {f}
           r == [runner EXCEPT !.busy = now, !.done = more]
<1>4. runner' = r
  OBVIOUS
<1>5. more \in Seq(FileResults)
  BY <1>2, <1>3
<1>6. Apart(reported, more, runner.todo, now)
  <2>1. Apart(reported, d, runner.todo, runner.busy)
    BY <1>1 DEF FilesApart
  <2>2. d \in Seq(FileResults)
    BY <1>2
  <2> HIDE DEF d
  <2>3. Once(d) /\ f \notin FilesOf(d)
    BY <2>1 DEF Apart
  <2>4. Once(more) /\ FilesOf(more) = FilesOf(d) \union {f}
    BY <1>3, <2>2, <2>3, FileAdded
  <2> HIDE DEF more
  <2> QED  BY <2>1, <2>4 DEF Apart
<1> HIDE DEF more, now
<1>7. r \in Runner /\ r.at = runner.at /\ r.todo = runner.todo /\ r.busy = now /\ r.done = more
  <2>1. now \in SUBSET Files
    BY <1>2 DEF now, Runner
  <2> QED  BY <1>2, <1>5, <2>1 DEF Runner
<1> HIDE DEF r
<1>8. RunTyped' /\ CompletionLast' /\ FilesApart'
  BY <1>1, <1>4, <1>6, <1>7 DEF RunTyped, CompletionLast, FilesApart
<1>9. PICK k \in Nat : Posted(k)
  BY DEF RunInv
<1>10. \E q \in Nat : Posted(q)'
  BY <1>9, NothingPosted
<1> QED  BY <1>8, <1>10 DEF RunInv

\* A result is reported, by a run that goes on.
LEMMA ResultReported ==
    ASSUME RunInv, NEW res \in FileResults, Reports(res), runner.at # "idle",
           NEW r \in Runner, runner' = r, r.at # "idle",
           UNCHANGED <<isRunning, stopRequested, results, status, dialog, runs>>,
           res.file \notin FilesOf(reported),
           Apart(Append(reported, res), r.done, r.todo, r.busy)
    PROVE  RunInv'
<1>1. RunTyped /\ CompletionLast
  BY DEF RunInv
<1>2. \A i \in 1 .. Len(updates) : updates[i] \in FileResults
  BY <1>1 DEF CompletionLast
<1>3. PICK k \in Nat : Posted(k)
  BY DEF RunInv
<1>4. /\ \E q \in Nat : Posted(q)'
      /\ updates' \in Seq(FileResults \union Endings) /\ reported' \in Seq(FileResults)
      /\ \A i \in 1 .. Len(updates') : updates'[i] \in FileResults
  BY <1>1, <1>2, <1>3, ResultPosted
<1>5. RunTyped'
  BY <1>1, <1>4 DEF RunTyped
<1>6. CompletionLast'
  BY <1>1, <1>4 DEF CompletionLast
<1>7. FilesApart'
  BY DEF FilesApart, Reports
<1> QED  BY <1>4, <1>5, <1>6, <1>7 DEF RunInv

\* pytest ends.
LEMMA PytestDone ==
    ASSUME RunInv, PytestEnds
    PROVE  RunInv'
<1>1. RunTyped /\ CompletionLast /\ FilesApart
  BY DEF RunInv
<1>2. PICK f \in runner.busy, outcome \in Outcomes :
        LET result == [file |-> f, outcome |-> outcome] IN
        IF runner.mode = "pool"
        THEN /\ runner' = [runner EXCEPT !.busy = @ \ {f}, !.done = Append(@, result)]
             /\ UNCHANGED <<updates, reported>>
        ELSE runner' = [runner EXCEPT !.busy = @ \ {f}] /\ Reports(result)
  BY DEF PytestEnds
<1>3. UNCHANGED <<isRunning, stopRequested, results, status, dialog, runs>>
  BY DEF PytestEnds
<1>4. runner.at # "idle"
  BY <1>1, NoRunnerTyped DEF CompletionLast
<1> DEFINE res == [file |-> f, outcome |-> outcome]
<1>5. CASE runner.mode = "pool"
  <2>1. runner' = [runner EXCEPT !.busy = @ \ {f}, !.done = Append(@, res)] /\ UNCHANGED <<updates, reported>>
    BY <1>2, <1>5
  <2> QED  BY <1>3, <1>4, <2>1, FutureDone
<1>6. CASE runner.mode # "pool"
  <2> DEFINE now == runner.busy \ {f}
             r == [runner EXCEPT !.busy = now]
  <2>1. runner' = r /\ Reports(res)
    BY <1>2, <1>6
  <2>2. runner \in Runner /\ f \in Files /\ now \in SUBSET Files
    BY <1>1 DEF RunTyped, Runner
  <2>3. res \in FileResults /\ res.file = f
    BY <2>2 DEF FileResults
  <2> HIDE DEF res, now
  <2>4. r \in Runner /\ r.at = runner.at /\ r.todo = runner.todo /\ r.busy = now /\ r.done = runner.done
    BY <2>2 DEF Runner
  <2> HIDE DEF r
  <2>5. Apart(reported, runner.done, runner.todo, runner.busy) /\ reported \in Seq(FileResults)
    BY <1>1 DEF FilesApart, RunTyped
  <2>6. f \notin FilesOf(reported) /\ Once(reported)
    BY <2>5 DEF Apart
  <2>7. Once(Append(reported, res)) /\ FilesOf(Append(reported, res)) = FilesOf(reported) \union {f}
    BY <2>3, <2>5, <2>6, FileAdded
  <2>8. Apart(Append(reported, res), runner.done, runner.todo, now)
    BY <2>5, <2>7 DEF Apart, now
  <2>9. Apart(Append(reported, res), r.done, r.todo, r.busy) /\ r.at # "idle"
    BY <1>4, <2>4, <2>8
  <2> QED  BY <1>3, <1>4, <2>1, <2>3, <2>4, <2>6, <2>9, ResultReported
<1> QED  BY <1>5, <1>6

\* A finished future is reported, or a stop leaves them all unreported.
LEMMA FutureCollected ==
    ASSUME RunInv, Collects
    PROVE  RunInv'
<1>1. RunTyped /\ CompletionLast /\ FilesApart
  BY DEF RunInv
<1>2. /\ runner \in Runner /\ runner.at = "loop" /\ runner.done \in Seq(FileResults) /\ runner.done # <<>>
      /\ UNCHANGED <<isRunning, stopRequested, results, status, dialog, runs>>
      /\ reported \in Seq(FileResults)
  BY <1>1 DEF RunTyped, Runner, Collects
<1> DEFINE d == runner.done
<1>3. Apart(reported, d, runner.todo, runner.busy)
  BY <1>1 DEF FilesApart
<1>4. CASE stopRequested
  <2> DEFINE r == [runner EXCEPT !.at = "leaving", !.done = <<>>]
  <2>1. runner' = r /\ UNCHANGED <<updates, reported>>
    BY <1>4 DEF Collects
  <2>2. r \in Runner /\ r.at = "leaving" /\ r.todo = runner.todo /\ r.busy = runner.busy /\ r.done = <<>>
    BY <1>2, NothingListed DEF Runner, RunnerSteps
  <2> HIDE DEF r
  <2>3. Apart(reported, <<>>, runner.todo, runner.busy)
    BY <1>3, NothingListed DEF Apart
  <2>4. RunTyped' /\ CompletionLast' /\ FilesApart'
    BY <1>1, <1>2, <2>1, <2>2, <2>3 DEF RunTyped, CompletionLast, FilesApart
  <2>5. PICK k \in Nat : Posted(k)
    BY DEF RunInv
  <2>6. \E q \in Nat : Posted(q)'
    BY <1>2, <2>1, <2>5, NothingPosted
  <2> QED  BY <2>4, <2>6 DEF RunInv
<1>5. CASE ~stopRequested
  <2> DEFINE rest == Tail(d)
             res == Head(d)
             r == [runner EXCEPT !.done = rest]
  <2>1. runner' = r /\ Reports(res)
    BY <1>5 DEF Collects
  <2>2. d \in Seq(FileResults) /\ d # <<>>
    BY <1>2
  <2> HIDE DEF d
  <2>3. res \in FileResults /\ rest \in Seq(FileResults)
    BY <2>2, Shortened
  <2>4. /\ Once(rest) /\ FilesOf(rest) = FilesOf(d) \ {res.file} /\ res.file \in FilesOf(d)
    BY <1>3, <2>2, FileTaken DEF Apart
  <2> HIDE DEF rest, res
  <2>5. r \in Runner /\ r.at = "loop" /\ r.todo = runner.todo /\ r.busy = runner.busy /\ r.done = rest
    BY <1>2, <2>3 DEF Runner
  <2> HIDE DEF r
  <2>6. res.file \notin FilesOf(reported) /\ Once(reported)
    BY <1>3, <2>4 DEF Apart
  <2>7. Once(Append(reported, res)) /\ FilesOf(Append(reported, res)) = FilesOf(reported) \union {res.file}
    BY <1>2, <2>3, <2>6, FileAdded
  <2>8. Apart(Append(reported, res), rest, runner.todo, runner.busy)
    BY <1>3, <2>4, <2>7 DEF Apart
  <2>9. Apart(Append(reported, res), r.done, r.todo, r.busy) /\ r.at # "idle"
    BY <2>5, <2>8
  <2> QED  BY <1>2, <2>1, <2>3, <2>5, <2>6, <2>9, ResultReported
<1> QED  BY <1>4, <1>5

\* The thread ends, in its time or not.
LEMMA ThreadEnds ==
    ASSUME RunInv, RunnerEnds \/ RunnerFails
    PROVE  RunInv'
<1>1. RunTyped /\ CompletionLast /\ FilesApart
  BY DEF RunInv
<1>2. PICK x \in Endings : updates' = Append(updates, x)
  BY DEF RunnerEnds, RunnerFails, Endings
<1>3. runner.at # "idle" /\ runner' = NoRunner
      /\ UNCHANGED <<isRunning, stopRequested, results, status, dialog, reported, runs>>
  BY DEF RunnerEnds, RunnerFails
<1>4. isRunning /\ \A i \in 1 .. Len(updates) : updates[i] \in FileResults
  BY <1>1, <1>3 DEF CompletionLast
<1>5. PICK k \in Nat : Posted(k)
  BY DEF RunInv
<1>6. /\ Posted(k)'
      /\ updates' \in Seq(FileResults \union Endings)
      /\ updates' # <<>> /\ updates'[Len(updates')] \in Endings
      /\ \A i \in 1 .. Len(updates') : i < Len(updates') => updates'[i] \in FileResults
  BY <1>1, <1>2, <1>3, <1>4, <1>5, EndingPosted
<1>7. RunTyped'
  BY <1>1, <1>3, <1>6, NoRunnerTyped DEF RunTyped
<1>8. CompletionLast'
  BY <1>1, <1>3, <1>4, <1>6, NoRunnerTyped DEF CompletionLast
<1>9. FilesApart'
  <2>1. Apart(reported, runner.done, runner.todo, runner.busy)
    BY <1>1 DEF FilesApart
  <2>2. Apart(reported, <<>>, <<>>, {})
    BY <2>1, NothingListed DEF Apart
  <2> QED  BY <1>3, <2>2, NoRunnerTyped DEF FilesApart
<1> QED  BY <1>6, <1>7, <1>8, <1>9 DEF RunInv

\* The window takes an update.
LEMMA WindowUpdated ==
    ASSUME RunInv, UpdatesWindow
    PROVE  RunInv'
<1>1. RunTyped /\ CompletionLast /\ FilesApart
  BY DEF RunInv
<1> DEFINE U == FileResults \union Endings
           n == Len(updates)
<1>2. PICK k \in Nat : Posted(k)
  BY DEF RunInv
<1>3. /\ n \in Nat \ {0} /\ updates[1] \in U /\ Head(updates) = updates[1] /\ updates' \in Seq(U)
      /\ Len(updates') = n - 1 /\ \A i \in 1 .. n - 1 : updates'[i] = updates[i + 1]
  <2>1. updates \in Seq(U) /\ updates # <<>> /\ updates' = Tail(updates)
    BY <1>1, Zenon DEF RunTyped, UpdatesWindow
  <2>2. Head(updates) = updates[1] /\ Head(updates) \in U
    BY <2>1, Shortened
  <2> QED  BY <2>1, <2>2, Shortened
<1>4. /\ UNCHANGED <<stopRequested, runner, dialog, reported, runs>>
      /\ results \in Seq(FileResults) /\ reported \in Seq(FileResults)
      /\ Len(results) \in Nat /\ Len(reported) \in Nat
  <2>1. results \in Seq(FileResults) /\ reported \in Seq(FileResults)
    BY <1>1 DEF RunTyped
  <2>2. UNCHANGED <<stopRequested, runner, dialog, reported, runs>>
    BY Zenon DEF UpdatesWindow
  <2> QED  BY <2>1, <2>2
<1>5. FilesApart'
  BY <1>1, <1>4 DEF FilesApart
<1>6. CASE updates[1] \in Endings
  <2>1. isRunning' = FALSE /\ UNCHANGED results /\ status' \in {"error", "failures", "all passed"}
    <3>1. Head(updates).outcome \in {"complete", "crashed"}
      BY <1>3, <1>6 DEF Endings
    <3> QED  BY <3>1 DEF UpdatesWindow
  <2>2. n = 1 /\ runner.at = "idle" /\ runner = NoRunner
    <3>1. updates[1] \notin FileResults
      BY <1>6, EndingsApart
    <3>2. 1 \in 1 .. n
      BY <1>3
    <3>3. ~(1 < n) /\ runner.at = "idle"
      BY <1>1, <3>1, <3>2 DEF CompletionLast
    <3> QED  BY <1>1, <1>3, <3>3 DEF CompletionLast
  <2>3. updates' = <<>> /\ Len(updates') = 0
    BY <1>3, <2>2
  <2>4. RunTyped'
    BY <1>1, <1>3, <1>4, <2>1 DEF RunTyped
  <2>5. CompletionLast'
    <3>1. runner' = NoRunner /\ runner'.at = "idle" /\ ~isRunning' /\ updates' = <<>>
      BY <1>4, <2>1, <2>2, <2>3
    <3>2. \A i \in 1 .. Len(updates') : FALSE
      BY <2>3
    <3> QED  BY <3>1, <3>2 DEF CompletionLast
  <2>6. k = 0
    <3>1. updates[1] \notin FileResults /\ 1 \in 1 .. n
      BY <1>3, <1>6, EndingsApart
    <3>2. ~(1 <= k)
      BY <1>2, <3>1 DEF Posted
    <3> QED  BY <3>2
  <2>7. Posted(0)'
    <3>1. /\ Len(reported) <= Len(results)
          /\ \A i \in 1 .. Len(reported) : reported[i] = results[Len(results) - Len(reported) + i]
      <4>1. Len(reported) - 0 = Len(reported)
        BY <1>4
      <4>2. /\ Len(reported) - 0 <= Len(results)
            /\ \A i \in 1 .. Len(reported) - 0 : reported[i] = results[Len(results) - (Len(reported) - 0) + i]
        BY <1>2, <2>6 DEF Posted
      <4> QED  BY <4>1, <4>2
    <3>2. reported' = reported /\ results' = results /\ Len(updates') = 0 /\ Len(reported) \in Nat
      BY <1>4, <2>1, <2>3
    <3> QED  BY <3>1, <3>2 DEF Posted
  <2> QED  BY <1>5, <2>4, <2>5, <2>7 DEF RunInv
<1>7. CASE updates[1] \notin Endings
  <2> DEFINE res == updates[1]
             q == k - 1
             m == Len(reported)
  <2>1. res \in FileResults /\ results' = Append(results, res) /\ UNCHANGED <<isRunning, status>>
    <3>1. Head(updates).outcome \notin {"complete", "crashed"} /\ res \in FileResults
      BY <1>3, <1>7 DEF Endings, FileResults, Outcomes
    <3> QED  BY <1>3, <3>1 DEF UpdatesWindow
  <2>2. k >= 1 /\ q \in Nat
    <3>1. 1 \in 1 .. n
      BY <1>3
    <3> QED  BY <1>2, <2>1, <3>1 DEF Posted
  <2>3. /\ results' \in Seq(FileResults) /\ Len(results') = Len(results) + 1 /\ results'[Len(results) + 1] = res
        /\ \A i \in 1 .. Len(results) : results'[i] = results[i]
    BY <1>4, <2>1, Appended
  <2>4. RunTyped'
    BY <1>1, <1>3, <1>4, <2>1, <2>3 DEF RunTyped
  <2>5. \A i \in 1 .. n - 1 : i + 1 \in 1 .. n
    BY <1>3
  <2>6. CompletionLast'
    <3>1. ASSUME NEW i \in 1 .. n - 1, i < n - 1 PROVE updates'[i] \in FileResults
      <4>1. i + 1 < n
        BY <1>3, <3>1
      <4> QED  BY <1>1, <1>3, <2>5, <4>1 DEF CompletionLast
    <3>2. ASSUME runner.at # "idle" PROVE isRunning /\ \A i \in 1 .. n - 1 : updates'[i] \in FileResults
      BY <1>1, <1>3, <2>5, <3>2 DEF CompletionLast
    <3>3. ASSUME isRunning, runner.at = "idle" PROVE updates' # <<>> /\ updates'[n - 1] \in Endings
      <4>1. updates[n] \in Endings
        BY <1>1, <3>3 DEF CompletionLast
      <4>2. n # 1
        BY <1>7, <4>1
      <4>3. n - 1 \in 1 .. n - 1 /\ (n - 1) + 1 = n
        BY <1>3, <4>2
      <4>4. updates' # <<>>
        BY <1>3, <4>2
      <4> QED  BY <1>3, <4>1, <4>3, <4>4
    <3>4. ~isRunning => updates' = <<>>
      BY <1>1, <1>3 DEF CompletionLast
    <3> QED  BY <1>1, <1>3, <1>4, <2>1, <3>1, <3>2, <3>3, <3>4 DEF CompletionLast
  <2>7. Posted(q)'
    <3>0. /\ k <= n /\ k <= m /\ m - k <= Len(results) /\ k \in Nat /\ m \in Nat
          /\ \A i \in 1 .. n : i <= k <=> updates[i] \in FileResults
          /\ \A i \in 1 .. k : reported[m - k + i] = updates[i]
          /\ \A i \in 1 .. m - k : reported[i] = results[Len(results) - (m - k) + i]
      BY <1>2, <1>4 DEF Posted
    <3> DEFINE l == Len(results)
    <3>1. Len(updates') = n - 1 /\ Len(reported') = m /\ reported' = reported /\ Len(results') = l + 1
          /\ l \in Nat
      BY <1>3, <1>4, <2>3
    <3>2. ASSUME NEW i \in 1 .. n - 1 PROVE i <= q <=> updates'[i] \in FileResults
      <4>1. i + 1 \in 1 .. n /\ updates'[i] = updates[i + 1] /\ (i <= q <=> i + 1 <= k)
        BY <1>3, <2>5, <3>0
      <4> QED  BY <3>0, <4>1
    <3>3. ASSUME NEW i \in 1 .. q PROVE reported[m - q + i] = updates'[i]
      <4>1. i + 1 \in 1 .. k /\ m - k + (i + 1) = m - q + i /\ i \in 1 .. n - 1
        BY <1>3, <2>2, <3>0
      <4>2. reported[m - k + (i + 1)] = updates[i + 1]
        BY <3>0, <4>1
      <4> QED  BY <1>3, <4>1, <4>2
    <3>4. ASSUME NEW i \in 1 .. m - q PROVE reported[i] = results'[(l + 1) - (m - q) + i]
      <4>1. m - q = (m - k) + 1 /\ (l + 1) - (m - q) = l - (m - k)
        BY <3>0, <3>1
      <4>2. CASE i = (m - k) + 1
        <5>1. (l + 1) - (m - q) + i = l + 1 /\ i = m - k + 1 /\ 1 \in 1 .. k
          BY <2>2, <3>0, <3>1, <4>1, <4>2
        <5>2. reported[m - k + 1] = updates[1]
          BY <3>0, <5>1
        <5> QED  BY <2>3, <5>1, <5>2
      <4>3. CASE i # (m - k) + 1
        <5>1. i \in 1 .. m - k /\ l - (m - k) + i \in 1 .. l
          <6>1. i \in 1 .. (m - k) + 1
            BY <4>1
          <6>2. m - k <= l /\ m - k \in Int /\ l \in Int
            BY <3>0, <3>1
          <6> DEFINE x == m - k
          <6> HIDE DEF x
          <6>3. i \in 1 .. x + 1 /\ i # x + 1 /\ x <= l /\ x \in Int /\ l \in Int
            BY <4>3, <6>1, <6>2 DEF x
          <6>4. i \in 1 .. x /\ l - x + i \in 1 .. l
            BY ONLY <6>3
          <6> QED  BY <6>4 DEF x
        <5>2. reported[i] = results[l - (m - k) + i]
          BY <3>0, <5>1
        <5>3. results'[l - (m - k) + i] = results[l - (m - k) + i]
          BY <2>3, <5>1
        <5> QED  BY <4>1, <5>2, <5>3
      <4> QED  BY <4>2, <4>3
    <3>5. q <= n - 1 /\ q <= m /\ m - q <= l + 1
      BY <1>3, <2>2, <3>0, <3>1
    <3> HIDE DEF q, l
    <3>6. Posted(k - 1)'
      <4>1. k - 1 = q
        BY DEF q
      <4> HIDE DEF n, m
      <4> QED  BY <3>1, <3>2, <3>3, <3>4, <3>5, <4>1 DEF Posted
    <3> QED  BY <3>6 DEF q
  <2> QED  BY <1>5, <2>2, <2>4, <2>6, <2>7 DEF RunInv
<1> QED  BY <1>6, <1>7

\* The results are cleared: those not shown yet will be the only ones.
LEMMA ResultsCleared ==
    ASSUME RunInv, ClearResults
    PROVE  RunInv'
<1>1. RunTyped /\ CompletionLast /\ FilesApart
  BY DEF RunInv
<1> DEFINE U == FileResults \union Endings
           q == Filtered(updates, FileResults)
           n == Len(updates)
           m == Len(reported)
<1>2. PICK k \in Nat : Posted(k)
  BY DEF RunInv
<1>3. /\ results' = <<>> /\ status' = "cleared" /\ UNCHANGED <<isRunning, stopRequested, runner, updates, dialog, runs>>
      /\ reported' = q
  BY DEF ClearResults, FileResults, Files
<1>4. updates \in Seq(U) /\ reported \in Seq(FileResults) /\ n \in Nat /\ m \in Nat
  <2>1. updates \in Seq(U) /\ reported \in Seq(FileResults)
    BY <1>1, Zenon DEF RunTyped
  <2> QED  BY <2>1
<1>5. /\ k <= n /\ k <= m /\ \A i \in 1 .. n : i <= k <=> updates[i] \in FileResults
      /\ \A i \in 1 .. k : reported[m - k + i] = updates[i]
  BY <1>2 DEF Posted
<1>6. q \in Seq(U) /\ Len(q) = k /\ \A i \in 1 .. k : q[i] = updates[i]
  <2>1. \A i \in 1 .. n : updates[i] \in FileResults <=> i <= k
    BY <1>5
  <2> HIDE DEF U, q
  <2> QED  BY <1>4, <1>5, <2>1, FilteredFront DEF q
<1> HIDE DEF q, U
<1>7. \A i \in 1 .. k : q[i] \in FileResults /\ m - k + i \in 1 .. m /\ q[i] = reported[m - k + i]
  <2> SUFFICES ASSUME NEW i \in 1 .. k
               PROVE  q[i] \in FileResults /\ m - k + i \in 1 .. m /\ q[i] = reported[m - k + i]
    OBVIOUS
  <2>1. i \in 1 .. n /\ i <= k /\ m - k + i \in 1 .. m
    <3> HIDE DEF n, m
    <3> QED  BY <1>4, <1>5
  <2> QED  BY <1>5, <1>6, <2>1
<1>8. q \in Seq(FileResults)
  BY <1>6, <1>7
<1>9. Apart(q, runner.done, runner.todo, runner.busy)
  <2>1. Apart(reported, runner.done, runner.todo, runner.busy)
    BY <1>1 DEF FilesApart
  <2>2. ASSUME NEW i \in 1 .. k, NEW j \in 1 .. k, q[i].file = q[j].file PROVE i = j
    <3>1. m - k + i = m - k + j
      <4>1. m - k + i \in 1 .. m /\ q[i] = reported[m - k + i]
        BY <1>7
      <4>2. m - k + j \in 1 .. m /\ q[j] = reported[m - k + j]
        BY <1>7
      <4>3. Once(reported)
        BY <2>1 DEF Apart
      <4> DEFINE x == m - k + i
                 y == m - k + j
      <4>4. x \in 1 .. Len(reported) /\ y \in 1 .. Len(reported) /\ reported[x].file = reported[y].file
        BY <2>2, <4>1, <4>2
      <4> HIDE DEF x, y
      <4>5. x = y
        BY <4>3, <4>4 DEF Once
      <4> QED  BY <4>5 DEF x, y
    <3> HIDE DEF m
    <3> QED  BY <1>4, <3>1
  <2>3. FilesOf(q) \subseteq FilesOf(reported)
    BY <1>6, <1>7 DEF FilesOf
  <2>4. Once(q)
    BY <1>6, <2>2 DEF Once
  <2> QED  BY <2>1, <2>3, <2>4 DEF Apart
<1>10. RunTyped'
  BY <1>1, <1>3, <1>8, NothingListed DEF RunTyped
<1>11. CompletionLast' /\ FilesApart'
  BY <1>1, <1>3, <1>9 DEF CompletionLast, FilesApart
<1>12. Posted(k)'
  <2>1. Len(reported') = k /\ Len(results') = 0 /\ k - k = 0
    BY <1>3, <1>6, NothingListed
  <2>2. \A i \in 1 .. k : k - k + i = i
    OBVIOUS
  <2>3. /\ \A i \in 1 .. k : reported'[k - k + i] = updates'[i]
        /\ \A i \in 1 .. Len(updates') : i <= k <=> updates'[i] \in FileResults
        /\ k <= Len(updates') /\ k <= k /\ k - k <= 0
    BY <1>3, <1>5, <1>6, <2>1, <2>2
  <2>4. \A i \in 1 .. k - k : FALSE
    BY <2>1
  <2> HIDE DEF m, n
  <2> QED  BY <2>1, <2>3, <2>4 DEF Posted
<1> QED  BY <1>10, <1>11, <1>12 DEF RunInv

\* The files that are found, each once
LEMMA FilesFound ==
    /\ TestFiles \in Seq(Files) /\ \A i, j \in 1 .. Len(TestFiles) : TestFiles[i] = TestFiles[j] => i = j
    /\ \A i \in DOMAIN TestFiles : /\ <<TestFiles[i]>> \in Seq(Files)
                                   /\ \A a, b \in 1 .. Len(<<TestFiles[i]>>) : a = b
<1>1. TestFiles \in Seq(Files)
  BY DashboardAssumption, Zenon DEF Files
<1>2. DOMAIN TestFiles = 1 .. Len(TestFiles)
  BY <1>1
<1>3. \A i, j \in DOMAIN TestFiles : TestFiles[i] = TestFiles[j] => i = j
  BY DashboardAssumption, Zenon DEF IsInjective
<1>4. ASSUME NEW i \in DOMAIN TestFiles
      PROVE  /\ <<TestFiles[i]>> \in Seq(Files)
             /\ \A a, b \in 1 .. Len(<<TestFiles[i]>>) : a = b
  <2>1. TestFiles[i] \in Files
    BY <1>1, <1>2, ElementIn
  <2> QED  BY <2>1
<1> QED  BY <1>1, <1>2, <1>3, <1>4

\* At first nothing runs and nothing is shown.
LEMMA DashboardStarts == DashboardInit => RunInv
<1> SUFFICES ASSUME DashboardInit PROVE RunInv
  OBVIOUS
<1>1. /\ isRunning = FALSE /\ stopRequested = FALSE /\ runner = NoRunner /\ updates = <<>> /\ results = <<>>
      /\ reported = <<>> /\ status = "loaded" /\ dialog = FALSE /\ runs = 0
  BY DEF DashboardInit
<1>2. runs \in 0 .. RunsMax
  <2>1. RunsMax \in Nat
    BY DashboardAssumption, Zenon
  <2> QED  BY <1>1, <2>1
<1>3. RunTyped
  BY <1>1, <1>2, NoRunnerTyped, NothingListed DEF RunTyped
<1>4. \A i \in 1 .. Len(updates) : FALSE
  BY <1>1, NothingListed
<1>5. CompletionLast
  BY <1>1, <1>4, NoRunnerTyped DEF CompletionLast
<1>6. Posted(0)
  BY <1>1, <1>4, NothingListed DEF Posted
<1>7. FilesApart
  BY <1>1, NoRunnerTyped, NothingListed DEF FilesApart, Apart
<1> QED  BY <1>3, <1>5, <1>6, <1>7 DEF RunInv

\* Every step of the window and of the run keeps it.
LEMMA DashboardStep == RunInv /\ [DashboardNext]_dashboardVars => RunInv'
<1> SUFFICES ASSUME RunInv, [DashboardNext]_dashboardVars PROVE RunInv'
  OBVIOUS
<1>1. CASE RunAllTests
  <2>1. Starts("all", TestFiles, <<>>) /\ "all" \in RunnerModes
    BY <1>1 DEF RunAllTests, RunnerModes
  <2> QED  BY <2>1, FilesFound, NothingListed, RunStarts
<1>2. CASE RunSelectedTest
  <2>1. PICK i \in DOMAIN TestFiles : Starts("one", <<TestFiles[i]>>, results)
    BY <1>2 DEF RunSelectedTest
  <2>2. "one" \in RunnerModes /\ results \in Seq(FileResults)
    BY DEF RunnerModes, RunInv, RunTyped
  <2> DEFINE files == <<TestFiles[i]>>
  <2>3. files \in Seq(Files) /\ \A a, b \in 1 .. Len(files) : files[a] = files[b] => a = b
    BY FilesFound
  <2>4. Starts("one", files, results)
    BY <2>1
  <2> HIDE DEF files
  <2> QED  BY <2>2, <2>3, <2>4, RunStarts
<1>3. CASE UNCHANGED dashboardVars
  <2>1. /\ RunTyped' /\ CompletionLast' /\ FilesApart'
    BY <1>3 DEF dashboardVars, RunInv, RunTyped, CompletionLast, FilesApart
  <2>2. PICK k \in Nat : Posted(k)
    BY DEF RunInv
  <2>3. \E q \in Nat : Posted(q)'
    BY <1>3, <2>2, NothingPosted DEF dashboardVars
  <2> QED  BY <2>1, <2>3 DEF RunInv
<1> QED  BY <1>1, <1>2, <1>3, StopAsked, ResultsCleared, WindowUpdated, ThreadBegins, PytestStarts, PytestDone,
            FutureCollected, ThreadEnds DEF DashboardNext

\* When no run is on, what was reported is what the window shows last.
LEMMA RunMeans == RunInv => RunIsOver
<1> SUFFICES ASSUME RunInv, ~isRunning PROVE
        /\ runner.busy = {} /\ runner.at = "idle" /\ updates = <<>>
        /\ IsSuffix(reported, results)
        /\ \A i, j \in DOMAIN reported : reported[i].file = reported[j].file => i = j
  BY DEF RunIsOver
<1>1. RunTyped /\ CompletionLast /\ FilesApart
  BY DEF RunInv
<1>2. PICK k \in Nat : Posted(k)
  BY DEF RunInv
<1>3. updates = <<>> /\ runner = NoRunner
  BY <1>1 DEF CompletionLast
<1> DEFINE m == Len(reported)
           n == Len(results)
<1>4. /\ results \in Seq(FileResults) /\ reported \in Seq(FileResults) /\ m \in Nat /\ n \in Nat
      /\ DOMAIN reported = 1 .. m
  <2>1. results \in Seq(FileResults) /\ reported \in Seq(FileResults)
    BY <1>1 DEF RunTyped
  <2> QED  BY <2>1
<1>5. k = 0
  BY <1>2, <1>3, NothingListed DEF Posted
<1>6. m <= n /\ \A i \in 1 .. m : reported[i] = results[n - m + i]
  <2>1. m - 0 = m
    BY <1>4
  <2>2. m - 0 <= n /\ \A i \in 1 .. m - 0 : reported[i] = results[n - (m - 0) + i]
    BY <1>2, <1>5 DEF Posted
  <2> QED  BY <2>1, <2>2
<1>7. IsSuffix(reported, results)
  <2> DEFINE a == Reverse(reported)
             b == Reverse(results)
  <2>1. a = [i \in 1 .. m |-> reported[m - i + 1]] /\ b = [i \in 1 .. n |-> results[n - i + 1]]
    BY DEF Reverse
  <2> HIDE DEF m, n
  <2>2. ASSUME NEW i \in 1 .. m PROVE m - i + 1 \in 1 .. m /\ i \in 1 .. n /\ n - m + (m - i + 1) = n - i + 1
    BY <1>4, <1>6
  <2>3. \A i \in 1 .. m : a[i] = b[i]
    BY <1>6, <2>1, <2>2
  <2>4. a \in Seq(FileResults) /\ Len(a) = m
    <3>1. \A i \in 1 .. m : reported[m - i + 1] \in FileResults
      BY <1>4, <2>2 DEF m
    <3> QED  BY <1>4, <2>1, <3>1
  <2>5. b \in Seq(FileResults) /\ Len(b) = n
    <3>1. \A i \in 1 .. n : n - i + 1 \in 1 .. n
      BY <1>4
    <3>2. \A i \in 1 .. n : results[n - i + 1] \in FileResults
      BY <1>4, <3>1 DEF n
    <3> QED  BY <1>4, <2>1, <3>2
  <2> HIDE DEF a, b
  <2>6. SubSeq(a, 1, m) = SubSeq(b, 1, m)
    <3>1. SubSeq(a, 1, m) \in Seq(FileResults) /\ Len(SubSeq(a, 1, m)) = m /\ \A i \in 1 .. m : SubSeq(a, 1, m)[i] = a[i]
      BY <1>4, <2>4
    <3>2. SubSeq(b, 1, m) \in Seq(FileResults) /\ Len(SubSeq(b, 1, m)) = m /\ \A i \in 1 .. m : SubSeq(b, 1, m)[i] = b[i]
      BY <1>4, <1>6, <2>5
    <3> DEFINE x == SubSeq(a, 1, m)
               y == SubSeq(b, 1, m)
    <3>3. x = [i \in 1 .. m |-> x[i]] /\ y = [i \in 1 .. m |-> y[i]]
      BY <3>1, <3>2
    <3>4. \A i \in 1 .. m : x[i] = y[i]
      BY <2>3, <3>1, <3>2
    <3> HIDE DEF x, y
    <3>5. x = y
      BY <3>3, <3>4
    <3> QED  BY <3>5 DEF x, y
  <2> QED  BY <1>6, <2>4, <2>5, <2>6 DEF IsSuffix, IsPrefix, a, b
<1>8. \A i, j \in DOMAIN reported : reported[i].file = reported[j].file => i = j
  BY <1>1, <1>4 DEF FilesApart, Apart, Once
<1> QED  BY <1>3, <1>7, <1>8, NoRunnerTyped

\* Whenever the window says that no tests run, none do, nothing is left to be
\* shown, and the results of the run that ended are the last ones there, each
\* once (TestDashboard._run_tests_thread, TestRunner.run_all_tests).
THEOREM RunsEndWhole == DashboardSpec => []RunIsOver
  BY DashboardStarts, DashboardStep, RunMeans, PTL DEF DashboardSpec

-----------------------------------------------------------------------------
\* The alerts of the health monitor.
WatchSteps == {"idle", "age", "hit", "copy", "store", "date", "rule", "stamp", "create"}
Watch ==
    [at : WatchSteps, data : SUBSET RuleNames, due : SUBSET RuleNames, begun : Nat,
     stats : {"none", "fast", "slow"}, rule : 0 .. Len(Rules)]
Moments == Nat \union {NoTime}
Alert == [rule : RuleNames, time : Nat]

HealthTyped ==
    /\ snapshot \in {"none", "good", "bad"} /\ cached \in {"none", "fast", "slow"}
    /\ timings \in Seq(BOOLEAN) /\ Len(timings) <= HistoryMax
    /\ cachedAt \in Moments /\ slowSince \in Moments
    /\ lastAlert \in [RuleNames -> Moments] /\ seen \in [RuleNames -> Moments]
    /\ watch \in [Watchers -> Watch]
    /\ healthClock \in Nat /\ records \in 0 .. RecordsMax

\* The list is in the order of its times, and not too long.
AlertsInOrder ==
    /\ alerts \in Seq(Alert) /\ Len(alerts) <= AlertsMax
    /\ \A i \in 1 .. Len(alerts) : alerts[i].time <= healthClock
    /\ \A i, j \in 1 .. Len(alerts) : i < j => alerts[i].time <= alerts[j].time

\* Nothing carries a time that has not come yet.
NotAhead ==
    /\ cachedAt # NoTime => cachedAt <= healthClock
    /\ slowSince # NoTime => slowSince <= healthClock
    /\ \A r \in RuleNames : /\ lastAlert[r] # NoTime => lastAlert[r] <= healthClock
                            /\ seen[r] # NoTime => seen[r] <= healthClock

\* The operation was slow before this tick.
LongSlow == slowSince # NoTime /\ slowSince < healthClock

\* What a check knows where it is: it has found what it is due to find, statistics
\* that it computes are those of this tick, an age that it read was young.
WatchOK(o) ==
    /\ o.due \subseteq o.data /\ o.begun <= healthClock
    /\ o.at \in {"rule", "stamp", "create"} => o.rule # 0
    /\ o.at \in {"store", "date"} => o.stats # "none" /\ (LongSlow => o.stats = "slow")
    /\ o.at = "hit" => cachedAt # NoTime /\ cachedAt + StatsTtl > o.begun

\* Statistics that say fast of an operation that is slow are from before it was.
CachedInTime ==
    cached = "fast" /\ LongSlow =>
        /\ cachedAt # NoTime => cachedAt <= slowSince
        /\ \A w \in Watchers : watch[w].at # "date"

\* Of the rules that a check is through with, those it had to see are reported.
ReportedOf(o) ==
    o.at \in {"rule", "stamp", "create"} =>
        \A k \in 1 .. Len(Rules) :
            k < o.rule /\ Rules[k] \in o.due => Reported(Rules[k], o.begun - Cooldown + 1)

HealthInv ==
    /\ HealthTyped /\ AlertsInOrder /\ NotAhead
    /\ slowSince # NoTime <=> P95Slow(timings)
    /\ \A w \in Watchers : WatchOK(watch[w])
    /\ CachedInTime
    /\ \A r \in RuleNames : lastAlert[r] # NoTime => Reported(r, lastAlert[r])
    /\ \A w \in Watchers : ReportedOf(watch[w])
    /\ SeenIsAlerted

-----------------------------------------------------------------------------
\* What the bounds are.
LEMMA HealthBounds ==
    /\ HealthEnd \in Nat /\ RecordsMax \in Nat
    /\ Cooldown \in Nat /\ Cooldown >= 1 /\ StatsTtl \in Nat /\ StatsTtl >= 1
    /\ HistoryMax \in Nat /\ HistoryMax >= 1 /\ AlertsMax \in Nat /\ AlertsMax >= 1
    /\ Len(Rules) \in Nat /\ Len(Rules) >= 1 /\ Rules \in Seq(RuleNames) /\ NoTime \notin Int
    /\ \A i \in 1 .. Len(Rules) : Rules[i] \in RuleNames
<1>1. {HealthEnd, RecordsMax} \subseteq Nat /\ {Cooldown, StatsTtl, HistoryMax, AlertsMax} \subseteq Nat \ {0}
  BY HealthAssumption
<1>2. /\ HealthEnd \in Nat /\ RecordsMax \in Nat
      /\ Cooldown \in Nat \ {0} /\ StatsTtl \in Nat \ {0} /\ HistoryMax \in Nat \ {0} /\ AlertsMax \in Nat \ {0}
  BY <1>1, Zenon
<1>3. Rules \in Seq({"system", "component", "slow"}) /\ Rules # <<>> /\ NoTime \notin Int
  BY HealthAssumption
<1>4. Len(Rules) \in Nat /\ Len(Rules) >= 1
  BY <1>3
<1>5. Rules \in Seq(RuleNames) /\ \A i \in 1 .. Len(Rules) : Rules[i] \in RuleNames
  BY <1>3 DEF RuleNames, ToSet
<1> QED  BY ONLY <1>2, <1>3, <1>4, <1>5

\* What was reported since a time was reported since an earlier one.
LEMMA ReportedSince ==
    ASSUME alerts \in Seq(Alert), NEW r, NEW since \in Int, NEW earlier \in Int, earlier <= since, Reported(r, since)
    PROVE  Reported(r, earlier)
<1>1. \A i \in DOMAIN alerts : alerts[i].time \in Nat
  <2>1. \A i \in DOMAIN alerts : alerts[i] \in Alert
    OBVIOUS
  <2> QED  BY <2>1 DEF Alert
<1>2. \A i \in DOMAIN alerts : alerts[i].time >= since => alerts[i].time >= earlier
  BY ONLY <1>1, since \in Int, earlier \in Int, earlier <= since
<1> QED  BY <1>2 DEF Reported

\* Nothing is taken from the reports while the list stays and those who are about
\* to add to it do.
LEMMA ReportsStay ==
    ASSUME alerts' = alerts, NEW r, NEW since, Reported(r, since),
           \A w \in Watchers : watch[w].at = "create" => watch'[w].at = "create" /\ watch'[w].rule = watch[w].rule
    PROVE  Reported(r, since)'
  BY DEF Reported, Rule

\* An alert is added, and the oldest one goes.
LEMMA ReportsPass ==
    ASSUME HealthTyped, AlertsInOrder, NEW w \in Watchers, watch[w].at = "create", watch[w].rule # 0,
           NEW q, q = Rule(w), NEW now, now = healthClock,
           alerts' = KeepsLatest(Append(alerts, [rule |-> q, time |-> now])),
           \A v \in Watchers \ {w} : watch'[v] = watch[v], healthClock' = healthClock
    PROVE  /\ AlertsInOrder'
           /\ Reported(q, now)'
           /\ \A r : \A since \in Int : since <= healthClock /\ Reported(r, since) => Reported(r, since)'
<1> DEFINE new == [rule |-> q, time |-> now]
           all == Append(alerts, new)
<1>1. new \in Alert /\ new.rule = q /\ new.time = now /\ now \in Nat
  <2>1. watch[w].rule \in 1 .. Len(Rules)
    BY HealthBounds DEF HealthTyped, Watch
  <2> QED  BY <2>1, HealthBounds DEF Rule, Alert, HealthTyped
<1>2. alerts \in Seq(Alert) /\ Len(alerts) \in Nat /\ Len(alerts) <= AlertsMax /\ AlertsMax \in Nat /\ AlertsMax >= 1
  BY HealthBounds DEF AlertsInOrder
<1> HIDE DEF new
<1>3. /\ all \in Seq(Alert) /\ Len(all) = Len(alerts) + 1 /\ all[Len(all)] = new
      /\ \A i \in 1 .. Len(alerts) : all[i] = alerts[i]
  BY <1>1, <1>2
<1>4. /\ \A i \in 1 .. Len(all) : all[i].time \in Nat /\ all[i].time <= now
      /\ \A i, j \in 1 .. Len(all) : i < j => all[i].time <= all[j].time
  <2>1. \A i \in 1 .. Len(alerts) : all[i] = alerts[i] /\ alerts[i] \in Alert /\ alerts[i].time <= now
    BY <1>2, <1>3 DEF AlertsInOrder
  <2>2. \A i \in 1 .. Len(alerts) : all[i].time \in Nat /\ all[i].time <= now
    BY <2>1 DEF Alert
  <2>3. \A i \in 1 .. Len(all) : i \in 1 .. Len(alerts) \/ i = Len(all)
    BY <1>2, <1>3
  <2>4. \A i \in 1 .. Len(all) : all[i].time \in Nat /\ all[i].time <= now
    BY <1>1, <1>3, <2>2, <2>3
  <2>5. ASSUME NEW i \in 1 .. Len(all), NEW j \in 1 .. Len(all), i < j
        PROVE  all[i].time <= all[j].time
    <3>1. i \in 1 .. Len(alerts)
      BY <1>2, <1>3, <2>5
    <3>2. CASE j = Len(all)
      BY <1>1, <1>3, <2>4, <3>2
    <3>3. CASE j # Len(all)
      <4>1. j \in 1 .. Len(alerts)
        BY <1>2, <1>3, <3>3
      <4> QED  BY <2>1, <2>5, <3>1, <4>1 DEF AlertsInOrder
    <3> QED  BY <3>2, <3>3
  <2> QED  BY <2>4, <2>5
<1> HIDE DEF all
<1>5. PICK cut \in {0, 1} : /\ alerts' \in Seq(Alert) /\ Len(alerts') = Len(all) - cut
                            /\ \A i \in 1 .. Len(alerts') : alerts'[i] = all[i + cut]
                            /\ cut = 1 => Len(alerts') = AlertsMax
                            /\ Len(alerts') <= AlertsMax
  <2>1. alerts' = KeepsLatest(all)
    BY DEF all, new
  <2>2. CASE Len(all) > AlertsMax
    <3>1. alerts' = Tail(all) /\ all # <<>> /\ Len(all) \in Nat /\ Len(all) - 1 = AlertsMax
      BY <1>2, <1>3, <2>1, <2>2 DEF KeepsLatest
    <3>2. /\ Tail(all) \in Seq(Alert) /\ Len(Tail(all)) = Len(all) - 1
          /\ \A i \in 1 .. Len(Tail(all)) : Tail(all)[i] = all[i + 1]
      BY <1>3, <3>1
    <3>3. \A i \in 1 .. Len(alerts') : alerts'[i] = all[i + 1]
      BY <3>1, <3>2
    <3>4. /\ alerts' \in Seq(Alert) /\ Len(alerts') = Len(all) - 1
          /\ Len(alerts') = AlertsMax /\ Len(alerts') <= AlertsMax
      BY <1>2, <3>1, <3>2
    <3> QED  BY <3>3, <3>4
  <2>3. CASE ~(Len(all) > AlertsMax)
    BY <1>2, <1>3, <2>1, <2>3 DEF KeepsLatest
  <2> QED  BY <2>2, <2>3
<1>6. Len(all) \in Nat /\ Len(alerts') \in Nat /\ Len(alerts') >= 1
  BY <1>2, <1>3, <1>5
<1>7. \A i \in 1 .. Len(alerts') : i + cut \in 1 .. Len(all)
  BY <1>5, <1>6
<1>8. \A i \in 1 .. Len(alerts') : alerts'[i].time \in Nat /\ alerts'[i].time <= now
  BY <1>4, <1>5, <1>7
<1>9. AlertsInOrder'
  <2>1. \A i, j \in 1 .. Len(alerts') : i < j => alerts'[i].time <= alerts'[j].time
    <3> SUFFICES ASSUME NEW i \in 1 .. Len(alerts'), NEW j \in 1 .. Len(alerts'), i < j
                 PROVE  alerts'[i].time <= alerts'[j].time
      OBVIOUS
    <3>1. i + cut \in 1 .. Len(all) /\ j + cut \in 1 .. Len(all) /\ i + cut < j + cut
      BY <1>6, <1>7
    <3> QED  BY <1>4, <1>5, <3>1
  <2> QED  BY <1>5, <1>8, <2>1 DEF AlertsInOrder
<1>10. DOMAIN alerts' = 1 .. Len(alerts') /\ DOMAIN alerts = 1 .. Len(alerts)
  BY <1>2, <1>5
<1>11. alerts'[Len(alerts')] = new
  BY <1>3, <1>5, <1>6
<1>12. Reported(q, now)'
  <2>1. \E i \in DOMAIN alerts' : alerts'[i].rule = q /\ alerts'[i].time >= now
    BY <1>1, <1>6, <1>10, <1>11
  <2> QED  BY <2>1 DEF Reported
<1>13. ASSUME NEW r, NEW since \in Int, since <= healthClock, Reported(r, since)
       PROVE  Reported(r, since)'
  <2>1. CASE \E i \in DOMAIN alerts : alerts[i].rule = r /\ alerts[i].time >= since
    <3>1. PICK i \in 1 .. Len(alerts) : alerts[i].rule = r /\ alerts[i].time >= since
      BY <1>10, <2>1
    <3>2. i \in Nat /\ i \in 1 .. Len(all) /\ all[i].rule = r /\ all[i].time >= since
      BY <1>2, <1>3, <3>1
    <3>3. CASE i > cut
      <4>1. i - cut \in 1 .. Len(alerts') /\ alerts'[i - cut] = all[i]
        BY <1>5, <1>6, <3>2, <3>3
      <4> QED  BY <1>10, <3>2, <4>1 DEF Reported
    <3>4. CASE ~(i > cut)
      <4>1. cut = 1 /\ i = 1
        BY <1>5, <3>2, <3>4
      <4>2. \A k \in 1 .. Len(alerts') : alerts'[k].time >= since
        <5> SUFFICES ASSUME NEW k \in 1 .. Len(alerts')
                     PROVE  alerts'[k].time >= since
          OBVIOUS
        <5>1. k + 1 \in 1 .. Len(all) /\ alerts'[k] = all[k + 1] /\ i < k + 1
          BY <1>5, <1>6, <1>7, <4>1
        <5>2. all[i].time <= all[k + 1].time /\ all[i].time \in Nat /\ all[k + 1].time \in Nat
          BY <1>4, <3>2, <5>1
        <5> QED  BY <3>2, <5>1, <5>2
      <4> QED  BY <1>5, <1>10, <4>1, <4>2 DEF Reported
    <3> QED  BY <3>3, <3>4
  <2>2. CASE \E v \in Watchers : watch[v].at = "create" /\ Rule(v) = r
    <3>1. PICK v \in Watchers : watch[v].at = "create" /\ Rule(v) = r
      BY <2>2
    <3>2. CASE v = w
      <4>1. alerts'[Len(alerts')].rule = r /\ alerts'[Len(alerts')].time >= since
        BY <1>1, <1>11, <1>13, <3>1, <3>2
      <4> QED  BY <1>6, <1>10, <4>1 DEF Reported
    <3>3. CASE v # w
      BY <3>1, <3>3 DEF Reported, Rule
    <3> QED  BY <3>2, <3>3
  <2>3. CASE Len(alerts) = AlertsMax /\ \A i \in DOMAIN alerts : alerts[i].time >= since
    <3>1. cut = 1
      BY <1>2, <1>3, <1>5, <2>3
    <3>2. \A k \in 1 .. Len(all) : all[k].time >= since
      <4> SUFFICES ASSUME NEW k \in 1 .. Len(all)
                   PROVE  all[k].time >= since
        OBVIOUS
      <4>1. CASE k = Len(all)
        BY <1>1, <1>3, <1>13, <4>1
      <4>2. CASE k # Len(all)
        <5>1. k \in 1 .. Len(alerts)
          BY <1>2, <1>3, <4>2
        <5> QED  BY <1>3, <1>10, <2>3, <5>1
      <4> QED  BY <4>1, <4>2
    <3>3. \A k \in 1 .. Len(alerts') : alerts'[k].time >= since
      BY <1>5, <1>7, <3>2
    <3> QED  BY <1>5, <1>10, <3>1, <3>3 DEF Reported
  <2> QED  BY <2>1, <2>2, <2>3, <1>13 DEF Reported
<1> QED  BY <1>9, <1>12, <1>13

\* Reports depend on the list and on those who are about to add to it only; so
\* what a check may do without adding is put together here.
LEMMA CheckMoves ==
    ASSUME HealthInv, NEW w \in Watchers, NEW o \in Watch, watch' = [watch EXCEPT ![w] = o],
           watch[w].at # "create",
           UNCHANGED <<alerts, snapshot, timings, healthClock, records, slowSince>>,
           cached' \in {"none", "fast", "slow"}, cachedAt' \in {cachedAt, healthClock},
           WatchOK(o), o.at = "hit" => cachedAt' = cachedAt, CachedInTime', ReportedOf(o),
           lastAlert' \in [RuleNames -> Moments], seen' \in [RuleNames -> Moments],
           \A r \in RuleNames : lastAlert'[r] # NoTime =>
               /\ lastAlert'[r] <= healthClock
               /\ Reported(r, lastAlert'[r]) \/ (o.at = "create" /\ Rules[o.rule] = r),
           \A r \in RuleNames : seen'[r] # NoTime =>
               seen'[r] <= healthClock /\ Reported(r, seen'[r] - Cooldown + 1)
    PROVE  HealthInv'
<1>1. watch'[w] = o /\ \A v \in Watchers \ {w} : watch'[v] = watch[v]
  BY DEF HealthInv, HealthTyped
<1>2. \A r, since : Reported(r, since) => Reported(r, since)'
  <2> SUFFICES ASSUME NEW r, NEW since, Reported(r, since)
               PROVE  Reported(r, since)'
    OBVIOUS
  <2>1. \A v \in Watchers : watch[v].at = "create" => watch'[v].at = "create" /\ watch'[v].rule = watch[v].rule
    BY <1>1
  <2> QED  BY <2>1, ReportsStay
<1>3. HealthTyped'
  <2>1. watch' \in [Watchers -> Watch]
    BY DEF HealthInv, HealthTyped
  <2>2. cachedAt' \in Moments
    BY DEF HealthInv, HealthTyped, Moments
  <2> QED  BY <2>1, <2>2 DEF HealthInv, HealthTyped
<1>4. AlertsInOrder'
  BY DEF HealthInv, AlertsInOrder
<1>5. NotAhead'
  <2>1. healthClock \in Nat
    BY DEF HealthInv, HealthTyped
  <2> QED  BY <2>1 DEF HealthInv, NotAhead
<1>6. (slowSince # NoTime <=> P95Slow(timings))'
  BY DEF HealthInv
<1>7. \A v \in Watchers : WatchOK(watch[v])'
  <2> SUFFICES ASSUME NEW v \in Watchers, v # w
               PROVE  WatchOK(watch[v])'
    <3>1. WatchOK(o)'
      BY DEF WatchOK, LongSlow
    <3> QED  BY <1>1, <3>1
  <2>1. WatchOK(watch[v]) /\ watch'[v] = watch[v] /\ watch[v].begun \in Nat /\ healthClock \in Nat
    BY <1>1 DEF HealthInv, HealthTyped, Watch
  <2>2. cachedAt' = healthClock => cachedAt' # NoTime /\ cachedAt' + StatsTtl > watch[v].begun
    BY <2>1, HealthBounds DEF WatchOK
  <2> QED  BY <2>1, <2>2 DEF WatchOK, LongSlow
<1>8. \A v \in Watchers : ReportedOf(watch[v])'
  <2> SUFFICES ASSUME NEW v \in Watchers
               PROVE  ReportedOf(watch[v])'
    OBVIOUS
  <2>1. PICK p : p = watch'[v] /\ ReportedOf(p)
    BY <1>1 DEF HealthInv
  <2>2. \A k \in 1 .. Len(Rules) : Reported(Rules[k], p.begun - Cooldown + 1) => Reported(Rules[k], p.begun - Cooldown + 1)'
    BY <1>2
  <2> QED  BY <2>1, <2>2 DEF ReportedOf
<1>9. ASSUME NEW r \in RuleNames, NEW t, t = lastAlert'[r], t # NoTime
      PROVE  Reported(r, t)'
  <2>1. CASE Reported(r, t)
    BY <1>2, <2>1
  <2>2. CASE o.at = "create" /\ Rules[o.rule] = r
    <3>1. watch'[w].at = "create" /\ Rules[watch'[w].rule] = r
      BY <1>1, <2>2
    <3> QED  BY <3>1 DEF Reported, Rule
  <2> QED  BY <1>9, <2>1, <2>2
<1>10. (\A r \in RuleNames : lastAlert[r] # NoTime => Reported(r, lastAlert[r]))'
  <2> SUFFICES ASSUME NEW r \in RuleNames, lastAlert'[r] # NoTime
               PROVE  Reported(r, lastAlert[r])'
    OBVIOUS
  <2>1. PICK t : t = lastAlert'[r]
    OBVIOUS
  <2>2. Reported(r, t)'
    BY <1>9, <2>1
  <2> QED  BY <2>1, <2>2 DEF Reported
<1>11. SeenIsAlerted'
  <2> SUFFICES ASSUME NEW r \in RuleNames, seen'[r] # NoTime
               PROVE  Reported(r, seen[r] - Cooldown + 1)'
    BY DEF SeenIsAlerted
  <2>1. PICK t : t = seen'[r] /\ Reported(r, t - Cooldown + 1)
    OBVIOUS
  <2>2. Reported(r, t - Cooldown + 1)'
    BY <1>2, <2>1
  <2> QED  BY <2>1, <2>2 DEF Reported
<1> QED  BY <1>3, <1>4, <1>5, <1>6, <1>7, <1>8, <1>10, <1>11 DEF HealthInv

\* The same of a check that changes nothing but where it is.
LEMMA CheckMovesOn ==
    ASSUME HealthInv, NEW w \in Watchers, NEW o \in Watch, watch' = [watch EXCEPT ![w] = o],
           watch[w].at # "create", o.at # "date", WatchOK(o), ReportedOf(o),
           UNCHANGED <<alerts, snapshot, timings, healthClock, records, slowSince, cached, cachedAt,
                       lastAlert, seen>>
    PROVE  HealthInv'
<1>1. CachedInTime'
  <2>1. \A v \in Watchers : watch'[v].at = "date" => watch[v].at = "date"
    BY DEF HealthInv, HealthTyped
  <2> QED  BY <2>1 DEF HealthInv, CachedInTime, LongSlow
<1>2. /\ cached \in {"none", "fast", "slow"} /\ lastAlert \in [RuleNames -> Moments] /\ seen \in [RuleNames -> Moments]
      /\ \A r \in RuleNames : lastAlert[r] # NoTime => lastAlert[r] <= healthClock /\ Reported(r, lastAlert[r])
      /\ \A r \in RuleNames : seen[r] # NoTime => seen[r] <= healthClock /\ Reported(r, seen[r] - Cooldown + 1)
  BY DEF HealthInv, HealthTyped, NotAhead, SeenIsAlerted
<1>3. /\ cached' \in {"none", "fast", "slow"} /\ cachedAt' \in {cachedAt, healthClock}
      /\ lastAlert' \in [RuleNames -> Moments] /\ seen' \in [RuleNames -> Moments]
      /\ \A r \in RuleNames : lastAlert'[r] # NoTime => lastAlert'[r] <= healthClock /\ Reported(r, lastAlert'[r])
      /\ \A r \in RuleNames : seen'[r] # NoTime =>
           seen'[r] <= healthClock /\ Reported(r, seen'[r] - Cooldown + 1)
  <2>1. cached' = cached /\ cachedAt' = cachedAt /\ lastAlert' = lastAlert /\ seen' = seen
    OBVIOUS
  <2> QED  BY ONLY <1>2, <2>1
<1> QED  BY <1>1, <1>3, CheckMoves

\* A check that gives up.
LEMMA CheckGivesUp ==
    ASSUME HealthInv
    PROVE  NoWatch \in Watch /\ NoWatch.at = "idle" /\ WatchOK(NoWatch) /\ ReportedOf(NoWatch)
<1>1. NoWatch \in Watch /\ NoWatch.at = "idle" /\ NoWatch.due = {} /\ NoWatch.begun = 0
  BY HealthBounds DEF NoWatch, Watch, WatchSteps
<1>2. healthClock \in Nat
  BY DEF HealthInv, HealthTyped
<1> HIDE DEF NoWatch
<1> QED  BY <1>1, <1>2 DEF WatchOK, ReportedOf

-----------------------------------------------------------------------------
\* A check begins.
LEMMA BeginsCheckKeeps ==
    ASSUME HealthInv, NEW w \in Watchers, BeginsCheck(w),
           UNCHANGED <<snapshot, timings, healthClock, records, slowSince>>, alerts' = alerts
    PROVE  HealthInv'
<1>1. PICK found \in SUBSET RuleNames :
         watch' = [watch EXCEPT ![w].at = IF cached = "none" THEN "copy" ELSE "age",
                                ![w].data = found, ![w].due = found, ![w].begun = healthClock]
  BY DEF BeginsCheck
<1> DEFINE o == [watch[w] EXCEPT !.at = IF cached = "none" THEN "copy" ELSE "age",
                                 !.data = found, !.due = found, !.begun = healthClock]
<1>2. watch[w] \in Watch /\ healthClock \in Nat /\ watch \in [Watchers -> Watch]
  BY DEF HealthInv, HealthTyped
<1>3. /\ o \in Watch /\ o.due = found /\ o.data = found /\ o.begun = healthClock
      /\ o.at \in {"copy", "age"}
  BY <1>2 DEF Watch, WatchSteps
<1>4. watch' = [watch EXCEPT ![w] = o]
  BY <1>1, <1>2
<1>5. watch[w].at # "create"
  BY DEF BeginsCheck
<1> HIDE DEF o
<1>6. WatchOK(o) /\ ReportedOf(o) /\ o.at # "date"
  BY <1>2, <1>3 DEF WatchOK, ReportedOf
<1>7. UNCHANGED <<alerts, snapshot, timings, healthClock, records, slowSince, cached, cachedAt, lastAlert, seen>>
  BY DEF BeginsCheck
<1> QED  BY <1>3, <1>4, <1>5, <1>6, <1>7, CheckMovesOn

\* The statistics are there, and they are those of a slow operation if it had been
\* slow for long enough.
LEMMA GotStatsMoves ==
    ASSUME HealthInv, NEW w \in Watchers, NEW stats, GotStats(w, stats),
           slowSince # NoTime /\ slowSince + StatsTtl <= watch[w].begun => stats = "slow"
    PROVE  \E o \in Watch : /\ watch' = [watch EXCEPT ![w] = o]
                            /\ o.at \in {"idle", "rule"} /\ WatchOK(o) /\ ReportedOf(o)
<1>1. watch[w] \in Watch /\ watch \in [Watchers -> Watch] /\ WatchOK(watch[w])
  BY DEF HealthInv, HealthTyped
<1>2. CASE w \in Readers
  <2>1. watch' = [watch EXCEPT ![w] = NoWatch]
    BY <1>2 DEF GotStats
  <2> QED  BY <2>1, CheckGivesUp
<1>3. CASE w \notin Readers
  <2> DEFINE isDue == slowSince # NoTime /\ slowSince + StatsTtl <= watch[w].begun
             With(known, now) == IF now /\ "slow" \in RuleNames THEN known \union {"slow"} ELSE known
             found == With(watch[w].data, stats = "slow")
             owed == With(watch[w].due, isDue)
             o == [watch[w] EXCEPT !.at = "rule", !.rule = 1, !.stats = "none", !.data = found, !.due = owed]
  <2>1. watch' = [watch EXCEPT ![w] = o]
    BY <1>3 DEF GotStats
  <2>2. isDue => stats = "slow"
    OBVIOUS
  <2>3. watch[w].data \subseteq RuleNames /\ watch[w].due \subseteq watch[w].data /\ watch[w].begun \in Nat
        /\ watch[w].begun <= healthClock
    BY <1>1 DEF Watch, WatchOK
  <2> HIDE DEF isDue
  <2>4. owed \subseteq found /\ found \subseteq RuleNames
    BY <2>2, <2>3
  <2> HIDE DEF found, owed
  <2>5. o \in Watch
    <3>1. 1 \in 0 .. Len(Rules) /\ found \in SUBSET RuleNames /\ owed \in SUBSET RuleNames
      BY <2>4, HealthBounds
    <3> QED  BY <1>1, <3>1 DEF Watch, WatchSteps
  <2>6. o.at = "rule" /\ o.rule = 1 /\ o.data = found /\ o.due = owed /\ o.begun = watch[w].begun
    BY <1>1 DEF Watch
  <2> HIDE DEF o
  <2>7. WatchOK(o)
    BY <2>3, <2>4, <2>6 DEF WatchOK
  <2>8. ReportedOf(o)
    BY <2>6 DEF ReportedOf
  <2> QED  BY <2>1, <2>5, <2>6, <2>7, <2>8
<1> QED  BY <1>2, <1>3

\* The age of the entry is read; so is the entry.
LEMMA ReadsKeep ==
    ASSUME HealthInv, NEW w \in Watchers, ReadsAge(w) \/ ReadsEntry(w),
           UNCHANGED <<snapshot, timings, healthClock, records, slowSince>>, alerts' = alerts
    PROVE  HealthInv'
<1>1. watch[w] \in Watch /\ healthClock \in Nat /\ watch \in [Watchers -> Watch] /\ WatchOK(watch[w])
      /\ watch[w].begun \in Nat /\ watch[w].begun <= healthClock
  BY DEF HealthInv, HealthTyped, Watch, WatchOK
<1>2. watch[w].at # "create"
      /\ UNCHANGED <<alerts, snapshot, timings, healthClock, records, slowSince, cached, cachedAt, lastAlert, seen>>
  BY DEF ReadsAge, ReadsEntry
<1>3. CASE WatchFails(w)
  <2>1. watch' = [watch EXCEPT ![w] = NoWatch] /\ NoWatch.at # "date"
    BY <1>3, CheckGivesUp DEF WatchFails
  <2> QED  BY <1>2, <2>1, CheckGivesUp, CheckMovesOn
<1>4. CASE ReadsAge(w) /\ ~WatchFails(w)
  <2> DEFINE at == IF healthClock - cachedAt < StatsTtl THEN "hit" ELSE "copy"
             o == [watch[w] EXCEPT !.at = at]
  <2>1. watch' = [watch EXCEPT ![w] = o] /\ cachedAt # NoTime
    BY <1>1, <1>4 DEF ReadsAge
  <2>2. /\ o \in Watch /\ o.at = at /\ o.due = watch[w].due /\ o.data = watch[w].data /\ o.begun = watch[w].begun
    BY <1>1 DEF Watch, WatchSteps
  <2>3. cachedAt \in Nat
    BY <2>1 DEF HealthInv, HealthTyped, Moments
  <2>4. at \in {"hit", "copy"} /\ (at = "hit" => cachedAt + StatsTtl > watch[w].begun)
    BY <1>1, <2>3, HealthBounds
  <2> HIDE DEF o, at
  <2>5. WatchOK(o) /\ ReportedOf(o) /\ o.at # "date"
    BY <1>1, <2>1, <2>2, <2>4 DEF WatchOK, ReportedOf
  <2> QED  BY <1>2, <2>1, <2>2, <2>5, CheckMovesOn
<1>5. CASE ReadsEntry(w) /\ ~WatchFails(w)
  <2>1. watch[w].at = "hit" /\ cached # "none" /\ GotStats(w, cached)
    BY <1>5 DEF ReadsEntry
  <2>2. slowSince # NoTime /\ slowSince + StatsTtl <= watch[w].begun => cached = "slow"
    <3> SUFFICES ASSUME slowSince # NoTime, slowSince + StatsTtl <= watch[w].begun, cached = "fast"
                 PROVE  FALSE
      BY <2>1 DEF HealthInv, HealthTyped
    <3>1. cachedAt # NoTime /\ cachedAt + StatsTtl > watch[w].begun /\ cachedAt \in Nat /\ slowSince \in Nat
      BY <1>1, <2>1 DEF WatchOK, HealthInv, HealthTyped, Moments
    <3>2. slowSince < healthClock
      BY <1>1, <3>1, HealthBounds
    <3>3. cachedAt <= slowSince
      BY <3>1, <3>2 DEF HealthInv, CachedInTime, LongSlow
    <3> QED  BY <1>1, <3>1, <3>3, HealthBounds
  <2>3. PICK o \in Watch : /\ watch' = [watch EXCEPT ![w] = o]
                           /\ o.at \in {"idle", "rule"} /\ WatchOK(o) /\ ReportedOf(o)
    BY <2>1, <2>2, GotStatsMoves
  <2> QED  BY <1>2, <2>3, CheckMovesOn
<1> QED  BY <1>3, <1>4, <1>5

\* The timings are copied, and there are none or the statistics are made of them.
LEMMA ComputesKeeps ==
    ASSUME HealthInv, NEW w \in Watchers, Computes(w),
           UNCHANGED <<snapshot, timings, healthClock, records, slowSince>>, alerts' = alerts
    PROVE  HealthInv'
<1>1. watch[w] \in Watch /\ watch \in [Watchers -> Watch] /\ WatchOK(watch[w])
  BY DEF HealthInv, HealthTyped
<1>2. watch[w].at # "create"
      /\ UNCHANGED <<alerts, snapshot, timings, healthClock, records, slowSince, cached, cachedAt, lastAlert, seen>>
  BY DEF Computes
<1>3. CASE timings = <<>>
  <2>1. slowSince = NoTime
    BY <1>3 DEF HealthInv, P95Slow
  <2>2. GotStats(w, "none")
    BY <1>3 DEF Computes
  <2>3. PICK o \in Watch : /\ watch' = [watch EXCEPT ![w] = o]
                           /\ o.at \in {"idle", "rule"} /\ WatchOK(o) /\ ReportedOf(o)
    BY <2>1, <2>2, GotStatsMoves
  <2> QED  BY <1>2, <2>3, CheckMovesOn
<1>4. CASE timings # <<>>
  <2> DEFINE stats == Stats(timings)
             o == [watch[w] EXCEPT !.at = "store", !.stats = stats]
  <2>1. watch' = [watch EXCEPT ![w] = o]
    BY <1>1, <1>4 DEF Computes
  <2>2. stats \in {"slow", "fast"} /\ (LongSlow => stats = "slow")
    BY DEF HealthInv, Stats, LongSlow
  <2> HIDE DEF stats
  <2>3. /\ o \in Watch /\ o.at = "store" /\ o.due = watch[w].due /\ o.data = watch[w].data
        /\ o.begun = watch[w].begun /\ o.stats = stats
    BY <1>1, <2>2 DEF Watch, WatchSteps
  <2> HIDE DEF o
  <2>4. WatchOK(o) /\ ReportedOf(o)
    BY <1>1, <2>2, <2>3 DEF WatchOK, ReportedOf
  <2> QED  BY <1>2, <2>1, <2>3, <2>4, CheckMovesOn
<1> QED  BY <1>3, <1>4

\* The statistics are stored, and not yet dated.
LEMMA StoresStatsKeeps ==
    ASSUME HealthInv, NEW w \in Watchers, StoresStats(w),
           UNCHANGED <<snapshot, timings, healthClock, records, slowSince>>, alerts' = alerts
    PROVE  HealthInv'
<1>1. watch[w] \in Watch /\ watch \in [Watchers -> Watch] /\ WatchOK(watch[w]) /\ watch[w].at = "store"
  BY DEF HealthInv, HealthTyped, StoresStats
<1> DEFINE o == [watch[w] EXCEPT !.at = "date"]
<1>2. watch' = [watch EXCEPT ![w] = o]
  BY <1>1 DEF StoresStats
<1>3. /\ o \in Watch /\ o.at = "date" /\ o.due = watch[w].due /\ o.data = watch[w].data
      /\ o.begun = watch[w].begun /\ o.stats = watch[w].stats
  BY <1>1 DEF Watch, WatchSteps
<1> HIDE DEF o
<1>4. WatchOK(o) /\ ReportedOf(o)
  BY <1>1, <1>3 DEF WatchOK, ReportedOf
<1>5. cached' = watch[w].stats /\ watch[w].stats \in {"slow", "fast"} /\ (LongSlow => watch[w].stats = "slow")
  BY <1>1 DEF StoresStats, WatchOK, Watch
<1>6. CachedInTime'
  BY <1>5 DEF CachedInTime, LongSlow
<1>7. cachedAt' = cachedAt /\ lastAlert' = lastAlert /\ seen' = seen
  BY DEF StoresStats
<1>8. /\ lastAlert \in [RuleNames -> Moments] /\ seen \in [RuleNames -> Moments]
      /\ \A r \in RuleNames : lastAlert[r] # NoTime => lastAlert[r] <= healthClock /\ Reported(r, lastAlert[r])
      /\ \A r \in RuleNames : seen[r] # NoTime => seen[r] <= healthClock /\ Reported(r, seen[r] - Cooldown + 1)
  BY DEF HealthInv, HealthTyped, NotAhead, SeenIsAlerted
<1>9. /\ lastAlert' \in [RuleNames -> Moments] /\ seen' \in [RuleNames -> Moments]
      /\ \A r \in RuleNames : lastAlert'[r] # NoTime => lastAlert'[r] <= healthClock /\ Reported(r, lastAlert'[r])
      /\ \A r \in RuleNames : seen'[r] # NoTime =>
           seen'[r] <= healthClock /\ Reported(r, seen'[r] - Cooldown + 1)
  BY ONLY <1>7, <1>8
<1> QED  BY <1>1, <1>2, <1>3, <1>4, <1>5, <1>6, <1>7, <1>9, CheckMoves

\* They are dated.
LEMMA DatesStatsKeeps ==
    ASSUME HealthInv, NEW w \in Watchers, DatesStats(w),
           UNCHANGED <<snapshot, timings, healthClock, records, slowSince>>, alerts' = alerts
    PROVE  HealthInv'
<1>1. /\ watch[w] \in Watch /\ watch \in [Watchers -> Watch] /\ WatchOK(watch[w]) /\ watch[w].at = "date"
      /\ healthClock \in Nat /\ watch[w].begun \in Nat /\ slowSince \in Moments
  BY DEF HealthInv, HealthTyped, DatesStats, Watch
<1>2. slowSince # NoTime /\ slowSince + StatsTtl <= watch[w].begun => watch[w].stats = "slow"
  <2> SUFFICES ASSUME slowSince # NoTime, slowSince + StatsTtl <= watch[w].begun
               PROVE  watch[w].stats = "slow"
    OBVIOUS
  <2>1. slowSince \in Nat /\ watch[w].begun <= healthClock
    BY <1>1 DEF Moments, WatchOK
  <2>2. LongSlow
    BY <1>1, <2>1, HealthBounds DEF LongSlow
  <2> QED  BY <1>1, <2>2 DEF WatchOK
<1>3. PICK o \in Watch : /\ watch' = [watch EXCEPT ![w] = o]
                         /\ o.at \in {"idle", "rule"} /\ WatchOK(o) /\ ReportedOf(o)
  BY <1>2, GotStatsMoves DEF DatesStats
<1>4. cached' = cached /\ cachedAt' = healthClock /\ lastAlert' = lastAlert /\ seen' = seen
  BY DEF DatesStats
<1>5. CachedInTime'
  BY <1>1, <1>4 DEF HealthInv, CachedInTime, LongSlow
<1>6. /\ lastAlert \in [RuleNames -> Moments] /\ seen \in [RuleNames -> Moments] /\ cached \in {"none", "fast", "slow"}
      /\ \A r \in RuleNames : lastAlert[r] # NoTime => lastAlert[r] <= healthClock /\ Reported(r, lastAlert[r])
      /\ \A r \in RuleNames : seen[r] # NoTime => seen[r] <= healthClock /\ Reported(r, seen[r] - Cooldown + 1)
  BY DEF HealthInv, HealthTyped, NotAhead, SeenIsAlerted
<1>7. /\ lastAlert' \in [RuleNames -> Moments] /\ seen' \in [RuleNames -> Moments] /\ cached' \in {"none", "fast", "slow"}
      /\ \A r \in RuleNames : lastAlert'[r] # NoTime => lastAlert'[r] <= healthClock /\ Reported(r, lastAlert'[r])
      /\ \A r \in RuleNames : seen'[r] # NoTime =>
           seen'[r] <= healthClock /\ Reported(r, seen'[r] - Cooldown + 1)
  BY ONLY <1>4, <1>6
<1> QED  BY <1>1, <1>3, <1>4, <1>5, <1>7, CheckMoves

-----------------------------------------------------------------------------
\* A rule was reported: after it comes the next one, or the check is over and all
\* that it had to see was reported.
LEMMA RuleDoneMoves ==
    ASSUME HealthInv, NEW w \in Watchers, watch[w].at \in {"rule", "stamp", "create"}, RuleDone(w)
    PROVE  /\ watch[w].rule \in 1 .. Len(Rules) /\ Rule(w) \in RuleNames
           /\ \E o \in Watch :
               /\ watch' = [watch EXCEPT ![w] = o] /\ WatchOK(o) /\ o.at \in {"idle", "rule"}
               /\ o.at = "rule" => o.begun = watch[w].begun /\ o.due = watch[w].due /\ o.rule = watch[w].rule + 1
           /\ seen' \in [RuleNames -> Moments]
           /\ seen' = seen \/ /\ \A r \in RuleNames : seen'[r] = IF r \in watch[w].due THEN watch[w].begun ELSE NoTime
                              /\ watch[w].rule = Len(Rules)
<1>1. /\ watch[w] \in Watch /\ watch \in [Watchers -> Watch] /\ WatchOK(watch[w])
      /\ watch[w].begun \in Nat /\ watch[w].rule \in 0 .. Len(Rules) /\ seen \in [RuleNames -> Moments]
  BY DEF HealthInv, HealthTyped, Watch
<1>2. watch[w].rule \in 1 .. Len(Rules) /\ Rule(w) \in RuleNames
  <2>1. watch[w].rule \in 1 .. Len(Rules)
    BY <1>1, HealthBounds DEF WatchOK
  <2> QED  BY <2>1, HealthBounds DEF Rule
<1>3. CASE watch[w].rule < Len(Rules)
  <2> DEFINE next == watch[w].rule + 1
             o == [watch[w] EXCEPT !.at = "rule", !.rule = next]
  <2>1. watch' = [watch EXCEPT ![w] = o] /\ seen' = seen
    BY <1>1, <1>3 DEF RuleDone
  <2>2. next \in 0 .. Len(Rules) /\ next # 0
    BY <1>2, <1>3, HealthBounds
  <2> HIDE DEF next
  <2>3. /\ o \in Watch /\ o.at = "rule" /\ o.due = watch[w].due /\ o.data = watch[w].data
        /\ o.begun = watch[w].begun /\ o.rule = next
    BY <1>1, <2>2 DEF Watch, WatchSteps
  <2> HIDE DEF o
  <2>4. WatchOK(o)
    BY <1>1, <2>2, <2>3 DEF WatchOK
  <2> QED  BY <1>1, <1>2, <2>1, <2>3, <2>4 DEF next
<1>4. CASE ~(watch[w].rule < Len(Rules))
  <2>1. /\ watch' = [watch EXCEPT ![w] = NoWatch]
        /\ seen' = [r \in RuleNames |-> IF r \in watch[w].due THEN watch[w].begun ELSE NoTime]
    BY <1>4 DEF RuleDone
  <2>2. seen' \in [RuleNames -> Moments]
    BY <1>1, <2>1 DEF Moments
  <2>3. watch[w].rule = Len(Rules)
    BY <1>2, <1>4, HealthBounds
  <2>4. NoWatch \in Watch /\ NoWatch.at = "idle" /\ WatchOK(NoWatch)
    BY CheckGivesUp
  <2> HIDE DEF NoWatch
  <2> QED  BY <1>2, <2>1, <2>2, <2>3, <2>4
<1> QED  BY <1>3, <1>4

\* The condition and the cooldown are looked at.
LEMMA LooksAtRuleKeeps ==
    ASSUME HealthInv, NEW w \in Watchers, LooksAtRule(w),
           UNCHANGED <<snapshot, timings, healthClock, records, slowSince>>, alerts' = alerts
    PROVE  HealthInv'
<1>1. /\ watch[w] \in Watch /\ watch \in [Watchers -> Watch] /\ WatchOK(watch[w]) /\ watch[w].at = "rule"
      /\ healthClock \in Nat /\ watch[w].begun \in Nat /\ watch[w].begun <= healthClock
  BY DEF HealthInv, HealthTyped, LooksAtRule, Watch, WatchOK
<1>2. cached' = cached /\ cachedAt' = cachedAt /\ lastAlert' = lastAlert
  BY DEF LooksAtRule
<1>3. CASE Rule(w) \in watch[w].data /\ CanAlert(Rule(w))
  <2> DEFINE o == [watch[w] EXCEPT !.at = "stamp"]
  <2>1. watch' = [watch EXCEPT ![w] = o] /\ seen' = seen
    BY <1>1, <1>3 DEF LooksAtRule
  <2>2. /\ o \in Watch /\ o.at = "stamp" /\ o.due = watch[w].due /\ o.data = watch[w].data
        /\ o.begun = watch[w].begun /\ o.rule = watch[w].rule
    BY <1>1 DEF Watch, WatchSteps
  <2> HIDE DEF o
  <2>3. ReportedOf(watch[w])
    BY DEF HealthInv
  <2>4. WatchOK(o) /\ ReportedOf(o)
    BY <1>1, <2>2, <2>3 DEF WatchOK, ReportedOf
  <2> QED  BY <1>1, <1>2, <2>1, <2>2, <2>4, CheckMovesOn
<1>4. CASE ~(Rule(w) \in watch[w].data /\ CanAlert(Rule(w)))
  <2>1. RuleDone(w)
    BY <1>4 DEF LooksAtRule
  <2>2. watch[w].rule \in 1 .. Len(Rules) /\ Rule(w) \in RuleNames
    BY <1>1, <2>1, RuleDoneMoves
  <2>3. Rule(w) \in watch[w].due => Reported(Rule(w), watch[w].begun - Cooldown + 1)
    <3> SUFFICES ASSUME Rule(w) \in watch[w].due
                 PROVE  Reported(Rule(w), watch[w].begun - Cooldown + 1)
      OBVIOUS
    <3>1. ~CanAlert(Rule(w))
      BY <1>1, <1>4 DEF WatchOK
    <3>2. lastAlert[Rule(w)] \in Nat /\ healthClock - lastAlert[Rule(w)] < Cooldown
      BY <1>1, <2>2, <3>1, HealthBounds DEF CanAlert, HealthInv, HealthTyped, Moments
    <3>3. Reported(Rule(w), lastAlert[Rule(w)])
      BY <2>2, <3>2, HealthBounds DEF HealthInv
    <3>4. watch[w].begun - Cooldown + 1 \in Int /\ watch[w].begun - Cooldown + 1 <= lastAlert[Rule(w)]
      BY <1>1, <3>2, HealthBounds
    <3> QED  BY <3>2, <3>3, <3>4, ReportedSince DEF HealthInv, AlertsInOrder
  <2>4. \A k \in 1 .. Len(Rules) : k <= watch[w].rule /\ Rules[k] \in watch[w].due
          => Reported(Rules[k], watch[w].begun - Cooldown + 1)
    <3>1. ReportedOf(watch[w])
      BY DEF HealthInv
    <3> QED  BY <1>1, <2>2, <2>3, <3>1, HealthBounds DEF ReportedOf, Rule
  <2>5. PICK o \in Watch :
           /\ watch' = [watch EXCEPT ![w] = o] /\ WatchOK(o) /\ o.at \in {"idle", "rule"}
           /\ o.at = "rule" => o.begun = watch[w].begun /\ o.due = watch[w].due /\ o.rule = watch[w].rule + 1
    BY <1>1, <2>1, RuleDoneMoves
  <2>6. ReportedOf(o)
    BY <2>2, <2>4, <2>5, HealthBounds DEF ReportedOf
  <2>7. \A r \in RuleNames : seen'[r] # NoTime =>
           seen'[r] <= healthClock /\ Reported(r, seen'[r] - Cooldown + 1)
    <3>1. CASE seen' = seen
      <4>1. \A r \in RuleNames : seen[r] # NoTime => seen[r] <= healthClock /\ Reported(r, seen[r] - Cooldown + 1)
        BY DEF HealthInv, NotAhead, SeenIsAlerted
      <4> QED  BY ONLY <3>1, <4>1
    <3>2. CASE /\ \A r \in RuleNames : seen'[r] = IF r \in watch[w].due THEN watch[w].begun ELSE NoTime
               /\ watch[w].rule = Len(Rules)
      <4> SUFFICES ASSUME NEW r \in RuleNames, r \in watch[w].due
                   PROVE  Reported(r, watch[w].begun - Cooldown + 1)
        BY <1>1, <3>2
      <4>1. PICK k \in 1 .. Len(Rules) : Rules[k] = r
        BY HealthBounds DEF RuleNames, ToSet
      <4> QED  BY <2>2, <2>4, <3>2, <4>1
    <3> QED  BY <1>1, <2>1, <3>1, <3>2, RuleDoneMoves
  <2>8. seen' \in [RuleNames -> Moments]
    BY <1>1, <2>1, RuleDoneMoves
  <2>9. CachedInTime'
    <3>1. \A v \in Watchers : watch'[v].at = "date" => watch[v].at = "date"
      BY <1>1, <2>5
    <3> QED  BY <1>2, <3>1 DEF HealthInv, CachedInTime, LongSlow
  <2>10. /\ lastAlert' \in [RuleNames -> Moments] /\ cached' \in {"none", "fast", "slow"}
         /\ \A r \in RuleNames : lastAlert'[r] # NoTime => lastAlert'[r] <= healthClock /\ Reported(r, lastAlert'[r])
    <3>1. /\ lastAlert \in [RuleNames -> Moments] /\ cached \in {"none", "fast", "slow"}
          /\ \A r \in RuleNames : lastAlert[r] # NoTime => lastAlert[r] <= healthClock /\ Reported(r, lastAlert[r])
      BY DEF HealthInv, HealthTyped, NotAhead
    <3> QED  BY ONLY <1>2, <3>1
  <2> QED  BY <1>1, <1>2, <2>5, <2>6, <2>7, <2>8, <2>9, <2>10, CheckMoves
<1> QED  BY <1>3, <1>4

\* The rule is stamped: the alert is about to be added.
LEMMA StampsRuleKeeps ==
    ASSUME HealthInv, NEW w \in Watchers, StampsRule(w),
           UNCHANGED <<snapshot, timings, healthClock, records, slowSince>>, alerts' = alerts
    PROVE  HealthInv'
<1>1. /\ watch[w] \in Watch /\ watch \in [Watchers -> Watch] /\ WatchOK(watch[w]) /\ watch[w].at = "stamp"
      /\ healthClock \in Nat
  BY DEF HealthInv, HealthTyped, StampsRule
<1> DEFINE o == [watch[w] EXCEPT !.at = "create"]
<1>2. watch' = [watch EXCEPT ![w] = o] /\ cached' = cached /\ cachedAt' = cachedAt /\ seen' = seen
      /\ lastAlert' = [lastAlert EXCEPT ![Rule(w)] = healthClock]
  BY <1>1 DEF StampsRule
<1>3. /\ o \in Watch /\ o.at = "create" /\ o.due = watch[w].due /\ o.data = watch[w].data
      /\ o.begun = watch[w].begun /\ o.rule = watch[w].rule
  BY <1>1 DEF Watch, WatchSteps
<1> HIDE DEF o
<1>4. ReportedOf(watch[w])
  BY DEF HealthInv
<1>5. WatchOK(o) /\ ReportedOf(o)
  BY <1>1, <1>3, <1>4 DEF WatchOK, ReportedOf
<1>6. CachedInTime'
  <2>1. \A v \in Watchers : watch'[v].at = "date" => watch[v].at = "date"
    BY <1>1, <1>2, <1>3
  <2> QED  BY <1>2, <2>1 DEF HealthInv, CachedInTime, LongSlow
<1>7. /\ seen' \in [RuleNames -> Moments] /\ cached' \in {"none", "fast", "slow"}
      /\ \A r \in RuleNames : seen'[r] # NoTime =>
           seen'[r] <= healthClock /\ Reported(r, seen'[r] - Cooldown + 1)
  <2>1. /\ seen \in [RuleNames -> Moments] /\ cached \in {"none", "fast", "slow"}
        /\ \A r \in RuleNames : seen[r] # NoTime => seen[r] <= healthClock /\ Reported(r, seen[r] - Cooldown + 1)
    BY DEF HealthInv, HealthTyped, NotAhead, SeenIsAlerted
  <2> QED  BY ONLY <1>2, <2>1
<1>8. lastAlert \in [RuleNames -> Moments] /\ \A r \in RuleNames : lastAlert[r] # NoTime =>
        lastAlert[r] <= healthClock /\ Reported(r, lastAlert[r])
  BY DEF HealthInv, HealthTyped, NotAhead
<1>9. lastAlert' \in [RuleNames -> Moments]
  BY <1>1, <1>2, <1>8 DEF Moments
<1>10. \A r \in RuleNames : lastAlert'[r] # NoTime =>
         /\ lastAlert'[r] <= healthClock
         /\ Reported(r, lastAlert'[r]) \/ (o.at = "create" /\ Rules[o.rule] = r)
  <2> SUFFICES ASSUME NEW r \in RuleNames, lastAlert'[r] # NoTime
               PROVE  /\ lastAlert'[r] <= healthClock
                      /\ Reported(r, lastAlert'[r]) \/ (o.at = "create" /\ Rules[o.rule] = r)
    OBVIOUS
  <2>1. CASE r = Rule(w)
    <3>1. lastAlert'[r] = healthClock
      BY <1>2, <1>8, <2>1
    <3> QED  BY <1>1, <1>3, <2>1, <3>1 DEF Rule
  <2>2. CASE r # Rule(w)
    <3>1. lastAlert'[r] = lastAlert[r]
      BY <1>2, <1>8, <2>2
    <3> QED  BY ONLY <1>8, <2>2, <3>1, r \in RuleNames, lastAlert'[r] # NoTime
  <2> QED  BY <2>1, <2>2
<1> QED  BY <1>1, <1>2, <1>3, <1>5, <1>6, <1>7, <1>9, <1>10, CheckMoves

\* The alert is added.
LEMMA CreatesAlertKeeps ==
    ASSUME HealthInv, NEW w \in Watchers, CreatesAlert(w),
           UNCHANGED <<snapshot, timings, healthClock, records, slowSince>>
    PROVE  HealthInv'
<1>1. /\ watch[w] \in Watch /\ watch \in [Watchers -> Watch] /\ WatchOK(watch[w]) /\ watch[w].at = "create"
      /\ healthClock \in Nat /\ watch[w].begun \in Nat /\ watch[w].begun <= healthClock /\ watch[w].rule # 0
  BY DEF HealthInv, HealthTyped, CreatesAlert, Watch, WatchOK
<1>2. cached' = cached /\ cachedAt' = cachedAt /\ lastAlert' = lastAlert /\ RuleDone(w)
  BY DEF CreatesAlert
<1>3. PICK o \in Watch :
         /\ watch' = [watch EXCEPT ![w] = o] /\ WatchOK(o) /\ o.at \in {"idle", "rule"}
         /\ o.at = "rule" => o.begun = watch[w].begun /\ o.due = watch[w].due /\ o.rule = watch[w].rule + 1
  BY <1>1, <1>2, RuleDoneMoves
<1>4. watch'[w] = o /\ \A v \in Watchers \ {w} : watch'[v] = watch[v]
  BY <1>1, <1>3
<1>5. PICK q, now, rule, begun, owed :
         q = Rule(w) /\ now = healthClock /\ rule = watch[w].rule /\ begun = watch[w].begun /\ owed = watch[w].due
  OBVIOUS
<1>6. /\ AlertsInOrder' /\ Reported(q, now)'
      /\ \A r : \A since \in Int : since <= healthClock /\ Reported(r, since) => Reported(r, since)'
  BY <1>1, <1>4, <1>5, ReportsPass DEF HealthInv, CreatesAlert
<1>7. \A k \in 1 .. Len(Rules) : k <= rule /\ Rules[k] \in owed => Reported(Rules[k], begun - Cooldown + 1)'
  <2> SUFFICES ASSUME NEW k \in 1 .. Len(Rules), k <= rule, Rules[k] \in owed
               PROVE  Reported(Rules[k], begun - Cooldown + 1)'
    OBVIOUS
  <2>1. begun - Cooldown + 1 \in Int /\ begun - Cooldown + 1 <= now /\ now \in Nat /\ begun - Cooldown + 1 <= healthClock
    BY <1>1, <1>5, HealthBounds
  <2>2. CASE k = rule
    <3>1. Rules[k] = q
      BY <1>5, <2>2 DEF Rule
    <3>2. Reported(q, now)' => Reported(q, begun - Cooldown + 1)'
      <4>1. alerts' \in Seq(Alert)
        BY <1>6 DEF AlertsInOrder
      <4>2. \A i \in DOMAIN alerts' : alerts'[i].time \in Nat
        <5>1. \A i \in DOMAIN alerts' : alerts'[i] \in Alert
          BY <4>1
        <5> QED  BY <5>1 DEF Alert
      <4>3. \A i \in DOMAIN alerts' : alerts'[i].time >= now => alerts'[i].time >= begun - Cooldown + 1
        BY ONLY <2>1, <4>2
      <4> QED  BY <4>3 DEF Reported
    <3> QED  BY <1>6, <3>1, <3>2
  <2>3. CASE k # rule
    <3>1. ReportedOf(watch[w])
      BY DEF HealthInv
    <3>2. rule \in 0 .. Len(Rules)
      BY <1>1, <1>5 DEF Watch
    <3>3. k < rule
      BY <2>3, <3>2
    <3>4. Reported(Rules[k], begun - Cooldown + 1)
      BY <1>1, <1>5, <3>1, <3>3 DEF ReportedOf
    <3> QED  BY <1>6, <2>1, <3>4
  <2> QED  BY <2>2, <2>3
<1>8. HealthTyped'
  <2>1. watch' \in [Watchers -> Watch] /\ seen' \in [RuleNames -> Moments]
    BY <1>1, <1>2, <1>3, RuleDoneMoves
  <2> QED  BY <1>2, <2>1 DEF HealthInv, HealthTyped
<1>9. /\ seen' = seen \/ /\ \A r \in RuleNames : seen'[r] = IF r \in owed THEN begun ELSE NoTime
                         /\ rule = Len(Rules)
      /\ rule \in 1 .. Len(Rules)
  BY <1>1, <1>2, <1>5, RuleDoneMoves
<1>10. NotAhead'
  <2>1. \A r \in RuleNames : seen'[r] # NoTime => seen'[r] <= healthClock
    BY <1>1, <1>5, <1>9 DEF HealthInv, NotAhead
  <2> QED  BY <1>2, <2>1 DEF HealthInv, NotAhead
<1>11. (slowSince # NoTime <=> P95Slow(timings))' /\ CachedInTime'
  <2>1. \A v \in Watchers : watch'[v].at = "date" => watch[v].at = "date"
    BY <1>3, <1>4
  <2> QED  BY <1>2, <2>1 DEF HealthInv, CachedInTime, LongSlow
<1>12. \A v \in Watchers : WatchOK(watch[v])'
  <2> SUFFICES ASSUME NEW v \in Watchers
               PROVE  WatchOK(watch[v])'
    OBVIOUS
  <2>1. PICK p : p = watch'[v] /\ WatchOK(p)
    BY <1>3, <1>4 DEF HealthInv
  <2> QED  BY <1>2, <2>1 DEF WatchOK, LongSlow
<1>13. \A v \in Watchers : ReportedOf(watch[v])'
  <2> SUFFICES ASSUME NEW v \in Watchers
               PROVE  ReportedOf(watch[v])'
    OBVIOUS
  <2>1. CASE v = w
    <3>1. o.at = "rule" => o.begun = begun /\ o.due = owed /\ o.rule = rule + 1
      BY <1>3, <1>5
    <3>2. o.at \in {"rule", "stamp", "create"} => o.at = "rule"
      BY <1>3
    <3>3. \A k \in 1 .. Len(Rules) : k < rule + 1 => k <= rule
      BY <1>9, HealthBounds
    <3> QED  BY <1>4, <1>7, <2>1, <3>1, <3>2, <3>3 DEF ReportedOf
  <2>2. CASE v # w
    <3>1. PICK p : p = watch[v] /\ p = watch'[v] /\ ReportedOf(p) /\ WatchOK(p) /\ p.begun \in Nat
      BY <1>1, <1>4, <2>2 DEF HealthInv, Watch
    <3>2. p.begun - Cooldown + 1 \in Int /\ p.begun - Cooldown + 1 <= healthClock
      BY <1>1, <3>1, HealthBounds DEF WatchOK
    <3>3. \A k \in 1 .. Len(Rules) : Reported(Rules[k], p.begun - Cooldown + 1)
                                       => Reported(Rules[k], p.begun - Cooldown + 1)'
      BY <1>6, <3>2
    <3> QED  BY <3>1, <3>3 DEF ReportedOf
  <2> QED  BY <2>1, <2>2
<1>14. (\A r \in RuleNames : lastAlert[r] # NoTime => Reported(r, lastAlert[r]))'
  <2> SUFFICES ASSUME NEW r \in RuleNames, lastAlert'[r] # NoTime
               PROVE  Reported(r, lastAlert[r])'
    OBVIOUS
  <2>1. PICK t : t = lastAlert'[r] /\ t = lastAlert[r]
    BY <1>2
  <2>2. t \in Int /\ t <= healthClock /\ Reported(r, t)
    BY <2>1 DEF HealthInv, HealthTyped, NotAhead, Moments
  <2>3. Reported(r, t)'
    BY <1>6, <2>2
  <2> QED  BY <2>1, <2>3 DEF Reported
<1>15. SeenIsAlerted'
  <2> SUFFICES ASSUME NEW r \in RuleNames, seen'[r] # NoTime
               PROVE  Reported(r, seen[r] - Cooldown + 1)'
    BY DEF SeenIsAlerted
  <2>1. CASE seen' = seen
    <3>1. PICK t : t = seen'[r] /\ t = seen[r]
      BY <2>1
    <3>2. t \in Nat /\ t <= healthClock /\ Reported(r, t - Cooldown + 1)
      BY <3>1 DEF HealthInv, HealthTyped, NotAhead, SeenIsAlerted, Moments
    <3>3. t - Cooldown + 1 \in Int /\ t - Cooldown + 1 <= healthClock
      BY <1>1, <3>2, HealthBounds
    <3>4. Reported(r, t - Cooldown + 1)'
      BY <1>6, <3>2, <3>3
    <3> QED  BY <3>1, <3>4 DEF Reported
  <2>2. CASE ~(seen' = seen)
    <3>1. seen'[r] = begun /\ r \in owed /\ rule = Len(Rules)
      BY <1>9, <2>2
    <3>2. PICK k \in 1 .. Len(Rules) : Rules[k] = r
      BY HealthBounds DEF RuleNames, ToSet
    <3>3. k <= rule
      BY <3>1, HealthBounds
    <3>4. Reported(r, begun - Cooldown + 1)'
      BY <1>7, <3>1, <3>2, <3>3
    <3> QED  BY <3>1, <3>4 DEF Reported
  <2> QED  BY <2>1, <2>2
<1> QED  BY <1>6, <1>8, <1>10, <1>11, <1>12, <1>13, <1>14, <1>15 DEF HealthInv

-----------------------------------------------------------------------------
\* The steps that no check takes change nothing of what was reported.
LEMMA ChecksStay ==
    ASSUME HealthInv, UNCHANGED <<lastAlert, alerts, watch, seen>>, healthClock' \in Nat, healthClock <= healthClock'
    PROVE  /\ AlertsInOrder' /\ SeenIsAlerted'
           /\ (\A r \in RuleNames : lastAlert[r] # NoTime => Reported(r, lastAlert[r]))'
           /\ \A w \in Watchers : ReportedOf(watch[w])'
<1>1. \A r, since : Reported(r, since) => Reported(r, since)'
  BY ReportsStay
<1>2. AlertsInOrder'
  <2>1. \A i \in 1 .. Len(alerts) : alerts[i].time \in Nat
    <3>1. \A i \in 1 .. Len(alerts) : alerts[i] \in Alert
      BY DEF HealthInv, AlertsInOrder
    <3> QED  BY <3>1 DEF Alert
  <2>2. healthClock \in Nat
    BY DEF HealthInv, HealthTyped
  <2> QED  BY <2>1, <2>2 DEF HealthInv, AlertsInOrder
<1>3. SeenIsAlerted'
  BY <1>1 DEF HealthInv, SeenIsAlerted, Reported, Rule
<1>4. (\A r \in RuleNames : lastAlert[r] # NoTime => Reported(r, lastAlert[r]))'
  BY <1>1 DEF HealthInv, Reported, Rule
<1>5. \A w \in Watchers : ReportedOf(watch[w])'
  BY <1>1 DEF HealthInv, ReportedOf, Reported, Rule
<1> QED  BY <1>2, <1>3, <1>4, <1>5

\* Metrics are sampled.
LEMMA SampleKeeps ==
    ASSUME HealthInv, Sample
    PROVE  HealthInv'
<1>1. healthClock \in Nat
  BY DEF HealthInv, HealthTyped
<1>2. UNCHANGED <<timings, cached, cachedAt, lastAlert, alerts, watch, healthClock, records, slowSince, seen>>
  BY DEF Sample
<1>3. HealthTyped'
  BY DEF Sample, HealthInv, HealthTyped
<1>4. NotAhead' /\ (slowSince # NoTime <=> P95Slow(timings))' /\ CachedInTime'
      /\ \A w \in Watchers : WatchOK(watch[w])'
  BY <1>2 DEF HealthInv, NotAhead, CachedInTime, WatchOK, LongSlow
<1> QED  BY <1>1, <1>2, <1>3, <1>4, ChecksStay DEF HealthInv

\* The timings are other ones, and the operation is slow from now on or as long
\* as before.
LEMMA KeepsTimingsKeeps ==
    ASSUME HealthInv, NEW durations \in Seq(BOOLEAN), Len(durations) <= HistoryMax, KeepsTimings(durations),
           records' \in 0 .. RecordsMax
    PROVE  HealthInv'
<1>1. healthClock \in Nat /\ slowSince \in Moments
  BY DEF HealthInv, HealthTyped
<1>2. /\ UNCHANGED <<snapshot, cachedAt, lastAlert, alerts, watch, healthClock, seen>>
      /\ timings' = durations /\ cached' = "none"
  BY DEF KeepsTimings
<1>3. /\ slowSince' = IF ~P95Slow(durations) THEN NoTime ELSE IF slowSince = NoTime THEN healthClock ELSE slowSince
      /\ slowSince' \in Moments
  BY <1>1 DEF KeepsTimings, Moments
<1>4. (slowSince # NoTime <=> P95Slow(timings))'
  <2>1. P95Slow(timings)' = P95Slow(durations)
    BY <1>2 DEF P95Slow
  <2> QED  BY <1>1, <1>3, <2>1, HealthBounds
<1>5. LongSlow' => LongSlow
  BY <1>1, <1>2, <1>3 DEF LongSlow
<1>6. HealthTyped'
  BY <1>2, <1>3 DEF HealthInv, HealthTyped
<1>7. NotAhead' /\ CachedInTime' /\ \A w \in Watchers : WatchOK(watch[w])'
  BY <1>1, <1>2, <1>3, <1>5 DEF HealthInv, NotAhead, CachedInTime, WatchOK
<1>8. UNCHANGED <<lastAlert, alerts, watch, seen>> /\ healthClock' \in Nat /\ healthClock <= healthClock'
  BY <1>1, <1>2
<1> QED  BY <1>4, <1>6, <1>7, <1>8, ChecksStay DEF HealthInv

\* A duration is recorded, and the oldest one goes; all are cleared.
LEMMA RecordKeeps ==
    ASSUME HealthInv, Record \/ ClearTimings
    PROVE  HealthInv'
<1>1. records \in 0 .. RecordsMax /\ timings \in Seq(BOOLEAN) /\ HistoryMax \in Nat /\ HistoryMax >= 1
      /\ RecordsMax \in Nat
  BY HealthBounds DEF HealthInv, HealthTyped
<1>2. CASE Record
  <2>1. PICK slow \in BOOLEAN :
           LET all == Append(timings, slow) IN
           KeepsTimings(SubSeq(all, Len(all) - (IF Len(all) > HistoryMax THEN HistoryMax ELSE Len(all)) + 1, Len(all)))
    BY <1>2 DEF Record
  <2> DEFINE all == Append(timings, slow)
             n == Len(all)
             k == IF n > HistoryMax THEN HistoryMax ELSE n
             trimmed == SubSeq(all, n - k + 1, n)
  <2>2. all \in Seq(BOOLEAN) /\ n \in Nat
    BY <1>1
  <2>3. k \in Nat /\ k <= n /\ k <= HistoryMax
    BY <1>1, <2>2
  <2> HIDE DEF all, n, k
  <2>4. n = Len(all) /\ n - k + 1 \in 1 .. n + 1
    BY <2>2, <2>3 DEF n
  <2>5. trimmed \in Seq(BOOLEAN) /\ Len(trimmed) = k
    BY <2>2, <2>3, <2>4
  <2>6. KeepsTimings(trimmed)
    BY <2>1 DEF all, n, k
  <2>7. records' \in 0 .. RecordsMax
    BY <1>1, <1>2 DEF Record
  <2> HIDE DEF trimmed
  <2> QED  BY <2>3, <2>5, <2>6, <2>7, KeepsTimingsKeeps
<1>3. CASE ClearTimings
  <2>1. KeepsTimings(<<>>) /\ records' = records
    BY <1>3 DEF ClearTimings
  <2>2. <<>> \in Seq(BOOLEAN) /\ Len(<<>>) <= HistoryMax
    BY <1>1
  <2> QED  BY <1>1, <2>1, <2>2, KeepsTimingsKeeps
<1> QED  BY <1>2, <1>3

\* Time passes, while nobody is on the way from the timings to the date.
LEMMA HealthTickKeeps ==
    ASSUME HealthInv, HealthTick
    PROVE  HealthInv'
<1>1. healthClock \in Nat /\ healthClock' = healthClock + 1 /\ slowSince \in Moments /\ cachedAt \in Moments
  BY DEF HealthInv, HealthTyped, HealthTick
<1>2. UNCHANGED <<snapshot, timings, cached, cachedAt, lastAlert, alerts, watch, records, slowSince, seen>>
      /\ \A w \in Watchers : watch[w].at \notin {"store", "date"}
  BY DEF HealthTick
<1>3. HealthTyped'
  BY <1>1, <1>2 DEF HealthInv, HealthTyped
<1>4. NotAhead'
  BY <1>1, <1>2 DEF HealthInv, HealthTyped, NotAhead, Moments
<1>5. (slowSince # NoTime <=> P95Slow(timings))'
  BY <1>2 DEF HealthInv, P95Slow
<1>6. CachedInTime'
  <2> SUFFICES ASSUME cached = "fast", slowSince # NoTime, slowSince < healthClock + 1
               PROVE  cachedAt # NoTime => cachedAt <= slowSince
    BY <1>1, <1>2 DEF CachedInTime, LongSlow
  <2>1. slowSince \in Nat /\ (cachedAt # NoTime => cachedAt \in Nat)
    BY <1>1 DEF Moments
  <2>2. CASE slowSince < healthClock
    BY <2>2 DEF HealthInv, CachedInTime, LongSlow
  <2>3. CASE ~(slowSince < healthClock)
    <3>1. slowSince = healthClock
      BY <1>1, <2>1, <2>3
    <3> QED  BY <2>1, <3>1 DEF HealthInv, NotAhead
  <2> QED  BY <2>2, <2>3
<1>7. \A w \in Watchers : WatchOK(watch[w])'
  <2> SUFFICES ASSUME NEW w \in Watchers
               PROVE  WatchOK(watch[w])'
    OBVIOUS
  <2>1. PICK o : o = watch[w] /\ o = watch'[w] /\ WatchOK(o) /\ o.begun \in Nat /\ o.at \notin {"store", "date"}
    BY <1>2 DEF HealthInv, HealthTyped, Watch
  <2>2. o.begun <= healthClock'
    BY <1>1, <2>1 DEF WatchOK
  <2> QED  BY <1>2, <2>1, <2>2 DEF WatchOK
<1>8. UNCHANGED <<lastAlert, alerts, watch, seen>> /\ healthClock' \in Nat /\ healthClock <= healthClock'
  BY <1>1, <1>2
<1> QED  BY <1>3, <1>4, <1>5, <1>6, <1>7, <1>8, ChecksStay DEF HealthInv

\* Nothing is known at first, and nobody checks.
LEMMA HealthBegins == HealthInit => HealthInv
<1> SUFFICES ASSUME HealthInit
             PROVE  HealthInv
  OBVIOUS
<1>1. /\ NoWatch \in Watch /\ NoWatch.at = "idle" /\ NoWatch.due = {} /\ NoWatch.begun = 0
  BY HealthBounds DEF NoWatch, Watch, WatchSteps
<1> HIDE DEF NoWatch
<1>2. HealthTyped /\ AlertsInOrder /\ NotAhead
  BY <1>1, HealthBounds DEF HealthInit, HealthTyped, AlertsInOrder, NotAhead, Moments
<1>3. slowSince = NoTime /\ ~P95Slow(timings) /\ cached = "none"
  BY DEF HealthInit, P95Slow
<1>4. \A w \in Watchers : watch[w] = NoWatch
  BY DEF HealthInit
<1>5. \A w \in Watchers : WatchOK(watch[w]) /\ ReportedOf(watch[w])
  BY <1>1, <1>4 DEF WatchOK, ReportedOf, HealthInit
<1>6. \A r \in RuleNames : lastAlert[r] = NoTime /\ seen[r] = NoTime
  BY DEF HealthInit
<1> QED  BY <1>2, <1>3, <1>5, <1>6 DEF HealthInv, CachedInTime, SeenIsAlerted

\* Every step keeps the invariant.
LEMMA HealthStep == HealthInv /\ [HealthNext]_healthVars => HealthInv'
<1> SUFFICES ASSUME HealthInv, [HealthNext]_healthVars
             PROVE  HealthInv'
  OBVIOUS
<1>1. CASE Sample
  BY <1>1, SampleKeeps
<1>2. CASE Record \/ ClearTimings
  BY <1>2, RecordKeeps
<1>3. ASSUME NEW w \in Watchers, UNCHANGED <<snapshot, timings, healthClock, records, slowSince>>,
             \/ BeginsCheck(w) \/ ReadsAge(w) \/ ReadsEntry(w)
             \/ Computes(w) \/ StoresStats(w) \/ DatesStats(w)
             \/ LooksAtRule(w) \/ StampsRule(w) \/ CreatesAlert(w)
      PROVE  HealthInv'
  <2>1. CASE CreatesAlert(w)
    BY <1>3, <2>1, CreatesAlertKeeps
  <2>2. CASE ~CreatesAlert(w)
    <3>1. alerts' = alerts
      BY <1>3, <2>2 DEF BeginsCheck, ReadsAge, ReadsEntry, Computes, StoresStats, DatesStats, LooksAtRule, StampsRule
    <3> QED  BY <1>3, <2>2, <3>1, BeginsCheckKeeps, ReadsKeep, ComputesKeeps, StoresStatsKeeps, DatesStatsKeeps,
                LooksAtRuleKeeps, StampsRuleKeeps
  <2> QED  BY <2>1, <2>2
<1>4. CASE HealthTick
  BY <1>4, HealthTickKeeps
<1>5. CASE UNCHANGED healthVars
  <2>1. UNCHANGED <<lastAlert, alerts, watch, seen>> /\ healthClock' \in Nat /\ healthClock <= healthClock'
    BY <1>5 DEF healthVars, HealthInv, HealthTyped
  <2> QED  BY <1>5, <2>1, ChecksStay
           DEF healthVars, HealthInv, HealthTyped, NotAhead, CachedInTime, WatchOK, LongSlow, P95Slow
<1> QED  BY <1>1, <1>2, <1>3, <1>4, <1>5 DEF HealthNext

\* Trouble that a check had to see is reported when the check is over, whichever
\* thread stamped the rule, and through what is recorded, deleted and computed
\* meanwhile (get_stats, check_alerts); for any rules, threads and bounds.
THEOREM SeenStaysAlerted == HealthSpec => []SeenIsAlerted
<1>1. HealthInv => SeenIsAlerted
  BY DEF HealthInv
<1> QED  BY <1>1, HealthBegins, HealthStep, PTL DEF HealthSpec

\* The state of the monitor is well typed.
LEMMA HealthMeans == HealthInv => HealthTypeOK
  BY HealthBounds DEF HealthInv, HealthTyped, AlertsInOrder, HealthTypeOK, Watch

\* The types of the monitor's state, with the bounds on timings and alerts.
THEOREM HealthTypesHold == HealthSpec => []HealthTypeOK
  BY HealthMeans, HealthBegins, HealthStep, PTL DEF HealthSpec
=============================================================================
