--------------------------- MODULE Session_proofs ---------------------------
(***************************************************************************)
(* What Session keeps for any threads, questions, pages and limits.        *)
(***************************************************************************)
EXTENDS Session, TLAPS

\* What the assumptions say of each limit.
LEMMA Limits ==
    /\ ResultNums \subseteq Nat /\ Outcomes \subseteq BOOLEAN
    /\ MaxHistory \in Nat \ {0} /\ MaxPages \in Nat \ {0} /\ MaxTurns \in Nat \ {0}
    /\ Turns \subseteq 0 .. MaxTurns /\ 0 \in 0 .. MaxTurns
    /\ Turns = (0 .. MaxTurns) \ {0}
  BY NumberAssumption, LimitAssumption DEF Turns

\* A thread on the way from its question to the save.
Busy(t) == job[t].at \in {"route", "load", "generate", "trim", "evict"}

TypeInv == Typed /\ \A t \in Threads : Busy(t) => job[t].turn \in Turns

\* What json.dump writes is typed as what is dumped, and is what json.load returns.
LEMMA StoredPages ==
    ASSUME NEW p \in [PageKey -> Nat]
    PROVE  /\ AsStored(p) \in [PageKey -> Nat]
           /\ AsStored(AsStored(p)) = AsStored(p)
<1>1. \A k \in PageKey : <<"int", k[2]>> \in PageKey /\ k[1] \in {"int", "str"}
  BY DEF PageKey
<1>2. AsStored(p) \in [PageKey -> Nat]
  BY <1>1 DEF AsStored
<1>3. \A k \in PageKey : AsStored(p)[<<"int", k[2]>>] = 0
  BY <1>1 DEF AsStored
<1>4. ASSUME NEW k \in PageKey PROVE AsStored(AsStored(p))[k] = AsStored(p)[k]
  BY <1>1, <1>2, <1>3 DEF AsStored
<1>5. AsStored(AsStored(p)) \in [PageKey -> Nat]
  BY <1>1, <1>2 DEF AsStored
<1>6. AsStored(AsStored(p)) = AsStored(p)
  BY <1>2, <1>4, <1>5
<1> QED
  BY <1>2, <1>6

\* An empty session is what is stored of one.
LEMMA EmptyStored ==
    /\ NoPages \in [PageKey -> Nat]
    /\ AsStored(NoPages) = NoPages
<1>1. NoPages \in [PageKey -> Nat]
  BY DEF NoPages
<1>2. \A k \in PageKey : <<"int", k[2]>> \in PageKey
  BY DEF PageKey
<1>3. \A k \in PageKey : AsStored(NoPages)[k] = NoPages[k]
  BY <1>2 DEF AsStored, NoPages
<1>4. AsStored(NoPages) \in [PageKey -> Nat]
  BY <1>1, StoredPages
<1> QED
  BY <1>1, <1>3, <1>4

\* The session can be dumped at any time; its image is neither mark.
LEMMA CurrentTyped ==
    ASSUME Typed
    PROVE  /\ Current \in Snapshot /\ Empty \in Snapshot
           /\ Current # None /\ Current # Garbled
<1>1. Current \in Snapshot
  BY StoredPages DEF Typed, Current, Snapshot
<1>2. Empty \in Snapshot
  <2>1. <<>> \in Seq(Turns)
    OBVIOUS
  <2> QED
    BY <2>1, EmptyStored, Limits DEF Empty, Snapshot
<1> QED
  BY <1>1, <1>2, MarkAssumption

\* The slice of a history is a history.
LEMMA LastTyped ==
    ASSUME NEW s \in Seq(Turns), NEW n \in Nat \ {0}
    PROVE  Last(s, n) \in Seq(Turns)
  BY DEF Last

\* The slice has no entry of its own.
LEMMA LastElements ==
    ASSUME NEW s \in Seq(Turns), NEW n \in Nat \ {0}
    PROVE  \A i \in DOMAIN Last(s, n) : \E j \in DOMAIN s : Last(s, n)[i] = s[j]
<1>1. CASE Len(s) > n
  <2>1. /\ Last(s, n) = SubSeq(s, Len(s) - n + 1, Len(s)) /\ Len(s) \in Nat
        /\ DOMAIN Last(s, n) = 1 .. n
    BY <1>1 DEF Last
  <2>2. ASSUME NEW i \in DOMAIN Last(s, n) PROVE \E j \in DOMAIN s : Last(s, n)[i] = s[j]
    <3>1. i + Len(s) - n \in DOMAIN s /\ Last(s, n)[i] = s[i + Len(s) - n]
      BY <1>1, <2>1
    <3> QED
      BY <3>1
  <2> QED
    BY <2>2
<1>2. CASE ~(Len(s) > n)
  BY <1>2 DEF Last
<1> QED
  BY <1>1, <1>2

\* What a thread that is idle knows.
LEMMA IdleTyped == Idle \in Job /\ Idle.at = "idle"
<1>1. <<>> \in Seq(Turns) /\ {} \in SUBSET PageKey
  OBVIOUS
<1>2. Idle \in Job
  BY <1>1, Limits DEF Idle, Job, Labels
<1> QED
  BY <1>2 DEF Idle

\* The first state is well typed.
LEMMA InitTypes == Init => TypeInv
<1> SUFFICES ASSUME Init PROVE TypeInv
  OBVIOUS
<1>1. job \in [Threads -> Job] /\ \A t \in Threads : job[t].at = "idle"
  BY IdleTyped DEF Init
<1>2. history \in Seq(Turns)
  BY DEF Init
<1>3. Typed
  BY <1>1, <1>2, EmptyStored, Limits DEF Init, Typed
<1> QED
  BY <1>1, <1>3 DEF TypeInv, Busy

\* A thread that takes a step gets a record of the right type.
LEMMA JobStep ==
    ASSUME TypeInv, NEW t \in Threads, NEW r \in Job,
           r.at \in {"route", "load", "generate", "trim", "evict"} => r.turn \in Turns,
           job' = [job EXCEPT ![t] = r]
    PROVE  /\ job' \in [Threads -> Job]
           /\ \A u \in Threads : Busy(u)' => job'[u].turn \in Turns
  BY DEF TypeInv, Typed, Busy

\* Type correctness is preserved by every step.
LEMMA NextTypes == TypeInv /\ [Next]_vars => TypeInv'
<1> SUFFICES ASSUME TypeInv, [Next]_vars PROVE TypeInv'
  OBVIOUS
<1> USE Limits, IdleTyped
<1>0. \A t \in Threads : job[t] \in Job
  BY DEF TypeInv, Typed
<1>1. CASE UNCHANGED vars
  BY <1>1 DEF vars, state, disk, marks, TypeInv, Typed, Busy
<1>2. ASSUME NEW t \in Threads, AskFresh(t) PROVE TypeInv'
  <2>1. turns' \in Turns /\ crossed' \in BOOLEAN
    <3>1. turns' \in Turns
      BY <1>2 DEF AskFresh, BeginQuery, TypeInv, Typed
    <3>2. crossed' \in BOOLEAN
      BY <1>2 DEF AskFresh, BeginQuery
    <3> QED
      BY <3>1, <3>2
  <2>2. PICK q \in Questions \union {None} :
           /\ cache' = IF q = None THEN cache ELSE [cache EXCEPT ![q] = None]
           /\ job' = [job EXCEPT ![t] = [Idle EXCEPT !.at = "route", !.turn = turns', !.key = q]]
    BY <1>2 DEF AskFresh
  <2>3. [Idle EXCEPT !.at = "route", !.turn = turns', !.key = q] \in Job
    BY <2>1 DEF Job, Labels
  <2>4. [Idle EXCEPT !.at = "route", !.turn = turns', !.key = q].turn \in Turns
    BY <2>1 DEF Idle
  <2>5. job' \in [Threads -> Job] /\ \A u \in Threads : Busy(u)' => job'[u].turn \in Turns
    BY <2>2, <2>3, <2>4, JobStep
  <2>6. cache' \in [Questions -> Answer \union {None}]
    BY <2>2 DEF TypeInv, Typed
  <2> QED
    BY <1>2, <2>1, <2>5, <2>6 DEF AskFresh, state, disk, TypeInv, Typed
<1>3. ASSUME NEW t \in Threads, AskAboutResults(t) PROVE TypeInv'
  <2>1. turns' \in Turns /\ crossed' \in BOOLEAN
    <3>1. turns' \in Turns
      BY <1>3 DEF AskAboutResults, BeginQuery, TypeInv, Typed
    <3>2. crossed' \in BOOLEAN
      BY <1>3 DEF AskAboutResults, BeginQuery
    <3> QED
      BY <3>1, <3>2
  <2>0. PICK n \in ResultNums :
           job' = [job EXCEPT ![t] =
              IF results = 0 THEN [Idle EXCEPT !.at = "generate", !.turn = turns']
              ELSE [Idle EXCEPT !.at = "load", !.turn = turns', !.num = n]]
    BY <1>3 DEF AskAboutResults
  <2> DEFINE g == [Idle EXCEPT !.at = "generate", !.turn = turns']
             l == [Idle EXCEPT !.at = "load", !.turn = turns', !.num = n]
             r == IF results = 0 THEN g ELSE l
  <2>2. r \in Job /\ r.turn \in Turns
    <3>1. g \in Job /\ g.turn = turns'
      BY <2>1, IdleTyped DEF Job, Labels, Idle
    <3>2. l \in Job /\ l.turn = turns'
      BY <2>1, IdleTyped DEF Job, Labels, Idle
    <3> QED
      BY <3>1, <3>2, <2>1
  <2>3. job' = [job EXCEPT ![t] = r]
    BY <2>0
  <2>4. job' \in [Threads -> Job] /\ \A u \in Threads : Busy(u)' => job'[u].turn \in Turns
    BY <2>2, <2>3, JobStep
  <2> QED
    BY <1>3, <2>1, <2>4 DEF AskAboutResults, state, disk, TypeInv, Typed
<1>4. ASSUME NEW t \in Threads, Search(t) PROVE TypeInv'
  <2> DEFINE r == [job[t] EXCEPT !.at = "generate"]
  <2>1. r \in Job /\ (r.at \in {"route", "load", "generate", "trim", "evict"} => r.turn \in Turns)
    BY <1>0, <1>4 DEF Search, At, Asking, TypeInv, Busy, Job, Labels
  <2>2. job' = [job EXCEPT ![t] = r]
    BY <1>4 DEF Search, Goto, Done, TypeInv, Typed
  <2>3. job' \in [Threads -> Job] /\ \A u \in Threads : Busy(u)' => job'[u].turn \in Turns
    BY <2>1, <2>2, JobStep
  <2>4. results' \in 0 .. MaxTurns
    BY <1>0, <1>4 DEF Search, Job
  <2> QED
    BY <1>4, <2>3, <2>4 DEF Search, state, disk, marks, TypeInv, Typed
<1>5. ASSUME NEW t \in Threads, LoadPage(t) PROVE TypeInv'
  <2>1. PICK r \in {[job[t] EXCEPT !.at = "generate", !.num = 0]} \union
                    {[job[t] EXCEPT !.num = n] : n \in ResultNums} :
           job' = [job EXCEPT ![t] = r]
    <3>1. CASE job' = [job EXCEPT ![t] = [@ EXCEPT !.at = "generate", !.num = 0]]
      BY <3>1 DEF TypeInv, Typed
    <3>2. CASE \E n \in ResultNums : job' = [job EXCEPT ![t].num = n]
      BY <3>2 DEF TypeInv, Typed
    <3> QED
      BY <1>5, <3>1, <3>2 DEF LoadPage
  <2>2. r \in Job /\ (r.at \in {"route", "load", "generate", "trim", "evict"} => r.turn \in Turns)
    <3>1. job[t] \in Job /\ job[t].at = "load" /\ job[t].turn \in Turns
      BY <1>0, <1>5 DEF LoadPage, At, TypeInv, Busy
    <3>2. [job[t] EXCEPT !.at = "generate", !.num = 0] \in Job
      BY <3>1 DEF Job, Labels
    <3>3. \A n \in ResultNums : [job[t] EXCEPT !.num = n] \in Job
      BY <3>1 DEF Job
    <3>4. [job[t] EXCEPT !.at = "generate", !.num = 0].turn = job[t].turn
      BY <3>1 DEF Job
    <3>5. \A n \in ResultNums : [job[t] EXCEPT !.num = n].turn = job[t].turn
      BY <3>1 DEF Job
    <3> QED
      BY <2>1, <3>1, <3>2, <3>3, <3>4, <3>5
  <2>3. job' = [job EXCEPT ![t] = r]
    BY <2>1
  <2>4. job' \in [Threads -> Job] /\ \A u \in Threads : Busy(u)' => job'[u].turn \in Turns
    BY <2>2, <2>3, JobStep
  <2>5. pages' \in [PageKey -> Nat]
    <3>1. \A k : AsYoungest(k) \in [PageKey -> Nat]
      BY DEF AsYoungest, TypeInv, Typed
    <3> QED
      BY <3>1, <1>5 DEF LoadPage, TypeInv, Typed
  <2> QED
    BY <1>5, <2>4, <2>5 DEF LoadPage, disk, marks, TypeInv, Typed
<1>6. ASSUME NEW t \in Threads, QueryFails(t) PROVE TypeInv'
  <2> DEFINE r == Idle
  <2>1. r \in Job /\ (r.at \in {"route", "load", "generate", "trim", "evict"} => r.turn \in Turns)
    BY <1>0, <1>6 DEF QueryFails, At, Asking, TypeInv, Busy, Job, Labels
  <2>2. job' = [job EXCEPT ![t] = r]
    BY <1>6 DEF QueryFails, Goto, Done, TypeInv, Typed
  <2>3. job' \in [Threads -> Job] /\ \A u \in Threads : Busy(u)' => job'[u].turn \in Turns
    BY <2>1, <2>2, JobStep
  <2> QED
    BY <1>6, <2>3 DEF QueryFails, state, disk, marks, TypeInv, Typed
<1>7. ASSUME NEW t \in Threads, AppendTurn(t) PROVE TypeInv'
  <2>1. job[t].turn \in Turns /\ history' \in Seq(Turns)
    BY <1>7 DEF AppendTurn, Asking, TypeInv, Typed, Busy
  <2>2. Last(history', MaxHistory) \in Seq(Turns)
    BY <2>1, LastTyped
  <2>3. Oldest \in SUBSET PageKey
    BY DEF Oldest, Loaded
  <2>4. PICK ok \in Outcomes : job' = [job EXCEPT ![t] =
             IF Len(history') > MaxHistory
             THEN [@ EXCEPT !.at = "trim", !.num = 0, !.ok = ok, !.kept = Last(history', MaxHistory)]
             ELSE [@ EXCEPT !.at = "evict", !.num = 0, !.ok = ok, !.gone = Oldest]]
    BY <1>7 DEF AppendTurn
  <2> DEFINE a == [job[t] EXCEPT !.at = "trim", !.num = 0, !.ok = ok, !.kept = Last(history', MaxHistory)]
             b == [job[t] EXCEPT !.at = "evict", !.num = 0, !.ok = ok, !.gone = Oldest]
  <2>5. a \in Job /\ a.turn = job[t].turn
    BY <1>0, <2>2 DEF Job, Labels
  <2>6. b \in Job /\ b.turn = job[t].turn
    BY <1>0, <2>3 DEF Job, Labels
  <2>7. job' = [job EXCEPT ![t] = a] \/ job' = [job EXCEPT ![t] = b]
    BY <2>4
  <2>8. job' \in [Threads -> Job] /\ \A u \in Threads : Busy(u)' => job'[u].turn \in Turns
    BY <2>1, <2>5, <2>6, <2>7, JobStep
  <2> QED
    BY <1>7, <2>1, <2>8 DEF AppendTurn, disk, marks, TypeInv, Typed
<1>8. ASSUME NEW t \in Threads, Trim(t) PROVE TypeInv'
  <2> DEFINE r == [job[t] EXCEPT !.at = "evict", !.kept = <<>>, !.gone = Oldest]
  <2>1. Oldest \in SUBSET PageKey /\ <<>> \in Seq(Turns)
    BY DEF Oldest, Loaded
  <2>2. r \in Job /\ r.turn \in Turns
    BY <1>0, <1>8, <2>1 DEF Trim, At, TypeInv, Busy, Job, Labels
  <2>3. job' = [job EXCEPT ![t] = r]
    BY <1>8 DEF Trim, TypeInv, Typed
  <2>4. job' \in [Threads -> Job] /\ \A u \in Threads : Busy(u)' => job'[u].turn \in Turns
    BY <2>2, <2>3, JobStep
  <2>5. history' \in Seq(Turns)
    BY <1>0, <1>8 DEF Trim, Job
  <2> QED
    BY <1>8, <2>4, <2>5 DEF Trim, disk, marks, TypeInv, Typed
<1>9. ASSUME NEW t \in Threads, DeletePage(t) PROVE TypeInv'
  <2>1. PICK k \in job[t].gone :
           \/ /\ pages' = [pages EXCEPT ![k] = 0] /\ unsaved' = unsaved
              /\ job' = [job EXCEPT ![t].gone = @ \ {k}]
           \/ pages' = pages /\ job' = [job EXCEPT ![t] = Idle] /\ unsaved' = TRUE
    BY <1>9 DEF DeletePage, Done
  <2> DEFINE r == [job[t] EXCEPT !.gone = @ \ {k}]
  <2>2. r \in Job /\ (r.at \in {"route", "load", "generate", "trim", "evict"} => r.turn \in Turns)
    BY <1>0 DEF TypeInv, Busy, Job
  <2>3. job' = [job EXCEPT ![t] = r] \/ job' = [job EXCEPT ![t] = Idle]
    <3>1. [job EXCEPT ![t].gone = @ \ {k}] = [job EXCEPT ![t] = r]
      OBVIOUS
    <3> QED
      BY <2>1, <3>1
  <2>4. job' \in [Threads -> Job] /\ \A u \in Threads : Busy(u)' => job'[u].turn \in Turns
    BY <2>2, <2>3, JobStep
  <2>5. pages' \in [PageKey -> Nat]
    BY <2>1 DEF TypeInv, Typed
  <2>6. unsaved' \in BOOLEAN
    BY <2>1, Zenon DEF TypeInv, Typed
  <2> QED
    BY <1>9, <2>4, <2>5, <2>6 DEF DeletePage, disk, TypeInv, Typed
<1>10. ASSUME NEW t \in Threads, StoreAnswer(t) PROVE TypeInv'
  <2> DEFINE r == [job[t] EXCEPT !.at = "save"]
  <2>1. r \in Job /\ (r.at \in {"route", "load", "generate", "trim", "evict"} => r.turn \in Turns)
    BY <1>0, <1>10 DEF StoreAnswer, At, Asking, TypeInv, Busy, Job, Labels
  <2>2. job' = [job EXCEPT ![t] = r]
    BY <1>10 DEF StoreAnswer, Goto, Done, TypeInv, Typed
  <2>3. job' \in [Threads -> Job] /\ \A u \in Threads : Busy(u)' => job'[u].turn \in Turns
    BY <2>1, <2>2, JobStep
  <2>4. cache' \in [Questions -> Answer \union {None}]
    <3>1. [turn |-> job[t].turn, ok |-> job[t].ok] \in Answer
      BY <1>0, <1>10 DEF StoreAnswer, At, TypeInv, Busy, Job, Answer
    <3> QED
      BY <1>0, <1>10, <3>1 DEF StoreAnswer, TypeInv, Typed, Job
  <2> QED
    BY <1>10, <2>3, <2>4 DEF StoreAnswer, state, disk, marks, TypeInv, Typed
<1>11. ASSUME NEW t \in Threads, Dump(t) PROVE TypeInv'
  <2> DEFINE r == [Idle EXCEPT !.at = "replace", !.dump = Current]
  <2>1. r \in Job /\ r.at = "replace"
    BY CurrentTyped DEF TypeInv, Idle, Job, Labels
  <2>2. job' = [job EXCEPT ![t] = r]
    BY <1>11 DEF Dump
  <2>3. job' \in [Threads -> Job] /\ \A u \in Threads : Busy(u)' => job'[u].turn \in Turns
    BY <2>1, <2>2, JobStep
  <2>4. clash' \in BOOLEAN
    BY <1>11 DEF Dump, BeginSave
  <2> QED
    BY <1>11, <2>3, <2>4, CurrentTyped DEF Dump, state, TypeInv, Typed
<1>12. ASSUME NEW t \in Threads, SaveFails(t) PROVE TypeInv'
  <2>1. job' \in [Threads -> Job] /\ \A u \in Threads : Busy(u)' => job'[u].turn \in Turns
    BY <1>12, JobStep DEF SaveFails, Done
  <2>2. clash' \in BOOLEAN
    BY <1>12 DEF SaveFails, BeginSave
  <2> QED
    BY <1>12, <2>1, <2>2 DEF SaveFails, state, TypeInv, Typed
<1>13. ASSUME NEW t \in Threads, Replace(t) PROVE TypeInv'
  <2>1. job' \in [Threads -> Job] /\ \A u \in Threads : Busy(u)' => job'[u].turn \in Turns
    BY <1>13, JobStep DEF Replace, Done
  <2>2. job[t].dump \in Snapshot \union {None}
    BY <1>0 DEF Job
  <2>3. /\ file' \in Snapshot \union {None, Garbled} /\ tmp' \in Snapshot \union {None, Garbled}
        /\ unsaved' \in BOOLEAN
    BY <1>13, <2>2 DEF Replace, TypeInv, Typed
  <2> QED
    BY <1>13, <2>1, <2>3 DEF Replace, state, TypeInv, Typed
<1>14. ASSUME NEW t \in Threads, Load(t) PROVE TypeInv'
  <2>1. file \in Snapshot
    BY <1>14 DEF Load, TypeInv, Typed
  <2>2. history' \in Seq(Turns) /\ results' \in 0 .. MaxTurns /\ pages' \in [PageKey -> Nat]
    BY <1>14, <2>1 DEF Load, Holds, Snapshot
  <2>3. crossed' \in BOOLEAN
    BY <1>14 DEF Load, BeginReplacing
  <2> QED
    BY <1>14, <2>2, <2>3 DEF Load, disk, TypeInv, Typed, Busy
<1>15. ASSUME NEW t \in Threads, ClearState(t) PROVE TypeInv'
  <2> DEFINE r == [job[t] EXCEPT !.at = "clear_cache"]
  <2>1. r \in Job /\ r.at = "clear_cache"
    BY <1>0 DEF Job, Labels
  <2>2. job' = [job EXCEPT ![t] = r]
    BY <1>15 DEF ClearState, Goto, TypeInv, Typed
  <2>3. job' \in [Threads -> Job] /\ \A u \in Threads : Busy(u)' => job'[u].turn \in Turns
    BY <2>1, <2>2, JobStep
  <2>4. history' \in Seq(Turns) /\ results' \in 0 .. MaxTurns /\ pages' \in [PageKey -> Nat]
    BY <1>15, EmptyStored DEF ClearState, Holds, Empty
  <2>5. crossed' \in BOOLEAN
    BY <1>15 DEF ClearState, BeginReplacing
  <2> QED
    BY <1>15, <2>3, <2>4, <2>5 DEF ClearState, disk, TypeInv, Typed
<1>16. ASSUME NEW t \in Threads, ClearCache(t) PROVE TypeInv'
  <2> DEFINE r == [job[t] EXCEPT !.at = "unlink"]
  <2>1. r \in Job /\ (r.at \in {"route", "load", "generate", "trim", "evict"} => r.turn \in Turns)
    BY <1>0, <1>16 DEF ClearCache, At, Asking, TypeInv, Busy, Job, Labels
  <2>2. job' = [job EXCEPT ![t] = r]
    BY <1>16 DEF ClearCache, Goto, Done, TypeInv, Typed
  <2>3. job' \in [Threads -> Job] /\ \A u \in Threads : Busy(u)' => job'[u].turn \in Turns
    BY <2>1, <2>2, JobStep
  <2> QED
    BY <1>16, <2>3 DEF ClearCache, state, disk, marks, TypeInv, Typed
<1>17. ASSUME NEW t \in Threads, ClearFails(t) PROVE TypeInv'
  <2>1. job' \in [Threads -> Job] /\ \A u \in Threads : Busy(u)' => job'[u].turn \in Turns
    BY <1>17, JobStep DEF ClearFails, Done
  <2>2. cache' \in [Questions -> Answer \union {None}]
    BY <1>17 DEF ClearFails, TypeInv, Typed
  <2> QED
    BY <1>17, <2>1, <2>2 DEF ClearFails, state, disk, TypeInv, Typed
<1>18. ASSUME NEW t \in Threads, Unlink(t) PROVE TypeInv'
  <2>1. job' \in [Threads -> Job] /\ \A u \in Threads : Busy(u)' => job'[u].turn \in Turns
    BY <1>18, JobStep DEF Unlink, Done
  <2> QED
    BY <1>18, <2>1 DEF Unlink, state, TypeInv, Typed
<1>19. CASE Restart
  <2>1. job' \in [Threads -> Job] /\ \A u \in Threads : Busy(u)' => job'[u].turn \in Turns
    BY <1>19 DEF Restart, Busy
  <2>2. history' \in Seq(Turns) /\ results' \in 0 .. MaxTurns /\ pages' \in [PageKey -> Nat]
    <3>1. CASE file \in {None, Garbled}
      BY <1>19, <3>1, EmptyStored DEF Restart, Holds, Empty
    <3>2. CASE file \notin {None, Garbled}
      BY <1>19, <3>2 DEF Restart, Holds, Snapshot, TypeInv, Typed
    <3> QED
      BY <3>1, <3>2
  <2> QED
    BY <1>19, <2>1, <2>2 DEF Restart, TypeInv, Typed
<1> QED
  BY <1>1, <1>2, <1>3, <1>4, <1>5, <1>6, <1>7, <1>8, <1>9, <1>10, <1>11, <1>12, <1>13, <1>14,
     <1>15, <1>16, <1>17, <1>18, <1>19 DEF Next, Query, Save, Command

-----------------------------------------------------------------------------
\* The two files while no saves overlap: the temp file holds what the one saver dumped.
FileInv ==
    /\ \A t \in Threads : At(t, "replace") => job[t].dump \in Snapshot
    /\ ~clash =>
        /\ file # Garbled
        /\ \A t, u \in Threads : At(t, "replace") /\ At(u, "replace") => t = u
        /\ \A t \in Threads : At(t, "replace") => tmp = job[t].dump

\* A step after which the same threads are between dump and rename, or fewer.
LEMMA FileFrame ==
    ASSUME FileInv, UNCHANGED <<file, clash>>, tmp' = tmp,
           \A t \in Threads : At(t, "replace")' => job'[t] = job[t]
    PROVE  FileInv'
  BY DEF FileInv, At

\* The state of the two files is preserved by every step.
LEMMA NextFiles == TypeInv /\ FileInv /\ [Next]_vars => FileInv'
<1> SUFFICES ASSUME TypeInv, FileInv, [Next]_vars PROVE FileInv'
  OBVIOUS
<1>0. job \in [Threads -> Job] /\ Idle.at = "idle" /\ \A t \in Threads : job[t] \in Job
  BY IdleTyped DEF TypeInv, Typed
<1>1. CASE UNCHANGED vars
  BY <1>1, FileFrame DEF vars, disk, marks, At
<1>2. ASSUME NEW t \in Threads, AskFresh(t) \/ AskAboutResults(t) PROVE FileInv'
  <2>1. UNCHANGED <<file, clash, tmp>>
    BY <1>2 DEF AskFresh, AskAboutResults, disk
  <2>2. \A u \in Threads : At(u, "replace")' => job'[u] = job[u]
    BY <1>0, <1>2 DEF AskFresh, AskAboutResults, At, Idle
  <2> QED
    BY <2>1, <2>2, FileFrame
<1>3. ASSUME NEW t \in Threads, Search(t) \/ LoadPage(t) \/ QueryFails(t) PROVE FileInv'
  <2>1. UNCHANGED <<file, clash, tmp>>
    BY <1>3 DEF Search, LoadPage, QueryFails, disk, marks
  <2>2. \A u \in Threads : At(u, "replace")' => job'[u] = job[u]
    BY <1>0, <1>3 DEF Search, LoadPage, QueryFails, Goto, Done, At, Job
  <2> QED
    BY <2>1, <2>2, FileFrame
<1>4. ASSUME NEW t \in Threads, AppendTurn(t) \/ Trim(t) \/ DeletePage(t) \/ StoreAnswer(t)
      PROVE FileInv'
  <2>1. UNCHANGED <<file, clash, tmp>>
    BY <1>4 DEF AppendTurn, Trim, DeletePage, StoreAnswer, disk, marks
  <2>2. \A u \in Threads \ {t} : job'[u] = job[u]
    BY <1>0, <1>4 DEF AppendTurn, Trim, DeletePage, StoreAnswer, Goto, Done
  <2>3. job'[t].at # "replace"
    <3>1. CASE AppendTurn(t)
      BY <1>0, <3>1 DEF AppendTurn, Job
    <3>2. CASE Trim(t) \/ StoreAnswer(t)
      BY <1>0, <3>2 DEF Trim, StoreAnswer, Goto, Job
    <3>3. CASE DeletePage(t)
      BY <1>0, <3>3 DEF DeletePage, Done, At, Job
    <3> QED
      BY <1>4, <3>1, <3>2, <3>3
  <2> QED
    BY <2>1, <2>2, <2>3, FileFrame DEF At
<1>5. ASSUME NEW t \in Threads, Dump(t) PROVE FileInv'
  <2>1. /\ job'[t].at = "replace" /\ job'[t].dump = Current /\ tmp' = Current /\ file' = file
        /\ \A u \in Threads \ {t} : job'[u] = job[u]
        /\ clash' = (clash \/ Contended(t))
    BY <1>0, <1>5 DEF Dump, BeginSave, Idle
  <2>2. ~clash' => \A u \in Threads \ {t} : ~At(u, "replace")
    BY <2>1 DEF Contended
  <2> QED
    BY <2>1, <2>2, CurrentTyped DEF FileInv, At, TypeInv
<1>6. ASSUME NEW t \in Threads, SaveFails(t) PROVE FileInv'
  <2>1. /\ job'[t].at = "idle" /\ file' = file
        /\ \A u \in Threads \ {t} : job'[u] = job[u]
        /\ clash' = (clash \/ Contended(t))
    BY <1>0, <1>6 DEF SaveFails, BeginSave, Done
  <2>2. ~clash' => \A u \in Threads \ {t} : ~At(u, "replace")
    BY <2>1 DEF Contended
  <2> QED
    BY <2>1, <2>2 DEF FileInv, At
<1>7. ASSUME NEW t \in Threads, Replace(t) PROVE FileInv'
  <2>1. /\ At(t, "replace") /\ job'[t].at = "idle" /\ clash' = clash
        /\ \A u \in Threads \ {t} : job'[u] = job[u]
    BY <1>0, <1>7 DEF Replace, Done
  <2>2. ~clash => tmp \in Snapshot /\ ~Contended(t)
    BY <2>1 DEF FileInv, Contended
  <2>3. ~clash => file' = tmp
    BY <1>7, <2>2, MarkAssumption DEF Replace
  <2>4. ~clash => file' # Garbled /\ \A u \in Threads : ~At(u, "replace")'
    BY <2>1, <2>2, <2>3, MarkAssumption DEF Contended, At
  <2> QED
    BY <2>1, <2>4 DEF FileInv, At
<1>8. ASSUME NEW t \in Threads, Load(t) PROVE FileInv'
  BY <1>8, FileFrame DEF Load, disk, At
<1>9. ASSUME NEW t \in Threads, ClearState(t) \/ ClearCache(t) \/ ClearFails(t) PROVE FileInv'
  <2>1. UNCHANGED <<file, clash, tmp>>
    BY <1>9 DEF ClearState, ClearCache, ClearFails, disk, marks
  <2>2. \A u \in Threads : At(u, "replace")' => job'[u] = job[u]
    BY <1>0, <1>9 DEF ClearState, ClearCache, ClearFails, Goto, Done, At, Job
  <2> QED
    BY <2>1, <2>2, FileFrame
<1>10. ASSUME NEW t \in Threads, Unlink(t) PROVE FileInv'
  <2>1. /\ job'[t].at = "idle" /\ file' = None /\ UNCHANGED <<tmp, clash>>
        /\ \A u \in Threads \ {t} : job'[u] = job[u]
    BY <1>0, <1>10 DEF Unlink, Done
  <2> QED
    BY <2>1, MarkAssumption DEF FileInv, At
<1>11. CASE Restart
  BY <1>0, <1>11 DEF Restart, FileInv, At
<1> QED
  BY <1>1, <1>2, <1>3, <1>4, <1>5, <1>6, <1>7, <1>8, <1>9, <1>10, <1>11 DEF Next, Query, Save, Command

\* Every reachable state is well typed, and session.json can be loaded as long as no two
\* saves overlapped.
THEOREM SessionReadable == Spec => [](Typed /\ ReadableUnlessClash)
<1>1. Init => FileInv
  BY MarkAssumption, IdleTyped DEF Init, FileInv, At
<1>2. TypeInv /\ FileInv => Typed /\ ReadableUnlessClash
  BY DEF TypeInv, FileInv, ReadableUnlessClash
<1> QED
  BY <1>1, <1>2, InitTypes, NextTypes, NextFiles, PTL DEF Spec
-----------------------------------------------------------------------------
\* Nothing of before the last clear.
YoungSeq(s) == \A i \in DOMAIN s : s[i] > cleared
YoungFile(f) == YoungSeq(f.history) /\ (f.results = 0 \/ f.results > cleared)

\* What is there is young; a file is so if it can be loaded.
AllYoung ==
    /\ YoungSeq(history) /\ (results = 0 \/ results > cleared)
    /\ \A q \in Questions : cache[q] # None => cache[q].turn > cleared
    /\ file \in Snapshot => YoungFile(file)
    /\ tmp \in Snapshot => YoungFile(tmp)

\* So is what a thread will write.
YoungThread(t) ==
    /\ Busy(t) => job[t].turn > cleared
    /\ At(t, "trim") => YoungSeq(job[t].kept)
    /\ At(t, "replace") => YoungFile(job[t].dump)

\* A clear of thread t finds an empty session, and saves of nothing else.
Alone(t) ==
    /\ history = <<>> /\ results = 0 /\ pages = NoPages
    /\ \A u \in Threads \ {t} : job[u].at \in {"idle", "replace"}
    /\ \A u \in Threads : At(u, "replace") => job[u].dump = Empty
    /\ tmp \in {None, Garbled, Empty}
    /\ At(t, "unlink") => \A q \in Questions : cache[q] = None

ClearInv ==
    /\ cleared <= turns
    /\ tmp = None \/ \E t \in Threads : At(t, "replace")
    /\ ~crossed =>
        /\ AllYoung
        /\ \A t \in Threads : YoungThread(t) /\ (Clearing(t) => Alone(t))

\* A step of a query, once it has begun, when no clear is under way.
LEMMA QueryFrame ==
    ASSUME TypeInv, ClearInv, NEW t \in Threads,
           ~Clearing(t), job[t].at \notin {"idle", "replace"},
           UNCHANGED <<turns, cleared, crossed, file, tmp>>,
           \A u \in Threads \ {t} : job'[u] = job[u],
           ~At(t, "replace")', ~Clearing(t)',
           ~crossed => AllYoung' /\ YoungThread(t)'
    PROVE  ClearInv'
<1>1. \A u \in Threads \ {t} : (At(u, "replace")' <=> At(u, "replace")) /\ (Clearing(u)' <=> Clearing(u))
  BY DEF At, Clearing
<1>2. ~At(t, "replace")
  BY DEF At
<1>3. ~crossed => \A u \in Threads \ {t} : ~Clearing(u) /\ YoungThread(u)
  BY DEF ClearInv, Alone
<1>4. ~crossed => \A u \in Threads \ {t} : YoungThread(u)'
  BY <1>3 DEF YoungThread, Busy, At, YoungSeq, YoungFile
<1>5. ~crossed' => \A u \in Threads : YoungThread(u)' /\ ~Clearing(u)'
  BY <1>1, <1>3, <1>4
<1> QED
  BY <1>1, <1>2, <1>5 DEF ClearInv

\* ClearInv is preserved by every step of a query.
LEMMA QueryClears ==
    ASSUME TypeInv, ClearInv, NEW t \in Threads, Query(t)
    PROVE  ClearInv'
<1>0. job \in [Threads -> Job] /\ Idle.at = "idle" /\ \A u \in Threads : job[u] \in Job
  BY IdleTyped DEF TypeInv, Typed
<1> DEFINE Others == \A u \in Threads \ {t} : job'[u] = job[u]
<1>1. ASSUME AskFresh(t) \/ AskAboutResults(t) PROVE ClearInv'
  <2>1. /\ At(t, "idle") /\ Others /\ turns' = turns + 1 /\ job'[t].turn = turns'
        /\ job'[t].at \in {"route", "load", "generate"}
        /\ UNCHANGED <<state, disk, cleared>>
        /\ \A q \in Questions : cache'[q] = cache[q] \/ cache'[q] = None
    <3>1. CASE AskFresh(t)
      BY <1>0, <3>1 DEF AskFresh, BeginQuery, TypeInv, Typed, Idle
    <3>2. CASE AskAboutResults(t)
      BY <1>0, <3>2 DEF AskAboutResults, BeginQuery, Idle
    <3> QED
      BY <1>1, <3>1, <3>2
  <2>2. ~crossed' => ~crossed /\ \A u \in Threads : ~Clearing(u)
    BY <1>1 DEF AskFresh, AskAboutResults, BeginQuery
  <2>3. turns' > cleared /\ cleared <= turns'
    BY <2>1 DEF ClearInv, TypeInv, Typed
  <2>4. ~crossed' => AllYoung'
    BY <2>1, <2>2 DEF ClearInv, AllYoung, YoungSeq, YoungFile, state, disk
  <2>5. ~crossed' => \A u \in Threads : YoungThread(u)' /\ ~Clearing(u)'
    BY <2>1, <2>2, <2>3 DEF ClearInv, YoungThread, YoungSeq, YoungFile, Busy, At, Clearing
  <2>6. \A u \in Threads : At(u, "replace")' <=> At(u, "replace")
    BY <2>1 DEF At
  <2> QED
    BY <2>1, <2>3, <2>4, <2>5, <2>6 DEF ClearInv, disk
<1>2. ASSUME Search(t) \/ LoadPage(t) PROVE ClearInv'
  <2>1. /\ Busy(t) /\ Others /\ job'[t].turn = job[t].turn /\ job'[t].at \in {"load", "generate"}
        /\ UNCHANGED <<turns, history, cache, disk, marks>>
        /\ results' = results \/ results' = job[t].turn
    <3>1. CASE Search(t)
      BY <1>0, <3>1 DEF Search, Goto, At, Busy, Job
    <3>2. CASE LoadPage(t)
      <4>1. CASE job' = [job EXCEPT ![t] = [@ EXCEPT !.at = "generate", !.num = 0]]
        BY <1>0, <3>2, <4>1 DEF LoadPage, At, Busy, Job
      <4>2. CASE \E n \in ResultNums : job' = [job EXCEPT ![t].num = n]
        BY <1>0, <3>2, <4>2 DEF LoadPage, At, Busy, Job
      <4> QED
        BY <3>2, <4>1, <4>2 DEF LoadPage
    <3> QED
      BY <1>2, <3>1, <3>2
  <2>2. ~crossed => AllYoung' /\ YoungThread(t)'
    BY <2>1 DEF ClearInv, AllYoung, YoungThread, YoungSeq, YoungFile, Busy, At, disk, marks
  <2> QED
    BY <2>1, <2>2, QueryFrame DEF Busy, At, Clearing, disk, marks
<1>3. ASSUME QueryFails(t) PROVE ClearInv'
  <2>1. /\ Busy(t) /\ Others /\ job'[t].at = "idle"
        /\ UNCHANGED <<turns, state, cache, disk, cleared, crossed>>
    BY <1>0, <1>3 DEF QueryFails, Asking, Done, Busy
  <2>2. ~crossed => AllYoung' /\ YoungThread(t)'
    BY <2>1 DEF ClearInv, AllYoung, YoungThread, YoungSeq, YoungFile, Busy, At, state, disk
  <2> QED
    BY <2>1, <2>2, QueryFrame DEF Busy, At, Clearing, disk
<1>4. ASSUME AppendTurn(t) PROVE ClearInv'
  <2>1. /\ Busy(t) /\ Others /\ job'[t].turn = job[t].turn /\ job'[t].at \in {"trim", "evict"}
        /\ job'[t].at = "trim" => job'[t].kept = Last(history', MaxHistory)
        /\ UNCHANGED <<turns, results, cache, disk, marks>>
        /\ history' = Append(history, job[t].turn)
    BY <1>0, <1>4 DEF AppendTurn, Asking, Busy, Job
  <2>2. history' \in Seq(Turns) /\ job[t].turn \in Turns /\ cleared' = cleared
    BY <2>1 DEF TypeInv, Typed, marks
  <2>3. ~crossed => YoungSeq(history')
    BY <2>1, <2>2 DEF ClearInv, AllYoung, YoungThread, YoungSeq, TypeInv, Typed
  <2>4. ~crossed => YoungSeq(Last(history', MaxHistory))
    BY <2>2, <2>3, LastElements, Limits DEF YoungSeq
  <2>5. ~crossed => AllYoung' /\ YoungThread(t)'
    BY <2>1, <2>2, <2>3, <2>4 DEF ClearInv, AllYoung, YoungThread, YoungSeq, YoungFile, Busy, At, disk
  <2> QED
    BY <2>1, <2>5, QueryFrame DEF Busy, At, Clearing, disk, marks
<1>5. ASSUME Trim(t) PROVE ClearInv'
  <2>1. /\ Busy(t) /\ At(t, "trim") /\ Others /\ job'[t].turn = job[t].turn /\ job'[t].at = "evict"
        /\ UNCHANGED <<turns, results, cache, disk, marks>> /\ history' = job[t].kept
    BY <1>0, <1>5 DEF Trim, At, Busy, Job
  <2>2. ~crossed => AllYoung' /\ YoungThread(t)'
    BY <2>1 DEF ClearInv, AllYoung, YoungThread, YoungSeq, YoungFile, Busy, At, disk, marks
  <2> QED
    BY <2>1, <2>2, QueryFrame DEF Busy, At, Clearing, disk, marks
<1>6. ASSUME DeletePage(t) PROVE ClearInv'
  <2>1. /\ Busy(t) /\ Others /\ job'[t].at \in {"evict", "idle"}
        /\ job'[t].at = "evict" => job'[t].turn = job[t].turn
        /\ UNCHANGED <<turns, history, results, cache, disk, cleared, crossed>>
    BY <1>0, <1>6 DEF DeletePage, Done, At, Busy, Job
  <2>2. ~crossed => AllYoung' /\ YoungThread(t)'
    BY <2>1 DEF ClearInv, AllYoung, YoungThread, YoungSeq, YoungFile, Busy, At, disk
  <2> QED
    BY <2>1, <2>2, QueryFrame DEF Busy, At, Clearing, disk
<1>7. ASSUME StoreAnswer(t) PROVE ClearInv'
  <2>1. /\ Busy(t) /\ Others /\ job'[t].at = "save"
        /\ UNCHANGED <<turns, state, disk, marks>>
        /\ \A q \in Questions : cache'[q] = cache[q] \/ cache'[q].turn = job[t].turn
    BY <1>0, <1>7 DEF StoreAnswer, Goto, At, Busy, Job, TypeInv, Typed
  <2>2. ~crossed => AllYoung' /\ YoungThread(t)'
    BY <2>1 DEF ClearInv, AllYoung, YoungThread, YoungSeq, YoungFile, Busy, At, state, disk, marks
  <2> QED
    BY <2>1, <2>2, QueryFrame DEF Busy, At, Clearing, disk, marks
<1> QED
  BY <1>1, <1>2, <1>3, <1>4, <1>5, <1>6, <1>7 DEF Query

\* What a dump finds while a clear is under way is empty.
LEMMA CurrentWhileClearing ==
    ASSUME TypeInv, ClearInv, ~crossed
    PROVE  /\ YoungFile(Current)
           /\ (\E t \in Threads : Clearing(t)) => Current = Empty
<1>1. YoungFile(Current)
  BY DEF ClearInv, AllYoung, YoungFile, Current
<1>2. (\E t \in Threads : Clearing(t)) => Current = Empty
  BY EmptyStored DEF ClearInv, Alone, Current, Empty
<1> QED
  BY <1>1, <1>2

\* ClearInv is preserved by every step of a save.
LEMMA SaveClears ==
    ASSUME TypeInv, FileInv, ClearInv, NEW t \in Threads, Save(t)
    PROVE  ClearInv'
<1>0. job \in [Threads -> Job] /\ Idle.at = "idle" /\ \A u \in Threads : job[u] \in Job
  BY IdleTyped DEF TypeInv, Typed
<1> DEFINE Others == \A u \in Threads \ {t} : job'[u] = job[u]
<1>1. ASSUME Dump(t) PROVE ClearInv'
  <2>1. /\ Others /\ job'[t].at = "replace" /\ job'[t].dump = Current /\ tmp' = Current
        /\ ~Clearing(t) /\ ~Busy(t)
        /\ UNCHANGED <<turns, state, cache, file, cleared, crossed>>
    BY <1>0, <1>1 DEF Dump, BeginSave, At, Clearing, Busy, Idle
  <2>2. ~crossed => AllYoung'
    BY <2>1, CurrentWhileClearing DEF ClearInv, AllYoung, YoungSeq, YoungFile, state
  <2>3. ~crossed => \A u \in Threads : YoungThread(u)'
    BY <2>1, CurrentWhileClearing DEF ClearInv, YoungThread, YoungSeq, YoungFile, Busy, At
  <2>4. ~crossed => \A u \in Threads : Clearing(u)' => Clearing(u) /\ u # t
    BY <2>1 DEF Clearing
  <2>5. ~crossed => \A u \in Threads : Clearing(u)' => Alone(u)'
    BY <2>1, <2>4, CurrentWhileClearing DEF ClearInv, Alone, At, state
  <2> QED
    BY <2>1, <2>2, <2>3, <2>5 DEF ClearInv, At
<1>2. ASSUME SaveFails(t) PROVE ClearInv'
  <2>1. /\ Others /\ job'[t].at = "idle" /\ ~At(t, "replace")
        /\ tmp' = (IF Contended(t) THEN Garbled ELSE None)
        /\ UNCHANGED <<turns, state, cache, file, cleared, crossed>>
    BY <1>0, <1>2 DEF SaveFails, BeginSave, Done, At
  <2>2. tmp' = None \/ \E u \in Threads : At(u, "replace")'
    BY <2>1 DEF Contended, At
  <2>3. ~crossed => AllYoung'
    BY <2>1, MarkAssumption DEF ClearInv, AllYoung, YoungSeq, YoungFile, state
  <2>4. ~crossed => \A u \in Threads : YoungThread(u)'
    BY <2>1 DEF ClearInv, YoungThread, YoungSeq, YoungFile, Busy, At
  <2>5. ~crossed => \A u \in Threads : Clearing(u)' => Clearing(u) /\ u # t
    BY <2>1 DEF Clearing
  <2>6. ~crossed => \A u \in Threads : Clearing(u)' => Alone(u)'
    BY <2>1, <2>5 DEF ClearInv, Alone, At, state
  <2> QED
    BY <2>1, <2>2, <2>3, <2>4, <2>6 DEF ClearInv
<1>3. ASSUME Replace(t) PROVE ClearInv'
  <2>1. /\ Others /\ job'[t].at = "idle" /\ At(t, "replace") /\ tmp' = None
        /\ file' \in {file, tmp, job[t].dump, Garbled}
        /\ UNCHANGED <<turns, state, cache, cleared, crossed>>
    BY <1>0, <1>3 DEF Replace, Done
  <2>2. ~crossed => AllYoung'
    BY <2>1, MarkAssumption DEF ClearInv, AllYoung, YoungThread, YoungSeq, YoungFile, state
  <2>3. ~crossed => \A u \in Threads : YoungThread(u)'
    BY <2>1 DEF ClearInv, YoungThread, YoungSeq, YoungFile, Busy, At
  <2>4. ~crossed => \A u \in Threads : Clearing(u)' => Clearing(u) /\ u # t
    BY <2>1 DEF Clearing
  <2>5. ~crossed => \A u \in Threads : Clearing(u)' => Alone(u)'
    BY <2>1, <2>4 DEF ClearInv, Alone, At, state
  <2> QED
    BY <2>1, <2>2, <2>3, <2>5 DEF ClearInv
<1> QED
  BY <1>1, <1>2, <1>3 DEF Save

\* ClearInv is preserved by every command.
LEMMA CommandClears ==
    ASSUME TypeInv, ClearInv, NEW t \in Threads, Command(t)
    PROVE  ClearInv'
<1>0. job \in [Threads -> Job] /\ Idle.at = "idle" /\ \A u \in Threads : job[u] \in Job
  BY IdleTyped DEF TypeInv, Typed
<1> DEFINE Others == \A u \in Threads \ {t} : job'[u] = job[u]
<1>1. ASSUME Load(t) PROVE ClearInv'
  <2>1. /\ job' = job /\ file \in Snapshot /\ (~crossed' => ~crossed /\ Quiet)
        /\ history' = file.history /\ results' = file.results
        /\ UNCHANGED <<turns, cache, disk, cleared>>
    BY <1>1 DEF Load, BeginReplacing, Holds, TypeInv, Typed
  <2>2. ~crossed' => AllYoung' /\ \A u \in Threads : YoungThread(u)' /\ ~Clearing(u)'
    BY <2>1 DEF ClearInv, AllYoung, YoungThread, YoungSeq, YoungFile, Busy, At, Clearing, Quiet, disk
  <2> QED
    BY <2>1, <2>2 DEF ClearInv, At, disk
<1>2. ASSUME ClearState(t) PROVE ClearInv'
  <2>1. /\ Others /\ job'[t].at = "clear_cache" /\ At(t, "idle") /\ (~crossed' => ~crossed /\ Quiet)
        /\ history' = <<>> /\ results' = 0 /\ pages' = NoPages
        /\ UNCHANGED <<turns, cache, disk, cleared>>
    BY <1>0, <1>2 DEF ClearState, BeginReplacing, Holds, Empty, Goto, Job
  <2>2. ~crossed' => AllYoung' /\ \A u \in Threads : YoungThread(u)'
    BY <2>1 DEF ClearInv, AllYoung, YoungThread, YoungSeq, YoungFile, Busy, At, Quiet, disk
  <2>3. ~crossed' => tmp' = None /\ \A u \in Threads \ {t} : job'[u].at = "idle"
    BY <2>1 DEF ClearInv, At, Quiet, disk
  <2>4. ~crossed' => \A u \in Threads : Clearing(u)' => Alone(u)'
    BY <2>1, <2>3 DEF Alone, At, Clearing
  <2>5. \A u \in Threads : At(u, "replace")' <=> At(u, "replace")
    BY <2>1 DEF At
  <2> QED
    BY <2>1, <2>2, <2>4, <2>5 DEF ClearInv, disk
<1>3. ASSUME ClearCache(t) PROVE ClearInv'
  <2>1. /\ Others /\ job'[t].at = "unlink" /\ Clearing(t) /\ \A q \in Questions : cache'[q] = None
        /\ UNCHANGED <<turns, state, disk, marks>>
    BY <1>0, <1>3 DEF ClearCache, Clearing, At, Goto, Job
  <2>2. ~crossed => AllYoung' /\ \A u \in Threads : YoungThread(u)'
    BY <2>1 DEF ClearInv, AllYoung, YoungThread, YoungSeq, YoungFile, Busy, At, state, disk, marks
  <2>3. ~crossed => \A u \in Threads : Clearing(u)' => Alone(u)'
    BY <2>1 DEF ClearInv, Alone, At, Clearing, state, disk
  <2>4. \A u \in Threads : At(u, "replace")' <=> At(u, "replace")
    BY <2>1 DEF At, Clearing
  <2> QED
    BY <2>1, <2>2, <2>3, <2>4 DEF ClearInv, disk, marks
<1>4. ASSUME ClearFails(t) PROVE ClearInv'
  <2>1. /\ Others /\ job'[t].at = "idle" /\ Clearing(t)
        /\ \A q \in Questions : cache'[q] = cache[q] \/ cache'[q] = None
        /\ UNCHANGED <<turns, state, disk, cleared, crossed>>
    BY <1>0, <1>4 DEF ClearFails, Clearing, At, Done
  <2>2. ~crossed => AllYoung' /\ \A u \in Threads : YoungThread(u)'
    BY <2>1 DEF ClearInv, AllYoung, YoungThread, YoungSeq, YoungFile, Busy, At, state, disk
  <2>3. ~crossed => \A u \in Threads : ~Clearing(u)'
    BY <2>1 DEF ClearInv, Alone, Clearing
  <2>4. \A u \in Threads : At(u, "replace")' <=> At(u, "replace")
    BY <2>1 DEF At, Clearing
  <2> QED
    BY <2>1, <2>2, <2>3, <2>4 DEF ClearInv, disk
<1>5. ASSUME Unlink(t) PROVE ClearInv'
  <2>1. /\ Others /\ job'[t].at = "idle" /\ At(t, "unlink") /\ Clearing(t)
        /\ file' = None /\ cleared' = turns /\ UNCHANGED <<turns, state, cache, tmp, crossed>>
    BY <1>0, <1>5 DEF Unlink, Clearing, At, Done
  <2>2. ~crossed => Alone(t)
    BY <2>1 DEF ClearInv
  <2>3. \A f : f = Empty => YoungFile(f)'
    BY DEF YoungFile, YoungSeq, Empty
  <2>4. ~crossed => AllYoung'
    BY <2>1, <2>2, <2>3, MarkAssumption DEF Alone, AllYoung, YoungSeq, state
  <2>5. ~crossed => \A u \in Threads : YoungThread(u)' /\ ~Clearing(u)'
    BY <2>1, <2>2, <2>3 DEF Alone, YoungThread, Busy, At, Clearing
  <2>6. \A u \in Threads : At(u, "replace")' <=> At(u, "replace")
    BY <2>1 DEF At
  <2> QED
    BY <2>1, <2>4, <2>5, <2>6 DEF ClearInv, TypeInv, Typed
<1> QED
  BY <1>1, <1>2, <1>3, <1>4, <1>5 DEF Command

\* ClearInv is inductive.
LEMMA NextClears == TypeInv /\ FileInv /\ ClearInv /\ [Next]_vars => ClearInv'
<1> SUFFICES ASSUME TypeInv, FileInv, ClearInv, [Next]_vars PROVE ClearInv'
  OBVIOUS
<1>1. CASE UNCHANGED vars
  BY <1>1 DEF vars, state, disk, marks, ClearInv, AllYoung, YoungThread, Alone, YoungSeq, YoungFile,
             Busy, At, Clearing
<1>2. CASE Restart
  <2>1. /\ tmp' = None /\ \A t \in Threads : job'[t].at = "idle"
        /\ UNCHANGED <<turns, cache, file, cleared, crossed>>
    BY <1>2, IdleTyped DEF Restart
  <2>2. \/ history' = <<>> /\ results' = 0
        \/ file \in Snapshot /\ history' = file.history /\ results' = file.results
    BY <1>2 DEF Restart, Holds, Empty, TypeInv, Typed
  <2>3. ~crossed => AllYoung'
    BY <2>1, <2>2, MarkAssumption DEF ClearInv, AllYoung, YoungSeq, YoungFile
  <2>4. \A t \in Threads : YoungThread(t)' /\ ~Clearing(t)'
    BY <2>1 DEF YoungThread, Busy, At, Clearing
  <2> QED
    BY <2>1, <2>3, <2>4 DEF ClearInv
<1> QED
  BY <1>1, <1>2, QueryClears, SaveClears, CommandClears DEF Next

\* Of the turns before a clear that was reported done nothing comes back, unless a clear or
\* a load crossed another operation.
THEOREM SessionStaysCleared == Spec => []ClearedStaysCleared
<1>1. Init => FileInv
  BY MarkAssumption, IdleTyped DEF Init, FileInv, At
<1>2. Init => ClearInv
  BY MarkAssumption, IdleTyped DEF Init, ClearInv, AllYoung, YoungThread, YoungSeq, Busy, At, Clearing
<1>3. TypeInv /\ ClearInv => ClearedStaysCleared
  BY DEF TypeInv, Typed, ClearInv, AllYoung, YoungSeq, YoungFile, ClearedStaysCleared
<1> QED
  BY <1>1, <1>2, <1>3, InitTypes, NextTypes, NextFiles, NextClears, PTL DEF Spec

-----------------------------------------------------------------------------
\* QuietIsSaved: what is at rest is in the file, whichever of interleaved
\* queries saved last.

\* A file that is what it was when it was dumped: its keys are strings.
StoredFile(f) == f \in Snapshot /\ AsStored(f.pages) = f.pages

\* What a restart would find.
OnDisk == IF file = None THEN Empty ELSE file

\* Someone will still save, or has the session to himself.
SaveToCome == \E t \in Threads : Busy(t) \/ At(t, "save") \/ Clearing(t)

\* Else the last dump has the session as it is: in the temp file before the rename, in the
\* file after it.
InPlace == IF \E t \in Threads : At(t, "replace") THEN tmp = Current ELSE OnDisk = Current

StoredInv ==
    /\ file \in {None, Garbled} \/ StoredFile(file)
    /\ tmp \in {None, Garbled} \/ StoredFile(tmp)
    /\ \A t \in Threads : At(t, "replace") => StoredFile(job[t].dump)

SavedInv == ~crossed /\ ~clash /\ ~unsaved => SaveToCome \/ InPlace

\* What is dumped has strings for keys.
LEMMA CurrentStored ==
    ASSUME Typed
    PROVE  StoredFile(Current)
<1>1. Current \in Snapshot
  BY CurrentTyped
<1>2. AsStored(Current.pages) = Current.pages
  BY StoredPages DEF Typed, Current
<1> QED
  BY <1>1, <1>2 DEF StoredFile

\* A session that was loaded is what the file holds.
LEMMA LoadedIsStored ==
    ASSUME NEW f, StoredFile(f), Holds(f)
    PROVE  Current' = f
<1>1. Current' = [history |-> f.history, results |-> f.results, pages |-> f.pages]
  BY DEF StoredFile, Holds, Current, AsStored
<1> QED
  BY <1>1 DEF StoredFile, Snapshot

\* The same of an empty session.
LEMMA EmptyIsStored ==
    ASSUME Holds(Empty)
    PROVE  Current' = Empty
  BY EmptyStored DEF Holds, Empty, Current, AsStored

\* A step that leaves the files, after which no other thread is at the rename.
LEMMA StoredFrame ==
    ASSUME TypeInv, StoredInv, UNCHANGED <<file, tmp>>,
           \A t \in Threads : At(t, "replace")' => job'[t] = job[t]
    PROVE  StoredInv'
  BY DEF StoredInv, StoredFile, AsStored, At

\* StoredInv in the next state, the primes at the variables.
LEMMA StoredPrimed ==
    StoredInv' <=> /\ file' \in {None, Garbled} \/ StoredFile(file')
                   /\ tmp' \in {None, Garbled} \/ StoredFile(tmp')
                   /\ \A t \in Threads : At(t, "replace")' => StoredFile(job'[t].dump)
  BY DEF StoredInv, StoredFile, AsStored

\* Whatever a file holds has strings for keys.
LEMMA NextStored == TypeInv /\ StoredInv /\ [Next]_vars => StoredInv'
<1> SUFFICES ASSUME TypeInv, StoredInv, [Next]_vars PROVE StoredInv'
  OBVIOUS
<1>0. job \in [Threads -> Job] /\ Idle.at = "idle" /\ \A t \in Threads : job[t] \in Job
  BY IdleTyped DEF TypeInv, Typed
<1>1. CASE UNCHANGED vars
  BY <1>1, StoredFrame DEF vars, disk, marks, At
<1>2. ASSUME NEW t \in Threads, AskFresh(t) \/ AskAboutResults(t) PROVE StoredInv'
  <2>1. UNCHANGED <<file, tmp>>
    BY <1>2 DEF AskFresh, AskAboutResults, disk
  <2>2. \A u \in Threads : At(u, "replace")' => job'[u] = job[u]
    BY <1>0, <1>2 DEF AskFresh, AskAboutResults, At, Idle
  <2> QED
    BY <2>1, <2>2, StoredFrame
<1>3. ASSUME NEW t \in Threads, Search(t) \/ LoadPage(t) \/ QueryFails(t) PROVE StoredInv'
  <2>1. UNCHANGED <<file, tmp>>
    BY <1>3 DEF Search, LoadPage, QueryFails, disk, marks
  <2>2. \A u \in Threads : At(u, "replace")' => job'[u] = job[u]
    BY <1>0, <1>3 DEF Search, LoadPage, QueryFails, Goto, Done, At, Job
  <2> QED
    BY <2>1, <2>2, StoredFrame
<1>4. ASSUME NEW t \in Threads, AppendTurn(t) \/ Trim(t) \/ DeletePage(t) \/ StoreAnswer(t)
      PROVE StoredInv'
  <2>1. UNCHANGED <<file, tmp>>
    BY <1>4 DEF AppendTurn, Trim, DeletePage, StoreAnswer, disk, marks
  <2>2. \A u \in Threads \ {t} : job'[u] = job[u]
    BY <1>0, <1>4 DEF AppendTurn, Trim, DeletePage, StoreAnswer, Goto, Done
  <2>3. job'[t].at # "replace"
    <3>1. CASE AppendTurn(t)
      BY <1>0, <3>1 DEF AppendTurn, Job
    <3>2. CASE Trim(t) \/ StoreAnswer(t)
      BY <1>0, <3>2 DEF Trim, StoreAnswer, Goto, Job
    <3>3. CASE DeletePage(t)
      BY <1>0, <3>3 DEF DeletePage, Done, At, Job
    <3> QED
      BY <1>4, <3>1, <3>2, <3>3
  <2> QED
    BY <2>1, <2>2, <2>3, StoredFrame DEF At
<1>5. ASSUME NEW t \in Threads, Dump(t) PROVE StoredInv'
  <2>1. /\ job'[t].dump = Current /\ tmp' = Current /\ UNCHANGED file
        /\ \A u \in Threads \ {t} : job'[u] = job[u]
    BY <1>0, <1>5 DEF Dump, BeginSave, Idle
  <2>2. StoredFile(Current)
    BY CurrentStored DEF TypeInv
  <2>3. \A u \in Threads : At(u, "replace")' => StoredFile(job'[u].dump)
    BY <2>1, <2>2 DEF StoredInv, At
  <2>4. file' \in {None, Garbled} \/ StoredFile(file')
    BY <2>1 DEF StoredInv
  <2> QED
    BY <2>1, <2>2, <2>3, <2>4, StoredPrimed
<1>6. ASSUME NEW t \in Threads, SaveFails(t) PROVE StoredInv'
  <2>1. /\ job'[t].at = "idle" /\ file' = file /\ tmp' \in {None, Garbled}
        /\ \A u \in Threads \ {t} : job'[u] = job[u]
    BY <1>0, <1>6 DEF SaveFails, BeginSave, Done
  <2> QED
    BY <2>1 DEF StoredInv, StoredFile, AsStored, At
<1>7. ASSUME NEW t \in Threads, Replace(t) PROVE StoredInv'
  <2>1. /\ At(t, "replace") /\ job'[t].at = "idle" /\ tmp' = None
        /\ file' \in {file, tmp, job[t].dump, Garbled}
        /\ \A u \in Threads \ {t} : job'[u] = job[u]
    BY <1>0, <1>7 DEF Replace, Done
  <2>2. file' \in {None, Garbled} \/ StoredFile(file')
    BY <2>1 DEF StoredInv
  <2>3. \A u \in Threads : At(u, "replace")' => StoredFile(job'[u].dump)
    BY <2>1 DEF StoredInv, At
  <2> QED
    BY <2>1, <2>2, <2>3, StoredPrimed
<1>8. ASSUME NEW t \in Threads, Load(t) PROVE StoredInv'
  BY <1>8, StoredFrame DEF Load, disk, At
<1>9. ASSUME NEW t \in Threads, ClearState(t) \/ ClearCache(t) \/ ClearFails(t) PROVE StoredInv'
  <2>1. UNCHANGED <<file, tmp>>
    BY <1>9 DEF ClearState, ClearCache, ClearFails, disk, marks
  <2>2. \A u \in Threads : At(u, "replace")' => job'[u] = job[u]
    BY <1>0, <1>9 DEF ClearState, ClearCache, ClearFails, Goto, Done, At, Job
  <2> QED
    BY <2>1, <2>2, StoredFrame
<1>10. ASSUME NEW t \in Threads, Unlink(t) PROVE StoredInv'
  <2>1. /\ job'[t].at = "idle" /\ file' = None /\ UNCHANGED tmp
        /\ \A u \in Threads \ {t} : job'[u] = job[u]
    BY <1>0, <1>10 DEF Unlink, Done
  <2> QED
    BY <2>1 DEF StoredInv, StoredFile, AsStored, At
<1>11. CASE Restart
  BY <1>0, <1>11 DEF Restart, StoredInv, StoredFile, AsStored, At
<1> QED
  BY <1>1, <1>2, <1>3, <1>4, <1>5, <1>6, <1>7, <1>8, <1>9, <1>10, <1>11 DEF Next, Query, Save, Command

-----------------------------------------------------------------------------
\* While one thread has still to save, or has the session to himself, the rest is free.
LEMMA ToComeFrame ==
    ASSUME NEW t \in Threads,
           job'[t].at \in {"route", "load", "generate", "trim", "evict", "save",
                          "clear_cache", "unlink"}
    PROVE  SavedInv'
  BY DEF SavedInv, SaveToCome, Busy, At, Clearing

\* SavedInv is inductive.
LEMMA NextSaved ==
    TypeInv /\ FileInv /\ ClearInv /\ StoredInv /\ SavedInv /\ [Next]_vars => SavedInv'
<1> SUFFICES ASSUME TypeInv, FileInv, ClearInv, StoredInv, SavedInv, [Next]_vars PROVE SavedInv'
  OBVIOUS
<1>0. job \in [Threads -> Job] /\ Idle.at = "idle" /\ \A t \in Threads : job[t] \in Job
  BY IdleTyped DEF TypeInv, Typed
<1>1. CASE UNCHANGED vars
  BY <1>1 DEF vars, state, disk, marks, SavedInv, SaveToCome, InPlace, OnDisk, Current, AsStored,
             Busy, At, Clearing
<1>2. ASSUME NEW t \in Threads, Query(t) PROVE SavedInv'
  <2>1. CASE AskFresh(t) \/ AskAboutResults(t)
    <3>1. job'[t].at \in {"route", "load", "generate"}
      BY <1>0, <2>1 DEF AskFresh, AskAboutResults, BeginQuery, Idle
    <3> QED
      BY <3>1, ToComeFrame
  <2>2. CASE Search(t)
    BY <1>0, <2>2, ToComeFrame DEF Search, Goto, Job
  <2>3. CASE LoadPage(t)
    <3>1. job'[t].at \in {"load", "generate"}
      BY <1>0, <2>3 DEF LoadPage, At, Job
    <3> QED
      BY <3>1, ToComeFrame
  <2>4. CASE QueryFails(t)
    BY <2>4 DEF QueryFails, SavedInv
  <2>5. CASE AppendTurn(t)
    <3>1. job'[t].at \in {"trim", "evict"}
      BY <1>0, <2>5 DEF AppendTurn, Job
    <3> QED
      BY <3>1, ToComeFrame
  <2>6. CASE Trim(t) \/ StoreAnswer(t)
    <3>1. job'[t].at \in {"evict", "save"}
      BY <1>0, <2>6 DEF Trim, StoreAnswer, Goto, Job
    <3> QED
      BY <3>1, ToComeFrame
  <2>7. CASE DeletePage(t)
    <3>1. unsaved' \/ job'[t].at = "evict"
      BY <1>0, <2>7 DEF DeletePage, At, Job
    <3>2. CASE unsaved'
      BY <3>2 DEF SavedInv
    <3> QED
      BY <3>1, <3>2, ToComeFrame
  <2> QED
    BY <1>2, <2>1, <2>2, <2>3, <2>4, <2>5, <2>6, <2>7 DEF Query
<1>3. ASSUME NEW t \in Threads, Dump(t) PROVE SavedInv'
  <2>1. job'[t].at = "replace" /\ tmp' = Current /\ UNCHANGED state
    BY <1>0, <1>3 DEF Dump, BeginSave, Idle
  <2>2. Current' = Current
    BY <2>1 DEF Current, AsStored, state
  <2> QED
    BY <2>1, <2>2 DEF SavedInv, InPlace, At
<1>4. ASSUME NEW t \in Threads, SaveFails(t) PROVE SavedInv'
  BY <1>4 DEF SaveFails, SavedInv
<1>5. ASSUME NEW t \in Threads, Replace(t) PROVE SavedInv'
  <2> SUFFICES ASSUME ~crossed', ~clash', ~unsaved' PROVE (SaveToCome \/ InPlace)'
    BY DEF SavedInv
  <2>1. /\ At(t, "replace") /\ job'[t].at = "idle" /\ UNCHANGED <<state, crossed, clash>>
        /\ \A u \in Threads \ {t} : job'[u] = job[u]
    BY <1>0, <1>5 DEF Replace, Done
  <2>2. tmp \in Snapshot /\ ~Contended(t)
    BY <2>1 DEF FileInv, Contended
  <2>3. file' = tmp /\ ~unsaved
    BY <1>5, <2>2, MarkAssumption DEF Replace
  <2>4. CASE SaveToCome
    BY <2>1, <2>4 DEF SaveToCome, Busy, At, Clearing
  <2>5. CASE InPlace
    <3>1. tmp = Current
      BY <2>1, <2>5 DEF InPlace
    <3>2. Current' = Current
      BY <2>1 DEF Current, AsStored, state
    <3>3. \A u \in Threads : ~At(u, "replace")'
      BY <2>1, <2>2 DEF Contended, At
    <3> QED
      BY <2>2, <2>3, <3>1, <3>2, <3>3, MarkAssumption DEF InPlace, OnDisk
  <2> QED
    BY <2>1, <2>3, <2>4, <2>5 DEF SavedInv
<1>6. ASSUME NEW t \in Threads, Load(t) PROVE SavedInv'
  <2>1. /\ StoredFile(file) /\ Holds(file) /\ UNCHANGED <<job, file>> /\ (~crossed' => Quiet)
    BY <1>6 DEF Load, BeginReplacing, StoredInv, disk
  <2>2. Current' = file /\ file # None
    BY <2>1, LoadedIsStored, MarkAssumption DEF StoredFile
  <2> QED
    BY <2>1, <2>2 DEF SavedInv, InPlace, OnDisk, At, Quiet
<1>7. ASSUME NEW t \in Threads, ClearState(t) \/ ClearCache(t) PROVE SavedInv'
  <2>1. job'[t].at \in {"clear_cache", "unlink"}
    BY <1>0, <1>7 DEF ClearState, ClearCache, Goto, Job
  <2> QED
    BY <2>1, ToComeFrame
<1>8. ASSUME NEW t \in Threads, ClearFails(t) PROVE SavedInv'
  BY <1>8 DEF ClearFails, SavedInv
<1>9. ASSUME NEW t \in Threads, Unlink(t) PROVE SavedInv'
  <2> SUFFICES ASSUME ~crossed', ~clash' PROVE InPlace'
    BY DEF SavedInv
  <2>1. /\ At(t, "unlink") /\ Clearing(t) /\ job'[t].at = "idle" /\ file' = None
        /\ UNCHANGED <<state, tmp, crossed, clash>> /\ \A u \in Threads \ {t} : job'[u] = job[u]
    BY <1>0, <1>9 DEF Unlink, Clearing, At, Done
  <2>2. Alone(t)
    BY <2>1 DEF ClearInv
  <2>3. Current' = Empty
    BY <2>1, <2>2, EmptyStored DEF Alone, Current, AsStored, Empty, state
  <2>4. (\E u \in Threads : At(u, "replace")') => tmp' = Empty
    BY <2>1, <2>2 DEF Alone, FileInv, At
  <2> QED
    BY <2>1, <2>3, <2>4 DEF InPlace, OnDisk
<1>10. CASE Restart
  <2>1. \A t \in Threads : ~At(t, "replace")'
    BY <1>0, <1>10 DEF Restart, At
  <2>2. CASE file = Garbled
    BY <1>10, <2>2 DEF Restart, FileInv, SavedInv
  <2>3. CASE file = None
    <3>1. Current' = Empty
      BY <1>10, <2>3, EmptyIsStored DEF Restart
    <3> QED
      BY <1>10, <2>1, <2>3, <3>1 DEF Restart, SavedInv, InPlace, OnDisk
  <2>4. CASE file \notin {None, Garbled}
    <3>1. Current' = file
      BY <1>10, <2>4, LoadedIsStored DEF Restart, StoredInv
    <3> QED
      BY <1>10, <2>1, <2>4, <3>1 DEF Restart, SavedInv, InPlace, OnDisk
  <2> QED
    BY <2>2, <2>3, <2>4
<1> QED
  BY <1>1, <1>2, <1>3, <1>4, <1>5, <1>6, <1>7, <1>8, <1>9, <1>10 DEF Next, Save, Command

\* When nothing is under way the file holds the session, unless a query or a save failed, or
\* a clear, a load or two saves overlapped something.
THEOREM SessionSaved == Spec => []QuietIsSaved
<1>1. Init => FileInv
  BY MarkAssumption, IdleTyped DEF Init, FileInv, At
<1>2. Init => ClearInv
  BY MarkAssumption, IdleTyped DEF Init, ClearInv, AllYoung, YoungThread, YoungSeq, Busy, At, Clearing
<1>3. Init => StoredInv
  BY IdleTyped DEF Init, StoredInv, At
<1>4. Init => SavedInv
  BY IdleTyped, EmptyStored DEF Init, SavedInv, InPlace, OnDisk, Current, Empty, At
<1>5. SavedInv => QuietIsSaved
  BY DEF SavedInv, SaveToCome, InPlace, OnDisk, QuietIsSaved, Quiet, Busy, At, Clearing
<1> QED
  BY <1>1, <1>2, <1>3, <1>4, <1>5, InitTypes, NextTypes, NextFiles, NextClears, NextStored, NextSaved,
     PTL DEF Spec

-----------------------------------------------------------------------------
\* No turn is recorded twice: a thread appends its turn to the history once, and neither the
\* slice of another thread nor a session that is loaded brings it in before that.

\* The turns that are still to be appended.
Awaited == {job[t].turn : t \in {u \in Threads : Asking(u)}}

\* A history of some of the first n turns, none of them in A.
Apart(s, n, A) == Distinct(s) /\ \A i \in DOMAIN s : s[i] <= n /\ s[i] \notin A
ApartFile(f, n, A) == f \in {None, Garbled} \/ Apart(f.history, n, A)

\* Everything that can become the history has no turn twice and none that is awaited.
OnceInv ==
    /\ Apart(history, turns, Awaited)
    /\ ApartFile(file, turns, Awaited) /\ ApartFile(tmp, turns, Awaited)
    /\ \A t \in Threads : Apart(job[t].kept, turns, Awaited) /\ ApartFile(job[t].dump, turns, Awaited)
    /\ \A t \in Threads : Asking(t) => job[t].turn <= turns
    /\ \A t, u \in Threads : Asking(t) /\ Asking(u) /\ job[t].turn = job[u].turn => t = u

\* A history stays apart when turns begin, and when one that was awaited no longer is.
LEMMA ApartLater ==
    ASSUME NEW s \in Seq(Turns), NEW n \in Nat, NEW m \in Nat, n <= m, NEW A, NEW B,
           \A b \in B : b \in A \/ b > n,
           Apart(s, n, A)
    PROVE  Apart(s, m, B)
<1>1. \A i \in DOMAIN s : s[i] \in Nat
  BY Limits
<1> QED
  BY <1>1 DEF Apart

\* The same of what a file holds.
LEMMA ApartFileLater ==
    ASSUME NEW f \in Snapshot \union {None, Garbled}, NEW n \in Nat, NEW m \in Nat, n <= m,
           NEW A, NEW B,
           \A b \in B : b \in A \/ b > n,
           ApartFile(f, n, A)
    PROVE  ApartFile(f, m, B)
  BY ApartLater DEF ApartFile, Snapshot

\* The slice of a history without repetition has none.
LEMMA LastApart ==
    ASSUME NEW s \in Seq(Turns), NEW n, NEW A, Apart(s, n, A)
    PROVE  Apart(Last(s, MaxHistory), n, A)
<1>1. MaxHistory \in Nat \ {0}
  BY Limits
<1>2. CASE Len(s) > MaxHistory
  <2> DEFINE l == Last(s, MaxHistory)
             k == Len(s) - MaxHistory
  <2>1. l = SubSeq(s, k + 1, Len(s)) /\ Len(s) \in Nat /\ k \in Nat
    BY <1>1, <1>2 DEF Last
  <2>2. DOMAIN l = 1 .. MaxHistory /\ \A i \in 1 .. MaxHistory : l[i] = s[i + k] /\ i + k \in DOMAIN s
    BY <1>1, <1>2, <2>1
  <2> HIDE DEF l, k
  <2>3. \A i, j \in 1 .. MaxHistory : l[i] = l[j] => i = j
    <3> SUFFICES ASSUME NEW i \in 1 .. MaxHistory, NEW j \in 1 .. MaxHistory, l[i] = l[j] PROVE i = j
      OBVIOUS
    <3>1. i + k = j + k
      BY <2>2 DEF Apart, Distinct
    <3> QED
      BY <1>1, <2>1, <3>1
  <2>4. Apart(l, n, A)
    BY <2>2, <2>3 DEF Apart, Distinct
  <2> QED
    BY <2>4 DEF l
<1>3. CASE ~(Len(s) > MaxHistory)
  BY <1>3 DEF Last
<1> QED
  BY <1>2, <1>3

\* One more turn: it was not in the history and is no longer awaited.
LEMMA AppendApart ==
    ASSUME NEW s \in Seq(Turns), NEW n \in Nat, NEW x \in Turns, x <= n, NEW A, NEW B,
           x \in A, x \notin B, B \subseteq A,
           Apart(s, n, A)
    PROVE  Apart(Append(s, x), n, B)
<1>1. /\ Len(s) \in Nat /\ DOMAIN s = 1 .. Len(s) /\ DOMAIN Append(s, x) = 1 .. Len(s) + 1
      /\ \A i \in DOMAIN s : Append(s, x)[i] = s[i]
      /\ Append(s, x)[Len(s) + 1] = x
  OBVIOUS
<1>2. \A i \in DOMAIN s : s[i] # x
  BY DEF Apart
<1>3. \A i \in DOMAIN Append(s, x) : i \in DOMAIN s \/ i = Len(s) + 1
  BY <1>1
<1>4. Distinct(Append(s, x))
  BY <1>1, <1>2, <1>3 DEF Apart, Distinct
<1> QED
  BY <1>1, <1>3, <1>4 DEF Apart

\* What a thread that begins keeps.
LEMMA NothingApart ==
    ASSUME NEW n, NEW A
    PROVE  Apart(<<>>, n, A) /\ ApartFile(None, n, A)
<1>1. DOMAIN <<>> = {}
  OBVIOUS
<1> QED
  BY <1>1 DEF Apart, ApartFile, Distinct

\* A step of one thread after which no turn is awaited that was not.
LEMMA OnceFrame ==
    ASSUME TypeInv, OnceInv, NEW t \in Threads, NEW r \in Job,
           r.at \in {"route", "load", "generate"} => Asking(t) /\ r.turn = job[t].turn,
           Apart(r.kept, turns, Awaited), ApartFile(r.dump, turns, Awaited),
           job' = [job EXCEPT ![t] = r], turns' = turns,
           history' \in Seq(Turns), Apart(history', turns, Awaited),
           file' \in Snapshot \union {None, Garbled}, ApartFile(file', turns, Awaited),
           tmp' \in Snapshot \union {None, Garbled}, ApartFile(tmp', turns, Awaited)
    PROVE  OnceInv'
<1>1. /\ \A u \in Threads : Asking(u)' => Asking(u) /\ job'[u].turn = job[u].turn
      /\ turns \in Nat /\ turns <= turns
  BY Limits DEF Asking, TypeInv, Typed
<1>2. \A b \in Awaited' : b \in Awaited \/ b > turns
  BY <1>1 DEF Awaited
<1>3. \A u \in Threads : job'[u] \in Job /\ job'[u].kept \in Seq(Turns)
                         /\ job'[u].dump \in Snapshot \union {None, Garbled}
  BY DEF TypeInv, Typed, Job
<1>4. \A u \in Threads : Apart(job'[u].kept, turns, Awaited) /\ ApartFile(job'[u].dump, turns, Awaited)
  BY DEF OnceInv, TypeInv, Typed
<1>5. \A u \in Threads : Apart(job'[u].kept, turns, Awaited')
  BY <1>1, <1>2, <1>3, <1>4, ApartLater
<1>6. \A u \in Threads : ApartFile(job'[u].dump, turns, Awaited')
  BY <1>1, <1>2, <1>3, <1>4, ApartFileLater
<1>7. Apart(history', turns, Awaited')
  BY <1>1, <1>2, ApartLater
<1>8. ApartFile(file', turns, Awaited') /\ ApartFile(tmp', turns, Awaited')
  BY <1>1, <1>2, ApartFileLater
<1>9. /\ \A u \in Threads : Asking(u)' => job'[u].turn <= turns
      /\ \A u, v \in Threads : Asking(u)' /\ Asking(v)' /\ job'[u].turn = job'[v].turn => u = v
  BY <1>1 DEF OnceInv
<1> QED
  BY <1>5, <1>6, <1>7, <1>8, <1>9 DEF OnceInv, Apart, ApartFile, Distinct

\* A query that begins awaits the next turn, the only one to do so.
LEMMA OnceBegins ==
    ASSUME TypeInv, OnceInv, NEW t \in Threads, NEW r \in Job,
           r.turn = turns', r.kept = <<>>, r.dump = None,
           job' = [job EXCEPT ![t] = r], turns' = turns + 1, turns' \in Turns,
           UNCHANGED <<history, file, tmp>>
    PROVE  OnceInv'
<1>1. /\ turns \in Nat /\ turns' \in Nat /\ turns < turns' /\ turns <= turns'
      /\ \A u \in Threads : Asking(u) => job[u].turn \in Turns /\ job[u].turn <= turns
  BY Limits DEF OnceInv, TypeInv, Typed, Asking, Busy
<1>2. \A u \in Threads : job'[u] = r \/ (u # t /\ job'[u] = job[u])
  BY DEF TypeInv, Typed
<1>3. job'[t] = r
  BY DEF TypeInv, Typed
<1>4. \A b \in Awaited' : b \in Awaited \/ b > turns
  BY <1>1, <1>2 DEF Awaited, Asking
<1>5. \A u \in Threads : job[u].kept \in Seq(Turns) /\ job[u].dump \in Snapshot \union {None, Garbled}
  BY DEF TypeInv, Typed, Job
<1>6. \A u \in Threads : Apart(job[u].kept, turns', Awaited') /\ ApartFile(job[u].dump, turns', Awaited')
  BY <1>1, <1>4, <1>5, ApartLater, ApartFileLater DEF OnceInv
<1>7. \A u \in Threads : Apart(job'[u].kept, turns', Awaited') /\ ApartFile(job'[u].dump, turns', Awaited')
  BY <1>2, <1>6, NothingApart
<1>8. Apart(history, turns', Awaited')
  BY <1>1, <1>4, ApartLater DEF OnceInv, TypeInv, Typed
<1>9. ApartFile(file, turns', Awaited') /\ ApartFile(tmp, turns', Awaited')
  BY <1>1, <1>4, ApartFileLater DEF OnceInv, TypeInv, Typed
<1>10. ASSUME NEW u \in Threads, Asking(u)' PROVE job'[u].turn <= turns'
  <2>1. CASE job'[u] = r
    BY <1>1, <2>1
  <2>2. CASE job'[u] = job[u]
    <3>1. job[u].turn \in Turns /\ job[u].turn <= turns
      BY <1>1, <1>10, <2>2 DEF Asking
    <3> QED
      BY <1>1, <2>2, <3>1, Limits
  <2> QED
    BY <1>2, <2>1, <2>2
<1>11. ASSUME NEW u \in Threads, NEW v \in Threads, Asking(u)', Asking(v)', job'[u].turn = job'[v].turn
       PROVE  u = v
  <2>1. CASE u # t /\ v # t
    BY <1>2, <1>11, <2>1 DEF Asking, OnceInv, TypeInv, Typed
  <2>2. CASE u = t /\ v # t
    BY <1>1, <1>3, <1>11, <2>2 DEF Asking, TypeInv, Typed
  <2>3. CASE v = t /\ u # t
    BY <1>1, <1>3, <1>11, <2>3 DEF Asking, TypeInv, Typed
  <2> QED
    BY <2>1, <2>2, <2>3
<1> QED
  BY <1>7, <1>8, <1>9, <1>10, <1>11 DEF OnceInv, Apart, ApartFile, Distinct

\* A thread appends its turn, which nobody else awaits, and may keep the slice.
LEMMA OnceAppends ==
    ASSUME TypeInv, OnceInv, NEW t \in Threads, AppendTurn(t)
    PROVE  OnceInv'
<1>0. /\ job \in [Threads -> Job] /\ job[t] \in Job /\ Asking(t) /\ job[t].turn \in Turns
      /\ turns' = turns /\ turns \in Nat /\ turns <= turns
      /\ history' = Append(history, job[t].turn) /\ history \in Seq(Turns)
      /\ UNCHANGED <<file, tmp>> /\ job[t].turn <= turns
  BY Limits DEF AppendTurn, OnceInv, TypeInv, Typed, Asking, Busy, disk
<1>1. PICK ok \in Outcomes : job' = [job EXCEPT ![t] =
           IF Len(history') > MaxHistory
           THEN [@ EXCEPT !.at = "trim", !.num = 0, !.ok = ok, !.kept = Last(history', MaxHistory)]
           ELSE [@ EXCEPT !.at = "evict", !.num = 0, !.ok = ok, !.gone = Oldest]]
  BY DEF AppendTurn
<1>2. /\ job'[t].at \in {"trim", "evict"} /\ job'[t].kept \in {job[t].kept, Last(history', MaxHistory)}
      /\ job'[t].dump = job[t].dump
      /\ \A u \in Threads \ {t} : job'[u] = job[u]
  BY <1>0, <1>1 DEF Job
<1>3. /\ \A u \in Threads : Asking(u)' => u # t /\ Asking(u) /\ job'[u].turn = job[u].turn
      /\ \A u \in Threads : Asking(u)' => job'[u].turn # job[t].turn
  BY <1>0, <1>2 DEF Asking, OnceInv
<1>4. job[t].turn \in Awaited /\ job[t].turn \notin Awaited' /\ Awaited' \subseteq Awaited
  BY <1>0, <1>3 DEF Awaited
<1>5. Apart(history', turns, Awaited')
  BY <1>0, <1>4, AppendApart DEF OnceInv
<1>6. Apart(Last(history', MaxHistory), turns, Awaited')
  <2>1. history' \in Seq(Turns)
    BY <1>0
  <2> QED
    BY <1>5, <2>1, LastApart
<1>7. \A u \in Threads : job[u].kept \in Seq(Turns) /\ job[u].dump \in Snapshot \union {None, Garbled}
  BY DEF TypeInv, Typed, Job
<1>8. \A b \in Awaited' : b \in Awaited \/ b > turns
  BY <1>4
<1>9. \A u \in Threads : Apart(job[u].kept, turns, Awaited') /\ ApartFile(job[u].dump, turns, Awaited')
  BY <1>0, <1>7, <1>8, ApartLater, ApartFileLater DEF OnceInv
<1>10. \A u \in Threads : Apart(job'[u].kept, turns, Awaited') /\ ApartFile(job'[u].dump, turns, Awaited')
  BY <1>2, <1>6, <1>9
<1>11. ApartFile(file, turns, Awaited') /\ ApartFile(tmp, turns, Awaited')
  BY <1>0, <1>8, ApartFileLater DEF OnceInv, TypeInv, Typed
<1>12. /\ \A u \in Threads : Asking(u)' => job'[u].turn <= turns
       /\ \A u, v \in Threads : Asking(u)' /\ Asking(v)' /\ job'[u].turn = job'[v].turn => u = v
  BY <1>3 DEF OnceInv
<1> QED
  BY <1>0, <1>5, <1>10, <1>11, <1>12 DEF OnceInv, Apart, ApartFile, Distinct

\* What may become the history stays without repetition whatever the threads do.
LEMMA NextOnce == TypeInv /\ OnceInv /\ [Next]_vars => OnceInv'
<1> SUFFICES ASSUME TypeInv, OnceInv, [Next]_vars PROVE OnceInv'
  OBVIOUS
<1>0. /\ job \in [Threads -> Job] /\ \A t \in Threads : job[t] \in Job
      /\ Idle \in Job /\ Idle.at = "idle" /\ Idle.kept = <<>> /\ Idle.dump = None
      /\ history \in Seq(Turns)
      /\ file \in Snapshot \union {None, Garbled} /\ tmp \in Snapshot \union {None, Garbled}
      /\ turns \in 0 .. MaxTurns
  BY IdleTyped DEF TypeInv, Typed, Idle
<1>00. /\ Apart(history, turns, Awaited)
       /\ ApartFile(file, turns, Awaited) /\ ApartFile(tmp, turns, Awaited)
       /\ ApartFile(None, turns, Awaited) /\ ApartFile(Garbled, turns, Awaited)
       /\ Apart(<<>>, turns, Awaited)
       /\ \A t \in Threads : Apart(job[t].kept, turns, Awaited)
                             /\ ApartFile(job[t].dump, turns, Awaited)
  BY NothingApart DEF OnceInv, ApartFile
<1>1. CASE UNCHANGED vars
  BY <1>1 DEF vars, state, disk, OnceInv, Apart, ApartFile, Distinct, Awaited, Asking
<1>2. ASSUME NEW t \in Threads, AskFresh(t) PROVE OnceInv'
  <2>1. PICK q \in Questions \union {None} :
           job' = [job EXCEPT ![t] = [Idle EXCEPT !.at = "route", !.turn = turns', !.key = q]]
    BY <1>2 DEF AskFresh
  <2> DEFINE r == [Idle EXCEPT !.at = "route", !.turn = turns', !.key = q]
  <2>2. turns' = turns + 1 /\ turns' \in Turns /\ UNCHANGED <<history, file, tmp>>
    BY <1>0, <1>2, Limits DEF AskFresh, BeginQuery, state, disk, Turns
  <2>3. r \in Job
    BY <1>0, <2>2, Limits DEF Job, Labels
  <2>4. r.turn = turns' /\ r.kept = <<>> /\ r.dump = None
    BY DEF Idle
  <2>5. job' = [job EXCEPT ![t] = r]
    BY <2>1
  <2> HIDE DEF r
  <2> QED
    BY <2>2, <2>3, <2>4, <2>5, OnceBegins
<1>3. ASSUME NEW t \in Threads, AskAboutResults(t) PROVE OnceInv'
  <2>1. PICK n \in ResultNums :
           job' = [job EXCEPT ![t] =
              IF results = 0 THEN [Idle EXCEPT !.at = "generate", !.turn = turns']
              ELSE [Idle EXCEPT !.at = "load", !.turn = turns', !.num = n]]
    BY <1>3 DEF AskAboutResults
  <2> DEFINE g == [Idle EXCEPT !.at = "generate", !.turn = turns']
             l == [Idle EXCEPT !.at = "load", !.turn = turns', !.num = n]
  <2>2. turns' = turns + 1 /\ turns' \in Turns /\ UNCHANGED <<history, file, tmp>>
    BY <1>0, <1>3, Limits DEF AskAboutResults, BeginQuery, state, disk, Turns
  <2>3. g \in Job /\ l \in Job
    BY <1>0, <2>2, Limits DEF Job, Labels
  <2>4. g.turn = turns' /\ g.kept = <<>> /\ g.dump = None /\ l.turn = turns' /\ l.kept = <<>> /\ l.dump = None
    BY DEF Idle
  <2>5. job' = [job EXCEPT ![t] = g] \/ job' = [job EXCEPT ![t] = l]
    BY <2>1
  <2> HIDE DEF g, l
  <2>6. CASE job' = [job EXCEPT ![t] = g]
    BY <2>2, <2>3, <2>4, <2>6, OnceBegins
  <2>7. CASE job' = [job EXCEPT ![t] = l]
    BY <2>2, <2>3, <2>4, <2>7, OnceBegins
  <2> QED
    BY <2>5, <2>6, <2>7
<1>4. ASSUME NEW t \in Threads, Search(t) PROVE OnceInv'
  <2> DEFINE r == [job[t] EXCEPT !.at = "generate"]
  <2>1. r \in Job /\ r.turn = job[t].turn /\ r.kept = job[t].kept /\ r.dump = job[t].dump
    BY <1>0 DEF Job, Labels
  <2>2. /\ job' = [job EXCEPT ![t] = r] /\ Asking(t)
        /\ UNCHANGED <<turns, history, file, tmp>>
    BY <1>0, <1>4 DEF Search, Goto, Asking, At, disk
  <2> HIDE DEF r
  <2> QED
    BY <1>0, <1>00, <2>1, <2>2, OnceFrame
<1>5. ASSUME NEW t \in Threads, LoadPage(t) PROVE OnceInv'
  <2>1. PICK r \in {[job[t] EXCEPT !.at = "generate", !.num = 0]} \union
                    {[job[t] EXCEPT !.num = n] : n \in ResultNums} :
           job' = [job EXCEPT ![t] = r]
    BY <1>0, <1>5 DEF LoadPage
  <2>2. r \in Job /\ r.turn = job[t].turn /\ r.kept = job[t].kept /\ r.dump = job[t].dump
    <3>1. [job[t] EXCEPT !.at = "generate", !.num = 0] \in Job
      BY <1>0 DEF Job, Labels
    <3>2. \A n \in ResultNums : [job[t] EXCEPT !.num = n] \in Job
      BY <1>0 DEF Job
    <3>3. /\ r.turn = job[t].turn /\ r.kept = job[t].kept /\ r.dump = job[t].dump
      BY <1>0, <2>1 DEF Job
    <3> QED
      BY <2>1, <3>1, <3>2, <3>3
  <2>3. Asking(t) /\ UNCHANGED <<turns, history, file, tmp>>
    BY <1>5 DEF LoadPage, Asking, At, disk
  <2> QED
    BY <1>0, <1>00, <2>1, <2>2, <2>3, OnceFrame
<1>6. ASSUME NEW t \in Threads, QueryFails(t) \/ ClearFails(t) PROVE OnceInv'
  <2>1. /\ job' = [job EXCEPT ![t] = Idle]
        /\ UNCHANGED <<turns, history, file, tmp>>
    BY <1>6 DEF QueryFails, ClearFails, Done, state, disk
  <2> QED
    BY <1>0, <1>00, <2>1, OnceFrame
<1>7. ASSUME NEW t \in Threads, AppendTurn(t) PROVE OnceInv'
  BY <1>7, OnceAppends
<1>8. ASSUME NEW t \in Threads, Trim(t) PROVE OnceInv'
  <2> DEFINE r == [job[t] EXCEPT !.at = "evict", !.kept = <<>>, !.gone = Oldest]
  <2>1. r \in Job /\ r.at = "evict" /\ r.kept = <<>> /\ r.dump = job[t].dump
    <3>1. Oldest \in SUBSET PageKey /\ <<>> \in Seq(Turns)
      BY DEF Oldest, Loaded
    <3> QED
      BY <1>0, <3>1 DEF Job, Labels
  <2>2. /\ job' = [job EXCEPT ![t] = r]
        /\ history' = job[t].kept /\ history' \in Seq(Turns)
        /\ UNCHANGED <<turns, file, tmp>>
    BY <1>0, <1>8 DEF Trim, Job, disk
  <2> HIDE DEF r
  <2> QED
    BY <1>0, <1>00, <2>1, <2>2, OnceFrame
<1>9. ASSUME NEW t \in Threads, DeletePage(t) PROVE OnceInv'
  <2>1. PICK k \in job[t].gone : \/ job' = [job EXCEPT ![t].gone = @ \ {k}]
                                 \/ job' = [job EXCEPT ![t] = Idle]
    BY <1>9 DEF DeletePage, Done
  <2> DEFINE r == [job[t] EXCEPT !.gone = @ \ {k}]
  <2>2. r \in Job /\ r.at = "evict" /\ r.kept = job[t].kept /\ r.dump = job[t].dump
    BY <1>0, <1>9 DEF DeletePage, At, Job
  <2>3. job' = [job EXCEPT ![t] = r] \/ job' = [job EXCEPT ![t] = Idle]
    BY <1>0, <2>1
  <2>4. UNCHANGED <<turns, history, file, tmp>>
    BY <1>9 DEF DeletePage, disk
  <2> HIDE DEF r
  <2>5. CASE job' = [job EXCEPT ![t] = r]
    BY <1>0, <1>00, <2>2, <2>4, <2>5, OnceFrame
  <2>6. CASE job' = [job EXCEPT ![t] = Idle]
    BY <1>0, <1>00, <2>4, <2>6, OnceFrame
  <2> QED
    BY <2>3, <2>5, <2>6
<1>10. ASSUME NEW t \in Threads, NEW l \in {"save", "clear_cache", "unlink"}, Goto(t, l),
              UNCHANGED <<turns, file, tmp>>,
              history' = history \/ history' = <<>>
       PROVE  OnceInv'
  <2> DEFINE r == [job[t] EXCEPT !.at = l]
  <2>1. r \in Job /\ r.at = l /\ r.kept = job[t].kept /\ r.dump = job[t].dump
    BY <1>0 DEF Job, Labels
  <2>2. job' = [job EXCEPT ![t] = r]
    BY <1>0, <1>10 DEF Goto
  <2>3. history' \in Seq(Turns)
    <3>1. <<>> \in Seq(Turns)
      OBVIOUS
    <3> QED
      BY <1>0, <1>10, <3>1
  <2> HIDE DEF r
  <2> QED
    BY <1>0, <1>00, <1>10, <2>1, <2>2, <2>3, OnceFrame
<1>11. ASSUME NEW t \in Threads, StoreAnswer(t) PROVE OnceInv'
  BY <1>10, <1>11 DEF StoreAnswer, state, disk
<1>12. ASSUME NEW t \in Threads, ClearState(t) PROVE OnceInv'
  BY <1>10, <1>12 DEF ClearState, Holds, Empty, disk
<1>13. ASSUME NEW t \in Threads, ClearCache(t) PROVE OnceInv'
  BY <1>10, <1>13 DEF ClearCache, state, disk
<1>14. ASSUME NEW t \in Threads, Dump(t) PROVE OnceInv'
  <2> DEFINE r == [Idle EXCEPT !.at = "replace", !.dump = Current]
  <2>1. Current \in Snapshot /\ Current.history = history
    BY CurrentTyped DEF TypeInv, Current
  <2>2. r \in Job /\ r.at = "replace" /\ r.kept = <<>> /\ r.dump = Current
    BY <1>0, <2>1 DEF Job, Labels
  <2>3. ApartFile(Current, turns, Awaited)
    BY <1>00, <2>1 DEF ApartFile
  <2>4. /\ job' = [job EXCEPT ![t] = r] /\ tmp' = Current
        /\ UNCHANGED <<turns, history, file>>
    BY <1>14 DEF Dump, BeginSave, state
  <2> HIDE DEF r
  <2> QED
    BY <1>0, <1>00, <2>1, <2>2, <2>3, <2>4, OnceFrame
<1>15. ASSUME NEW t \in Threads, SaveFails(t) \/ Replace(t) \/ Unlink(t) PROVE OnceInv'
  <2>1. /\ job' = [job EXCEPT ![t] = Idle] /\ UNCHANGED <<turns, history>>
        /\ file' \in {file, tmp, job[t].dump, Garbled, None}
        /\ tmp' \in {tmp, None, Garbled}
    BY <1>15 DEF SaveFails, Replace, Unlink, BeginSave, Done, state
  <2>2. job[t].dump \in Snapshot \union {None, Garbled}
    BY <1>0 DEF Job
  <2>3. file' \in Snapshot \union {None, Garbled} /\ tmp' \in Snapshot \union {None, Garbled}
    BY <1>0, <2>1, <2>2
  <2>4. ApartFile(file', turns, Awaited) /\ ApartFile(tmp', turns, Awaited)
    BY <1>00, <2>1
  <2> QED
    BY <1>0, <1>00, <2>1, <2>3, <2>4, OnceFrame
<1>16. ASSUME NEW t \in Threads, Load(t) PROVE OnceInv'
  <2>1. /\ job' = [job EXCEPT ![t] = job[t]] /\ file \in Snapshot /\ history' = file.history
        /\ file.history \in Seq(Turns) /\ UNCHANGED <<turns, file, tmp>>
    BY <1>0, <1>16 DEF Load, Holds, Snapshot, disk
  <2>2. job[t].kept \in Seq(Turns) /\ Apart(history', turns, Awaited)
    BY <1>0, <1>00, <2>1, MarkAssumption DEF ApartFile, Job
  <2>3. job[t].at \in {"route", "load", "generate"} => Asking(t)
    BY DEF Asking
  <2>4. history' \in Seq(Turns)
    BY <2>1
  <2> QED
    BY <1>0, <1>00, <2>1, <2>2, <2>3, <2>4, OnceFrame
<1>17. CASE Restart
  <2>1. /\ \A t \in Threads : job'[t] = Idle
        /\ tmp' = None /\ UNCHANGED <<turns, file>>
        /\ history' = IF file \in {None, Garbled} THEN <<>> ELSE file.history
    BY <1>17 DEF Restart, Holds, Empty
  <2>2. Awaited' = {}
    BY <1>0, <2>1 DEF Awaited, Asking
  <2>3. Apart(history', turns, Awaited)
    BY <1>00, <2>1 DEF ApartFile
  <2>4. Apart(history', turns, {}) /\ ApartFile(file, turns, {})
    BY <1>00, <2>3 DEF Apart, ApartFile
  <2>5. \A t \in Threads : ~Asking(t)'
    BY <1>0, <2>1 DEF Asking
  <2>6. ApartFile(None, turns, {}) /\ Apart(<<>>, turns, {})
    BY NothingApart
  <2> QED
    BY <1>0, <2>1, <2>2, <2>4, <2>5, <2>6 DEF OnceInv, Apart, ApartFile, Distinct
<1> QED
  BY <1>1, <1>2, <1>3, <1>4, <1>5, <1>6, <1>7, <1>8, <1>9, <1>11, <1>12, <1>13, <1>14, <1>15, <1>16,
     <1>17 DEF Next, Query, Save, Command

\* No turn is in the history twice, though threads append and trim it without a lock and
\* sessions are saved, loaded and cleared in between.
THEOREM TurnsOnce == Spec => []TypeOK
<1>1. Init => OnceInv
  <2> SUFFICES ASSUME Init PROVE OnceInv
    OBVIOUS
  <2>1. \A t \in Threads : job[t] = Idle /\ Idle.at = "idle" /\ Idle.kept = <<>> /\ Idle.dump = None
    BY DEF Init, Idle
  <2>2. \A t \in Threads : ~Asking(t)
    BY <2>1 DEF Asking
  <2> QED
    BY <2>1, <2>2, NothingApart DEF Init, OnceInv
<1>2. TypeInv /\ OnceInv => TypeOK
  BY DEF TypeInv, OnceInv, Apart, TypeOK
<1> QED
  BY <1>1, <1>2, InitTypes, NextTypes, NextOnce, PTL DEF Spec

-----------------------------------------------------------------------------
\* A step that restores no session.
Unrestored == Next /\ ~Restart /\ \A t \in Threads : ~Load(t)

\* The pages such steps load are known by the numbers of their results.
NumberedInv == \A k \in Loaded : k[1] = "int"

\* Pages are added under numbers only.
LEMMA NextNumbered == TypeInv /\ NumberedInv /\ [Unrestored]_vars => NumberedInv'
<1> SUFFICES ASSUME TypeInv, NumberedInv, [Unrestored]_vars PROVE NumberedInv'
  OBVIOUS
<1>0. pages \in [PageKey -> Nat]
  BY DEF TypeInv, Typed
<1>1. CASE pages' = pages
  BY <1>1 DEF NumberedInv, Loaded
<1>2. ASSUME NEW t \in Threads, LoadPage(t) PROVE NumberedInv'
  <2> DEFINE k == <<"int", job[t].num>>
  <2>1. CASE pages' = AsYoungest(k)
    <3>1. \A j \in PageKey : pages'[j] # 0 => j = k \/ j \in Loaded
      BY <2>1 DEF AsYoungest
    <3> QED
      BY <3>1 DEF NumberedInv, Loaded
  <2> QED
    BY <1>1, <1>2, <2>1 DEF LoadPage
<1>3. ASSUME NEW t \in Threads, DeletePage(t) PROVE NumberedInv'
  <2>1. \A j \in PageKey : pages'[j] # 0 => pages[j] # 0
    BY <1>0, <1>3 DEF DeletePage
  <2> QED
    BY <2>1 DEF NumberedInv, Loaded
<1>4. ASSUME NEW t \in Threads, ClearState(t) PROVE NumberedInv'
  BY <1>4 DEF ClearState, Holds, Empty, NoPages, NumberedInv, Loaded
<1>5. UNCHANGED vars => pages' = pages
  BY DEF vars, state
<1>6. ASSUME NEW t \in Threads,
             \/ AskFresh(t) \/ AskAboutResults(t) \/ Search(t) \/ QueryFails(t) \/ AppendTurn(t)
             \/ Trim(t) \/ StoreAnswer(t) \/ Dump(t) \/ SaveFails(t) \/ Replace(t)
             \/ ClearCache(t) \/ ClearFails(t) \/ Unlink(t)
      PROVE  pages' = pages
  BY <1>6 DEF AskFresh, AskAboutResults, Search, QueryFails, AppendTurn, Trim, StoreAnswer, Dump,
              SaveFails, Replace, ClearCache, ClearFails, Unlink, state
<1> QED
  BY <1>1, <1>2, <1>3, <1>4, <1>5, <1>6 DEF Unrestored, Next, Query, Save, Command

\* As long as no session is restored a follow-up question finds its context, whatever the
\* threads do at once: it is the strings json.load returns that mix with numbers.
THEOREM FollowUpOfFreshSession == Init /\ [][Unrestored]_vars => []FollowUpHasContext
<1>1. Init => NumberedInv
  BY DEF Init, NoPages, NumberedInv, Loaded
<1>2. NumberedInv => FollowUpHasContext
  BY DEF NumberedInv, FollowUpHasContext
<1>3. [Unrestored]_vars => [Next]_vars
  BY DEF Unrestored
<1> QED
  BY <1>1, <1>2, <1>3, InitTypes, NextTypes, NextNumbered, PTL
=============================================================================
