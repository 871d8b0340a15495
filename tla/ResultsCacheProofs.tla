------------------------ MODULE ResultsCacheProofs --------------------------
(***************************************************************************)
(* For any number of queries, any keys, lifetimes and clears: a project    *)
(* clear is never undone by a chain of cache hits, and a chain never makes *)
(* results younger. Both follow from what a hit copies: every row carries  *)
(* the generation and the age of the run that produced its file. A content *)
(* clear, which marks rows one by one, needs the marks as well, and the    *)
(* age of the rows its window leaves out.                                  *)
(***************************************************************************)
EXTENDS ResultsCache, TLAPS

(* A row with a file is finished, its file's producer is a finished run,   *)
(* and the row agrees with it on generation and age.                       *)
Lineage ==
    \A q \in Query : file[q] # None =>
        /\ step[q] = "done"
        /\ file[file[q]] = file[q]
        /\ gen[q] = gen[file[q]]
        /\ updated[q] = updated[file[q]]

(* A hit has a source, and the source had its results when it was found.   *)
SourceHasResults ==
    \A q \in Query :
        /\ source[q] # None => file[source[q]] # None
        /\ step[q] \in {"inherited", "found"} => source[q] # None

(* A run that a project clear followed belongs to an earlier generation.   *)
DroppedBehind ==
    \A f \in dropped : step[f] \in {"running", "done"} /\ gen[f] < generation

GenerationReached == \A q \in Query : gen[q] <= generation

CacheInv == TypeOK /\ Lineage /\ SourceHasResults /\ DroppedBehind /\ GenerationReached

-----------------------------------------------------------------------------
LEMMA TtlPositive == Ttl \subseteq Nat
  BY CacheAssumption

LEMMA InitInv == Init => CacheInv
  BY CacheAssumption DEF Init, CacheInv, TypeOK, Step, Lineage, SourceHasResults,
     DroppedBehind, GenerationReached

LEMMA SourceIsFinished ==
    ASSUME CacheInv, NEW q \in Query, step[q] \in {"inherited", "found"}
    PROVE  /\ source[q] \in Query
           /\ file[source[q]] \in Query
           /\ step[source[q]] = "done"
  BY DEF CacheInv, TypeOK, SourceHasResults, Lineage

LEMMA TypeStep == CacheInv /\ [Next]_vars => TypeOK'
<1> SUFFICES ASSUME CacheInv, [Next]_vars PROVE TypeOK'
  OBVIOUS
<1> USE CacheAssumption, TtlPositive DEF projectVars, readVars, rowVars, resultVars, clearVars
<1>a. TypeOK
  BY DEF CacheInv
<1>1. ASSUME NEW q \in Query, Hit(q) PROVE TypeOK'
  BY <1>a, <1>1 DEF Hit, Find, Advance, MostRecent, Inserted, TypeOK, Step
<1>2. ASSUME NEW q \in Query, Miss(q) PROVE TypeOK'
  BY <1>a, <1>2 DEF Miss, Advance, TypeOK, Step
<1>3. ASSUME NEW q \in Query, Insert(q) PROVE TypeOK'
  BY <1>a, <1>3 DEF Insert, Advance, TypeOK, Step
<1>4. ASSUME NEW q \in Query, InheritClear(q) PROVE TypeOK'
  <2>1. marked' \in [Query -> BOOLEAN]
    BY <1>a, <1>4, Zenon DEF InheritClear, TypeOK
  <2> QED BY <1>a, <1>4, <2>1 DEF InheritClear, Advance, TypeOK, Step
<1>5. ASSUME NEW q \in Query, LandHit(q) PROVE TypeOK'
  BY <1>a, <1>5, SourceIsFinished DEF LandHit, Advance, TypeOK, Step
<1>6. ASSUME NEW q \in Query, StartRun(q) PROVE TypeOK'
  BY <1>a, <1>6 DEF StartRun, Advance, TypeOK, Step
<1>7. ASSUME NEW q \in Query, LandRun(q) PROVE TypeOK'
  BY <1>a, <1>7 DEF LandRun, Advance, TypeOK, Step
<1>8. ASSUME NEW q \in Query, StopQuery(q) PROVE TypeOK'
  BY <1>a, <1>8 DEF StopQuery, Advance, TypeOK, Step
<1>9. CASE InvalidateProject
  BY <1>a, <1>9 DEF InvalidateProject, Begun, TypeOK, Step
<1>10. ASSUME NEW c \in Content, ClearSnapshot(c) PROVE TypeOK'
  BY <1>a, <1>10 DEF ClearSnapshot, RowsToMark, ToForget, Inserted, Begun, TypeOK, Step
<1>11. CASE ClearCommit
  <2>1. marked' \in [Query -> BOOLEAN]
    BY <1>a, <1>11, Zenon DEF ClearCommit, TypeOK
  <2> QED BY <1>a, <1>11, <2>1 DEF ClearCommit, TypeOK, Step
<1>12. ASSUME NEW t \in Ttl, SetTtl(t) PROVE TypeOK'
  BY <1>a, <1>12 DEF SetTtl, TypeOK, Step
<1>13. CASE Tick
  BY <1>a, <1>13 DEF Tick, TypeOK, Step
<1>14. CASE UNCHANGED vars
  BY <1>a, <1>14 DEF vars, TypeOK, Step
<1>15. ASSUME NEW q \in Query, InsertDerived(q) PROVE TypeOK'
  BY <1>a, <1>15 DEF InsertDerived, Advance, TypeOK, Step
<1>16. ASSUME NEW q \in Query, HitDerived(q) PROVE TypeOK'
  BY <1>a, <1>16 DEF HitDerived, Find, Advance, MostRecent, Inserted, TypeOK, Step
<1>17. ASSUME NEW q \in Query, TakeKey(q) PROVE TypeOK'
  BY <1>a, <1>17 DEF TakeKey, Advance, TypeOK, Step
<1>18. ASSUME NEW q \in Query, LandHitDerived(q) PROVE TypeOK'
  BY <1>a, <1>18, SourceIsFinished DEF LandHitDerived, Advance, TypeOK, Step
<1> QED
  BY <1>1, <1>2, <1>3, <1>4, <1>5, <1>6, <1>7, <1>8, <1>9, <1>10, <1>11, <1>12,
     <1>13, <1>14, <1>15, <1>16, <1>17, <1>18 DEF Next

(* The steps that touch none of the columns a hit copies: they move some   *)
(* query that is not finished, or none.                                    *)
QuietStep ==
    /\ UNCHANGED <<file, gen, updated, source, generation, dropped>>
    /\ \/ step' = step
       \/ \E q \in Query, t \in Step :
            /\ step' = [step EXCEPT ![q] = t]
            /\ step[q] # "done"
            /\ step[q] = "running" => t = "done"
            /\ t \in {"inherited", "found"} => source[q] # None

LEMMA QuietActions ==
    ASSUME CacheInv,
           \/ \E q \in Query : Miss(q) \/ InheritClear(q) \/ TakeKey(q) \/ StartRun(q) \/ StopQuery(q)
           \/ \E c \in Content : ClearSnapshot(c)
           \/ ClearCommit
           \/ \E t \in Ttl : SetTtl(t)
           \/ Tick
           \/ UNCHANGED vars
    PROVE  QuietStep
<1> USE DEF projectVars, readVars, rowVars, resultVars, clearVars, QuietStep, Step, Advance
<1>1. CASE \E q \in Query : Miss(q) \/ InheritClear(q) \/ TakeKey(q) \/ StartRun(q)
  BY <1>1 DEF Miss, InheritClear, TakeKey, StartRun
<1>2. CASE \E q \in Query : StopQuery(q)
  BY <1>2 DEF StopQuery
<1>3. CASE \/ \E c \in Content : ClearSnapshot(c)
           \/ ClearCommit
           \/ \E t \in Ttl : SetTtl(t)
           \/ Tick
           \/ UNCHANGED vars
  BY <1>3 DEF ClearSnapshot, ClearCommit, SetTtl, Tick, vars
<1> QED BY <1>1, <1>2, <1>3

LEMMA NextKinds ==
    ASSUME CacheInv, [Next]_vars
    PROVE  \/ \E q \in Query :
              \/ Hit(q) \/ Insert(q) \/ LandHit(q) \/ LandRun(q)
              \/ HitDerived(q) \/ InsertDerived(q) \/ LandHitDerived(q)
           \/ InvalidateProject
           \/ QuietStep
  BY QuietActions DEF Next

(* What the invariant asks of the columns is kept.                         *)
LEMMA HistoryStep ==
    ASSUME CacheInv, [Next]_vars
    PROVE  (Lineage /\ SourceHasResults /\ DroppedBehind /\ GenerationReached)'
<1> USE CacheAssumption
    DEF CacheInv, Lineage, SourceHasResults, DroppedBehind, GenerationReached,
        TypeOK, Step, Advance, projectVars, readVars, rowVars, resultVars, clearVars
<1>1. ASSUME NEW q \in Query, Hit(q) \/ HitDerived(q)
      PROVE  (Lineage /\ SourceHasResults /\ DroppedBehind /\ GenerationReached)'
  BY <1>1 DEF Hit, HitDerived, Find, MostRecent, Inserted, Servable
<1>2. ASSUME NEW q \in Query, Insert(q) \/ InsertDerived(q)
      PROVE  (Lineage /\ SourceHasResults /\ DroppedBehind /\ GenerationReached)'
  BY <1>2 DEF Insert, InsertDerived
<1>3. ASSUME NEW q \in Query, LandHit(q) \/ LandHitDerived(q)
      PROVE  (Lineage /\ SourceHasResults /\ DroppedBehind /\ GenerationReached)'
  BY <1>3, SourceIsFinished DEF LandHit, LandHitDerived
<1>4. ASSUME NEW q \in Query, LandRun(q)
      PROVE  (Lineage /\ SourceHasResults /\ DroppedBehind /\ GenerationReached)'
  BY <1>4 DEF LandRun
<1>5. ASSUME InvalidateProject
      PROVE  (Lineage /\ SourceHasResults /\ DroppedBehind /\ GenerationReached)'
  <2>1. Lineage' /\ SourceHasResults'
    BY <1>5 DEF InvalidateProject
  <2>2. GenerationReached'
    BY <1>5 DEF InvalidateProject
  <2>3. ASSUME NEW f \in Begun
        PROVE  step[f] \in {"running", "done"} /\ gen[f] <= generation
    BY DEF Begun
  <2>4. DroppedBehind'
    BY <1>5, <2>3 DEF InvalidateProject, Begun
  <2> QED BY <2>1, <2>2, <2>4
<1>6. ASSUME QuietStep
      PROVE  (Lineage /\ SourceHasResults /\ DroppedBehind /\ GenerationReached)'
  BY <1>6 DEF QuietStep
<1> QED BY <1>1, <1>2, <1>3, <1>4, <1>5, <1>6, NextKinds

(* Whatever chain of hits a file came through, a row agrees with the run   *)
(* that produced it, for any queries, keys and lifetimes (the cache hit    *)
(* branch of executePreparedAsyncQuery).                                   *)
THEOREM Invariance == Spec => []CacheInv
<1>1. CacheInv /\ [Next]_vars => CacheInv'
  BY TypeStep, HistoryStep DEF CacheInv
<1> QED BY InitInv, <1>1, PTL DEF Spec

(* TypeOK: the columns of the rows and the clock keep their types, also    *)
(* while a lookup or the UPDATE of a clear is between its two steps.       *)
THEOREM TypeCorrect == Spec => []TypeOK
<1>1. CacheInv => TypeOK
  BY DEF CacheInv
<1> QED BY Invariance, <1>1, PTL

-----------------------------------------------------------------------------
(* ProjectClearHolds: a servable row is of the present generation, and so  *)
(* is the run that produced its file.                                      *)
THEOREM ProjectClearsHold == Spec => []ProjectClearHolds
<1>1. CacheInv => ProjectClearHolds
  BY DEF CacheInv, TypeOK, Lineage, DroppedBehind, ProjectClearHolds, Servable, Live
<1> QED BY Invariance, <1>1, PTL

(* ServedWithinTtl: the slack only shortens the time results are served,   *)
(* and their age is that of the run that produced them.                    *)
THEOREM ServingEndsInTime == Spec => []ServedWithinTtl
<1>1. ASSUME NEW t \in Nat PROVE Slack(t) \in Nat
  BY CacheAssumption DEF Slack
<1>2. ASSUME CacheInv, NEW q \in Query, Servable(q)
      PROVE  now < updated[file[q]] + ttl
  <2>1. ttl \in Nat /\ now \in Nat /\ updated[q] \in Nat
    BY <1>2, TtlPositive, CacheAssumption DEF CacheInv, TypeOK
  <2>2. Slack(ttl) \in Nat
    BY <1>1, <2>1
  <2>3. updated[q] + ttl > now + Slack(ttl)
    BY <1>2 DEF Servable, FreshUnder
  <2>4. updated[file[q]] = updated[q]
    BY <1>2 DEF CacheInv, Lineage, Servable
  <2> QED BY <2>1, <2>2, <2>3, <2>4
<1>3. CacheInv => ServedWithinTtl
  BY <1>2 DEF ServedWithinTtl
<1> QED BY Invariance, <1>3, PTL

-----------------------------------------------------------------------------
(* Content clears. Hits stay with one key, and a row that no clear         *)
(* overtook goes back to rows that none overtook.                          *)
Kept ==
    /\ \A q \in Query :
        /\ file[q] # None => key[q] = KeyOf[q] /\ KeyOf[q] = KeyOf[file[q]]
        /\ source[q] # None => KeyOf[q] = KeyOf[source[q]]
        /\ step[q] = "idle" => source[q] = None
        /\ step[q] \in {"inserted", "inherited"} /\ source[q] # None => key[q] = KeyOf[q]
        /\ /\ step[q] \in {"inserted", "inherited"} /\ source[q] # None
           /\ q \notin overtaken
           => source[q] \notin overtaken
        /\ step[q] = "running" => source[q] = None /\ file[q] = None
    /\ overtaken \subseteq Inserted

Started == {q \in Query : step[q] \in {"running", "done"}}

(* What a row that no clear overtakes carries, and what it will.           *)
Carries(q, f) ==
    \/ file[q] = f
    \/ step[q] = "running" /\ q = f
    \/ step[q] = "inherited" /\ file[source[q]] = f
WillCarry(q, f) ==
    \/ Carries(q, f)
    \/ step[q] = "inserted" /\ source[q] # None /\ file[source[q]] = f

(* Of a clear under way: the rows it will mark are all those that carry    *)
(* its results, or will, but for rows it overtakes.                        *)
Marking ==
    clear # None =>
        /\ clear.files \subseteq Started
        /\ \A f \in clear.files :
              OutsideWindow(f) \/ \A q \in Inserted \ overtaken : WillCarry(q, f) => q \in clear.rows

Marked ==
    /\ cleared \subseteq Started
    /\ \A f \in cleared :
          OutsideWindow(f) \/ \A q \in Inserted \ overtaken : Carries(q, f) => marked[q]

ClearInv == CacheInv /\ Kept /\ Marking /\ Marked

(* What each step does to the three parts.                                 *)
LEMMA KeptStep == ASSUME ClearInv, [Next]_vars PROVE Kept'
<1> USE CacheAssumption
    DEF ClearInv, CacheInv, TypeOK, Lineage, SourceHasResults, Kept,
        Inserted, Step, Advance, projectVars, readVars, rowVars, resultVars, clearVars
<1>1. ASSUME NEW q \in Query, Hit(q) PROVE Kept'
  BY <1>1 DEF Hit, Find, MostRecent, Servable
<1>2. ASSUME NEW q \in Query, Miss(q) PROVE Kept'
  BY <1>2 DEF Miss
<1>3. ASSUME NEW q \in Query, Insert(q) PROVE Kept'
  BY <1>3 DEF Insert
<1>4. ASSUME NEW q \in Query, InheritClear(q) PROVE Kept'
  BY <1>4 DEF InheritClear
<1>5. ASSUME NEW q \in Query, LandHit(q) PROVE Kept'
  BY <1>5, SourceIsFinished DEF LandHit
<1>6. ASSUME NEW q \in Query, InsertDerived(q) PROVE Kept'
  BY <1>6 DEF InsertDerived
<1>7. ASSUME NEW q \in Query, HitDerived(q) PROVE Kept'
  BY <1>7 DEF HitDerived, Find, MostRecent, Servable
<1>8. ASSUME NEW q \in Query, TakeKey(q) PROVE Kept'
  BY <1>8 DEF TakeKey
<1>9. ASSUME NEW q \in Query, LandHitDerived(q) PROVE Kept'
  BY <1>9, SourceIsFinished DEF LandHitDerived
<1>10. ASSUME NEW q \in Query, StartRun(q) PROVE Kept'
  BY <1>10 DEF StartRun
<1>11. ASSUME NEW q \in Query, LandRun(q) PROVE Kept'
  BY <1>11 DEF LandRun
<1>12. ASSUME NEW q \in Query, StopQuery(q) PROVE Kept'
  BY <1>12 DEF StopQuery
<1>13. CASE InvalidateProject
  BY <1>13 DEF InvalidateProject
<1>14. ASSUME NEW c \in Content, ClearSnapshot(c) PROVE Kept'
  BY <1>14 DEF ClearSnapshot, RowsToMark, ToForget, KeysOf, CreatedInWindow, CreatedSince, Begun
<1>15. CASE ClearCommit
  BY <1>15 DEF ClearCommit
<1>16. ASSUME NEW t \in Ttl, SetTtl(t) PROVE Kept'
  BY <1>16 DEF SetTtl
<1>17. CASE Tick
  BY <1>17 DEF Tick
<1>18. CASE UNCHANGED vars
  BY <1>18 DEF vars
<1> QED
  BY <1>1, <1>2, <1>3, <1>4, <1>5, <1>6, <1>7, <1>8, <1>9,
     <1>10, <1>11, <1>12, <1>13, <1>14, <1>15, <1>16, <1>17, <1>18 DEF Next

LEMMA MarkingStep == ASSUME ClearInv, [Next]_vars PROVE Marking'
<1> USE CacheAssumption
    DEF ClearInv, CacheInv, TypeOK, Lineage, SourceHasResults, Marking, Kept, OutsideWindow, Started, Carries, WillCarry,
        Inserted, Step, Advance, projectVars, readVars, rowVars, resultVars, clearVars
<1>1. ASSUME NEW q \in Query, Hit(q) PROVE Marking'
  BY <1>1 DEF Hit, Find, MostRecent, Servable
<1>2. ASSUME NEW q \in Query, Miss(q) PROVE Marking'
  BY <1>2 DEF Miss
<1>3. ASSUME NEW q \in Query, Insert(q) PROVE Marking'
  BY <1>3 DEF Insert
<1>4. ASSUME NEW q \in Query, InheritClear(q) PROVE Marking'
  BY <1>4 DEF InheritClear
<1>5. ASSUME NEW q \in Query, LandHit(q) PROVE Marking'
  BY <1>5, SourceIsFinished DEF LandHit
<1>6. ASSUME NEW q \in Query, InsertDerived(q) PROVE Marking'
  BY <1>6 DEF InsertDerived
<1>7. ASSUME NEW q \in Query, HitDerived(q) PROVE Marking'
  BY <1>7 DEF HitDerived, Find, MostRecent, Servable
<1>8. ASSUME NEW q \in Query, TakeKey(q) PROVE Marking'
  BY <1>8 DEF TakeKey
<1>9. ASSUME NEW q \in Query, LandHitDerived(q) PROVE Marking'
  BY <1>9, SourceIsFinished DEF LandHitDerived
<1>10. ASSUME NEW q \in Query, StartRun(q) PROVE Marking'
  BY <1>10 DEF StartRun
<1>11. ASSUME NEW q \in Query, LandRun(q) PROVE Marking'
  BY <1>11 DEF LandRun
<1>12. ASSUME NEW q \in Query, StopQuery(q) PROVE Marking'
  BY <1>12 DEF StopQuery
<1>13. CASE InvalidateProject
  BY <1>13 DEF InvalidateProject
<1>14. ASSUME NEW c \in Content, ClearSnapshot(c) PROVE Marking'
  BY <1>14 DEF ClearSnapshot, RowsToMark, ToForget, KeysOf, CreatedInWindow, CreatedSince, Begun
<1>15. CASE ClearCommit
  BY <1>15 DEF ClearCommit
<1>16. ASSUME NEW t \in Ttl, SetTtl(t) PROVE Marking'
  BY <1>16 DEF SetTtl
<1>17. CASE Tick
  BY <1>17 DEF Tick
<1>18. CASE UNCHANGED vars
  BY <1>18 DEF vars
<1> QED
  BY <1>1, <1>2, <1>3, <1>4, <1>5, <1>6, <1>7, <1>8, <1>9,
     <1>10, <1>11, <1>12, <1>13, <1>14, <1>15, <1>16, <1>17, <1>18 DEF Next

LEMMA MarkedStep == ASSUME ClearInv, [Next]_vars PROVE Marked'
<1> USE CacheAssumption
    DEF ClearInv, CacheInv, TypeOK, Lineage, SourceHasResults, Marked, Kept, Marking, OutsideWindow, Carries, WillCarry, Started,
        Inserted, Step, Advance, projectVars, readVars, rowVars, resultVars, clearVars
<1>1. ASSUME NEW q \in Query, Hit(q) PROVE Marked'
  BY <1>1 DEF Hit, Find, MostRecent, Servable
<1>2. ASSUME NEW q \in Query, Miss(q) PROVE Marked'
  BY <1>2 DEF Miss
<1>3. ASSUME NEW q \in Query, Insert(q) PROVE Marked'
  BY <1>3 DEF Insert
<1>4. ASSUME NEW q \in Query, InheritClear(q) PROVE Marked'
  BY <1>4 DEF InheritClear
<1>5. ASSUME NEW q \in Query, LandHit(q) PROVE Marked'
  BY <1>5, SourceIsFinished DEF LandHit
<1>6. ASSUME NEW q \in Query, InsertDerived(q) PROVE Marked'
  BY <1>6 DEF InsertDerived
<1>7. ASSUME NEW q \in Query, HitDerived(q) PROVE Marked'
  BY <1>7 DEF HitDerived, Find, MostRecent, Servable
<1>8. ASSUME NEW q \in Query, TakeKey(q) PROVE Marked'
  BY <1>8 DEF TakeKey
<1>9. ASSUME NEW q \in Query, LandHitDerived(q) PROVE Marked'
  BY <1>9, SourceIsFinished DEF LandHitDerived
<1>10. ASSUME NEW q \in Query, StartRun(q) PROVE Marked'
  BY <1>10 DEF StartRun
<1>11. ASSUME NEW q \in Query, LandRun(q) PROVE Marked'
  BY <1>11 DEF LandRun
<1>12. ASSUME NEW q \in Query, StopQuery(q) PROVE Marked'
  BY <1>12 DEF StopQuery
<1>13. CASE InvalidateProject
  BY <1>13 DEF InvalidateProject
<1>14. ASSUME NEW c \in Content, ClearSnapshot(c) PROVE Marked'
  BY <1>14 DEF ClearSnapshot, RowsToMark, ToForget, KeysOf, CreatedInWindow, CreatedSince, Begun
<1>15. CASE ClearCommit
  <2>1. ASSUME NEW f \in cleared \union clear.files
        PROVE  f \in Started /\ (OutsideWindow(f))' = OutsideWindow(f)
    BY <1>15, <2>1 DEF ClearCommit
  <2>2. \A q \in Query : marked'[q] <=> marked[q] \/ q \in clear.rows
    BY <1>15, Zenon DEF ClearCommit
  <2>3. ASSUME NEW f \in cleared', NEW q \in Inserted \ overtaken, Carries(q, f), ~OutsideWindow(f)
        PROVE  marked'[q]
    <3>1. CASE f \in cleared
      BY <2>2, <2>3, <3>1
    <3>2. CASE f \in clear.files
      BY <1>15, <2>1, <2>2, <2>3, <3>2 DEF ClearCommit
    <3> QED BY <1>15, <2>3, <3>1, <3>2 DEF ClearCommit
  <2> QED BY <1>15, <2>1, <2>3 DEF ClearCommit
<1>16. ASSUME NEW t \in Ttl, SetTtl(t) PROVE Marked'
  BY <1>16 DEF SetTtl
<1>17. CASE Tick
  BY <1>17 DEF Tick
<1>18. CASE UNCHANGED vars
  BY <1>18 DEF vars
<1> QED
  BY <1>1, <1>2, <1>3, <1>4, <1>5, <1>6, <1>7, <1>8, <1>9,
     <1>10, <1>11, <1>12, <1>13, <1>14, <1>15, <1>16, <1>17, <1>18 DEF Next

LEMMA ClearInvInit == Init => ClearInv
<1> SUFFICES ASSUME Init PROVE ClearInv
  OBVIOUS
<1>1. CacheInv
  BY InitInv
<1>2. Kept /\ Marking /\ Marked
  BY CacheAssumption DEF Init, Kept, Marking, Marked, Inserted, Step
<1> QED BY <1>1, <1>2 DEF ClearInv

LEMMA ClearInvariance == Spec => []ClearInv
<1>1. ClearInv /\ [Next]_vars => ClearInv'
  BY TypeStep, HistoryStep, KeptStep, MarkingStep, MarkedStep DEF ClearInv, CacheInv
<1> QED BY ClearInvInit, <1>1, PTL DEF Spec

(* The slack makes up for the time a run took, if it was no longer.        *)
LEMMA OldAreStale ==
    ASSUME ClearInv, NEW q \in Query, NEW t \in Ttl,
           file[q] # None, OutsideWindow(file[q]), ~Outlives(file[q])
    PROVE  ~FreshUnder(q, t)
<1> DEFINE f == file[q]
<1> USE CacheAssumption
<1>0. f \in Query /\ updated[f] = updated[q]
  BY DEF ClearInv, CacheInv, TypeOK, Lineage
<1>1. /\ now \in Nat /\ created[f] \in Nat /\ updated[q] \in Nat
      /\ t \in Nat /\ t <= Window /\ Window \in Nat /\ Buffer \in Nat
  BY <1>0 DEF ClearInv, CacheInv, TypeOK
<1>2. created[f] + Window <= now
  BY <1>1 DEF OutsideWindow
<1>3. Slack(t) \in Nat /\ Slack(Window) \in Nat /\ t + Slack(Window) <= Window + Slack(t)
  BY <1>1 DEF Slack
<1>4. updated[f] <= created[f] + Slack(Window)
  BY <1>0, <1>1, <1>3 DEF Outlives
<1> QED BY <1>0, <1>1, <1>2, <1>3, <1>4 DEF FreshUnder

(* ContentClearHolds: a row that carries cleared results and was not       *)
(* overtaken by the clear is marked, or inherits the mark before it lands; *)
(* only results outside the window need none, which are too old to be      *)
(* served unless their run took longer than the slack of a lookup. For any *)
(* keys, content, lifetimes, clears and chains of hits, and runs of any    *)
(* length.                                                                 *)
THEOREM ContentClearsHold == Spec => []ContentClearHolds
<1>1. ClearInv => ContentClearHolds
  <2> SUFFICES ASSUME ClearInv, NEW q \in Query \ overtaken, Servable(q),
                      file[q] \in cleared, ~Outlives(file[q])
               PROVE  FALSE
    BY DEF ContentClearHolds
  <2>1. /\ file[q] \in Query /\ step[q] = "done" /\ file[q] # None
        /\ ttl \in Ttl /\ FreshUnder(q, ttl) /\ ~marked[q]
    BY CacheAssumption DEF ClearInv, CacheInv, TypeOK, Lineage, Servable, Live
  <2>2. ~OutsideWindow(file[q])
    BY <2>1, OldAreStale
  <2>3. marked[q]
    BY <2>1, <2>2 DEF ClearInv, Marked, Carries, Inserted, Step
  <2> QED BY <2>1, <2>3
<1> QED BY ClearInvariance, <1>1, PTL
=============================================================================
