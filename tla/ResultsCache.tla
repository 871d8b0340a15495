---------------------------- MODULE ResultsCache ----------------------------
(***************************************************************************)
(* The results cache of one project. There is no cache table: a query      *)
(* whose key matches a finished row of query_history is answered with that *)
(* row's results file, and its own row then carries the same file, so hits *)
(* form chains. A lookup, the insert of the row, the inheritance of a      *)
(* clear and the landing of the results are four statements, with awaits   *)
(* between them, and clears come at any moment:                            *)
(*   - the project's clear moves to the next generation, one row update;   *)
(*   - the clear of a chart, a dashboard or an explore marks every row     *)
(*     with one of its keys, an UPDATE that takes a snapshot when it       *)
(*     starts and shows its marks when it commits.                         *)
(* Queries over other results, on DuckDB or in Python, are keyed by the    *)
(* files they read. Their rows come first, with a key of their own, and    *)
(* take the shared key later, where the results are found or produced.     *)
(*                                                                         *)
(* A file is named after the query whose run produced it.                  *)
(***************************************************************************)
EXTENDS Integers, FiniteSets

CONSTANTS
    Query, Key, Content,
    KeyOf,         \* shared cache_key of each query
    Derived,       \* the queries over other results
    Duckdb,        \* those of them that run on DuckDB
    ContentOf,     \* the charts, dashboards and explores a query belongs to
    None,
    Ttl,           \* lifetimes a project may be given
    Window,        \* MAX_RESULTS_CACHE_TTL_SECONDS
    Buffer,        \* DEFAULT_CACHE_EXPIRY_BUFFER_MS
    MaxTime,       \* bound: end of the clock
    MaxGeneration, \* bound: clears of the project
    MaxWait,       \* bound: from a row's insert to the start of its run
    MaxRun         \* bound: from a row's insert to the landing of its run

ASSUME CacheAssumption ==
    /\ KeyOf \in [Query -> Key]
    /\ ContentOf \in [Query -> SUBSET Content]
    /\ None \notin Query /\ Key \intersect Query = {}
    /\ Duckdb \subseteq Derived /\ Derived \subseteq Query
    /\ Window \in Nat /\ Buffer \in Nat
    /\ Ttl \subseteq 1..Window
    /\ {MaxTime, MaxGeneration, MaxWait, MaxRun} \subseteq Nat

VARIABLES
    now,
    generation,   \* projects.results_cache_generation
    ttl,          \* getEffectiveResultsCacheTtlSeconds
    step,         \* where the process answering each query stands
    source,       \* the row its lookup found, None after a miss
    expiry,       \* the expiresAt it carries to its landing
    \* columns of query_history
    created, key, gen, marked, file, updated, expires,
    clear,        \* the content clear under way, or None
    dropped,      \* history: files of runs that a project clear followed
    cleared,      \* history: the same for content clears
    overtaken     \* history: rows that came by their key unseen by a content
                  \* clear, and hits of theirs

projectVars == <<now, generation, ttl>>
readVars == <<source, expiry>>
rowVars == <<created, key>>
resultVars == <<gen, file, updated, expires>>
clearVars == <<clear, dropped, cleared, overtaken>>
vars == <<projectVars, step, readVars, rowVars, marked, resultVars, clearVars>>

Step == {"idle", "looked", "inserted", "inherited", "found", "running", "done"}
Inserted == {q \in Query : step[q] \in Step \ {"idle", "looked"}}
Begun == {q \in Query : step[q] = "running" \/ file[q] = q}

TypeOK ==
    /\ now \in 0..MaxTime
    /\ generation \in 0..MaxGeneration
    /\ ttl \in Ttl
    /\ step \in [Query -> Step]
    /\ source \in [Query -> Query \union {None}]
    /\ {expiry, updated, expires} \subseteq [Query -> Nat]
    /\ created \in [Query -> 0..MaxTime]
    /\ key \in [Query -> Key \union Query]
    /\ gen \in [Query -> 0..MaxGeneration]
    /\ marked \in [Query -> BOOLEAN]
    /\ file \in [Query -> Query \union {None}]
    /\ clear \in [rows : SUBSET Query, files : SUBSET Query] \union {None}
    /\ {dropped, cleared, overtaken} \subseteq SUBSET Query

Init ==
    /\ now = 0 /\ generation = 0 /\ ttl \in Ttl
    /\ step = [q \in Query |-> "idle"]
    /\ source = [q \in Query |-> None]
    /\ expiry = [q \in Query |-> 0]
    /\ created = [q \in Query |-> 0]
    /\ key = [q \in Query |-> q]
    /\ gen = [q \in Query |-> 0]
    /\ marked = [q \in Query |-> FALSE]
    /\ file = [q \in Query |-> None]
    /\ updated = [q \in Query |-> 0]
    /\ expires = [q \in Query |-> 0]
    /\ clear = None
    /\ dropped = {} /\ cleared = {} /\ overtaken = {}

-----------------------------------------------------------------------------
(* Which row a lookup may answer from.                                     *)

(* The time left a lookup insists on, so the file outlives the reading.    *)
Slack(t) == IF t > 4 * Buffer THEN Buffer ELSE t \div 4

Live(q) == gen[q] = generation /\ ~marked[q]

FreshUnder(q, t) ==
    /\ updated[q] + t > now + Slack(t)
    /\ expires[q] > now + Slack(t)

Servable(q) == Live(q) /\ file[q] # None /\ FreshUnder(q, ttl)

(* Only the newest row with the key is looked at: one without results, or  *)
(* past its time, hides the older ones.                                    *)
MostRecent(k) ==
    LET matches == {q \in Inserted : key[q] = k /\ Live(q)}
    IN  {q \in matches : \A p \in matches : created[p] <= created[q]}

-----------------------------------------------------------------------------
(* Answering a query.                                                      *)

Advance(q, from, to) ==
    /\ step[q] = from
    /\ step' = [step EXCEPT ![q] = to]

Find(q) ==
    \E s \in MostRecent(KeyOf[q]) :
        /\ Servable(s)
        /\ source' = [source EXCEPT ![q] = s]
        /\ expiry' = [expiry EXCEPT ![q] = updated[s] + ttl]

Hit(q) ==
    /\ q \notin Derived /\ Advance(q, "idle", "looked")
    /\ Find(q)
    /\ UNCHANGED <<projectVars, rowVars, marked, resultVars, clearVars>>

(* Also what a caller does that asks for invalidateCache.                  *)
Miss(q) ==
    /\ q \notin Derived /\ Advance(q, "idle", "looked")
    /\ UNCHANGED <<projectVars, readVars, rowVars, marked, resultVars, clearVars>>

Insert(q) ==
    /\ Advance(q, "looked", "inserted")
    /\ created' = [created EXCEPT ![q] = now]
    /\ key' = [key EXCEPT ![q] = KeyOf[q]]
    /\ gen' = [gen EXCEPT ![q] = generation]
    /\ overtaken' = IF clear # None \/ source[q] \in overtaken
                    THEN overtaken \union {q} ELSE overtaken
    /\ UNCHANGED <<projectVars, readVars, marked, file, updated, expires,
                   clear, dropped, cleared>>

(* The row of a query over other results, with the key of its references.  *)
InsertDerived(q) ==
    /\ q \in Derived /\ Advance(q, "idle", "inserted")
    /\ created' = [created EXCEPT ![q] = now]
    /\ gen' = [gen EXCEPT ![q] = generation]
    /\ UNCHANGED <<projectVars, readVars, key, marked, file, updated, expires, clearVars>>

(* The shared key is known once the references are bound, and looked up.   *)
HitDerived(q) ==
    /\ q \in Derived /\ key[q] # KeyOf[q] /\ Advance(q, "inserted", "found")
    /\ Find(q)
    /\ UNCHANGED <<projectVars, rowVars, marked, resultVars, clearVars>>

(* After a miss a DuckDB query takes the shared key, and then runs.        *)
TakeKey(q) ==
    /\ q \in Duckdb /\ key[q] # KeyOf[q] /\ Advance(q, "inserted", "inserted")
    /\ key' = [key EXCEPT ![q] = KeyOf[q]]
    /\ UNCHANGED <<projectVars, readVars, created, marked, resultVars, clearVars>>

(* A subselect of the source's mark: it reads what has been committed.     *)
InheritNothing(q) ==
    /\ Advance(q, "inserted", "inherited")
    /\ source[q] # None
    /\ UNCHANGED <<projectVars, readVars, rowVars, marked, resultVars, clearVars>>
InheritClear(q) ==
    /\ Advance(q, "inserted", "inherited")
    /\ source[q] # None
    /\ marked' = [marked EXCEPT ![q] = @ \/ marked[source[q]]]
    /\ UNCHANGED <<projectVars, readVars, rowVars, resultVars, clearVars>>

(* Cache hits stay in the source's generation, and keep its age.           *)
LandHitRestamped(q) ==
    /\ Advance(q, "inherited", "done")
    /\ file' = [file EXCEPT ![q] = file[source[q]]]
    /\ gen' = [gen EXCEPT ![q] = gen[source[q]]]
    /\ updated' = [updated EXCEPT ![q] = now]
    /\ expires' = [expires EXCEPT ![q] = expiry[q]]
    /\ UNCHANGED <<projectVars, readVars, rowVars, marked, clearVars>>
LandHitOwnGeneration(q) ==
    /\ Advance(q, "inherited", "done")
    /\ file' = [file EXCEPT ![q] = file[source[q]]]
    /\ updated' = [updated EXCEPT ![q] = updated[source[q]]]
    /\ expires' = [expires EXCEPT ![q] = expiry[q]]
    /\ UNCHANGED <<projectVars, readVars, gen, rowVars, marked, clearVars>>
LandHit(q) ==
    /\ Advance(q, "inherited", "done")
    /\ file' = [file EXCEPT ![q] = file[source[q]]]
    /\ gen' = [gen EXCEPT ![q] = gen[source[q]]]
    /\ updated' = [updated EXCEPT ![q] = updated[source[q]]]
    /\ expires' = [expires EXCEPT ![q] = expiry[q]]
    /\ UNCHANGED <<projectVars, readVars, rowVars, marked, clearVars>>

(* Lands under the shared key, and inherits no clear.                      *)
LandHitDerived(q) ==
    /\ Advance(q, "found", "done")
    /\ now - created[q] <= MaxRun
    /\ key' = [key EXCEPT ![q] = KeyOf[q]]
    /\ file' = [file EXCEPT ![q] = file[source[q]]]
    /\ gen' = [gen EXCEPT ![q] = gen[source[q]]]
    /\ updated' = [updated EXCEPT ![q] = updated[source[q]]]
    /\ expires' = [expires EXCEPT ![q] = expiry[q]]
    /\ overtaken' = IF clear # None \/ source[q] \in overtaken \/ marked[source[q]]
                    THEN overtaken \union {q} ELSE overtaken
    /\ UNCHANGED <<projectVars, readVars, created, marked, clear, dropped, cleared>>

StartRun(q) ==
    /\ Advance(q, "inserted", "running")
    /\ source[q] = None
    /\ q \in Duckdb => key[q] = KeyOf[q]
    /\ now - created[q] <= MaxWait
    /\ expiry' = [expiry EXCEPT ![q] = now + ttl]
    /\ UNCHANGED <<projectVars, source, rowVars, marked, resultVars, clearVars>>

(* The results of a Python run take the shared key with them, and live     *)
(* from their upload on.                                                   *)
LandRun(q) ==
    /\ Advance(q, "running", "done")
    /\ now - created[q] <= MaxRun
    /\ key' = [key EXCEPT ![q] = KeyOf[q]]
    /\ file' = [file EXCEPT ![q] = q]
    /\ updated' = [updated EXCEPT ![q] = now]
    /\ expires' = [expires EXCEPT ![q] = IF q \in Derived \ Duckdb THEN now + ttl ELSE expiry[q]]
    /\ UNCHANGED <<projectVars, readVars, gen, created, marked, clearVars>>

(* Cancelled, failed or expired: the row keeps no results.                 *)
StopQuery(q) ==
    /\ \E s \in {"inserted", "inherited", "found", "running"} : Advance(q, s, "done")
    /\ UNCHANGED <<projectVars, readVars, rowVars, marked, resultVars, clearVars>>

-----------------------------------------------------------------------------
(* Clears and settings.                                                    *)

InvalidateProject ==
    /\ generation < MaxGeneration
    /\ generation' = generation + 1
    /\ dropped' = dropped \union Begun
    /\ UNCHANGED <<now, ttl, step, readVars, rowVars, marked, resultVars,
                   clear, cleared, overtaken>>

(* Wide enough for the longest lifetime a project may be given.            *)
CreatedSinceTtl == now - ttl
CreatedSince == now - Window

CreatedInWindow == {p \in Inserted : created[p] > CreatedSince}
KeysOf(c, rows) == {key[q] : q \in {p \in rows : c \in ContentOf[p]}}

(* The rows the UPDATE marks, finished or not: those with a key of a row   *)
(* of the content.                                                         *)
FinishedToMark(c) ==
    {q \in Inserted : file[q] # None /\ key[q] \in KeysOf(c, CreatedInWindow)}
RowsToMark(c) ==
    {q \in Inserted : key[q] \in KeysOf(c, CreatedInWindow)}

(* What the clear is for: the results of the content's own runs, however   *)
(* old, and of every query that shares a key with a recent row of it.      *)
ToForget(c) ==
    {q \in Begun : c \in ContentOf[q] \/ key[q] \in KeysOf(c, CreatedInWindow)}

ClearSnapshot(c) ==
    /\ clear = None
    /\ clear' = [rows |-> RowsToMark(c), files |-> ToForget(c)]
    /\ UNCHANGED <<projectVars, step, readVars, rowVars, marked, resultVars,
                   dropped, cleared, overtaken>>

ClearCommit ==
    /\ clear # None
    /\ marked' = [q \in Query |-> marked[q] \/ q \in clear.rows]
    /\ cleared' = cleared \union clear.files
    /\ clear' = None
    /\ UNCHANGED <<projectVars, step, readVars, rowVars, resultVars, dropped, overtaken>>

SetTtl(t) ==
    /\ t # ttl
    /\ ttl' = t
    /\ UNCHANGED <<now, generation, step, readVars, rowVars, marked, resultVars, clearVars>>

Tick ==
    /\ now < MaxTime
    /\ now' = now + 1
    /\ UNCHANGED <<generation, ttl, step, readVars, rowVars, marked, resultVars, clearVars>>

Next ==
    \/ \E q \in Query :
        \/ Hit(q) \/ Miss(q) \/ Insert(q) \/ InheritClear(q) \/ LandHit(q)
        \/ InsertDerived(q) \/ HitDerived(q) \/ TakeKey(q) \/ LandHitDerived(q)
        \/ StartRun(q) \/ LandRun(q) \/ StopQuery(q)
    \/ InvalidateProject
    \/ \E c \in Content : ClearSnapshot(c)
    \/ ClearCommit
    \/ \E t \in Ttl : SetTtl(t)
    \/ Tick

Spec == Init /\ [][Next]_vars

-----------------------------------------------------------------------------
(* A row's place in the window counts from its insert, its lifetime from   *)
(* the landing of its run. Nothing bounds the time between the two.        *)
OutsideWindow(q) == created[q] <= now - Window
Outlives(f) == OutsideWindow(f) /\ updated[f] > created[f] + Slack(Window)

(* Results whose run began before a project clear are never served again,  *)
(* whichever chain of hits carried them over it: a hit keeps the           *)
(* generation of its source (AsyncQueryService, the cache hit branch of    *)
(* executePreparedAsyncQuery).                                             *)
ProjectClearHolds == \A q \in Query : Servable(q) => file[q] \notin dropped

(* Nor are those of a cleared chart, dashboard or explore, by any query    *)
(* that shares their key: the clear marks every row it sees, finished or   *)
(* not, and a row inserted later takes the mark of its source before it    *)
(* lands. The rows excepted are those the clear does not see: inserted     *)
(* while its UPDATE was running, or hits of queries over other results     *)
(* that were found before it and take their key as they land. And the      *)
(* results excepted are those of a run that took longer than the slack of  *)
(* a lookup, whose row has left the window the clear looks at.             *)
ContentClearHolds ==
    \A q \in Query \ overtaken :
        Servable(q) => file[q] \notin cleared \/ Outlives(file[q])

(* The same without exception, which is what the comment on                *)
(* QueryHistoryModel.inheritCacheInvalidation says it is for.              *)
NoClearRevived == \A q \in Query : Servable(q) => file[q] \notin cleared

(* A file is served only while the project's lifetime, counted from the    *)
(* end of the run that produced it, has not passed: a hit never makes its  *)
(* results younger.                                                        *)
ServedWithinTtl ==
    \A q \in Query : Servable(q) => now < updated[file[q]] + ttl

(* A row too old for a content clear to look at is past serving under any  *)
(* lifetime the project may be given later: what the comment on            *)
(* getResultsCacheInvalidationWindowStart says of the window. It holds of  *)
(* runs that land within the slack of a lookup, and fails for longer ones. *)
OutsideWindowIsStale ==
    \A q \in Inserted, t \in Ttl :
        OutsideWindow(q) /\ file[q] # None => ~FreshUnder(q, t)
=============================================================================
