--------------------------- MODULE ComposedQueries ---------------------------
(***************************************************************************)
(* Queries over the results of other queries. A merge is a DAG: one leg    *)
(* per source and one join that reads the legs; a join may also read the   *)
(* results of any query submitted before. QuerySourceService submits the   *)
(* nodes of a DAG one after the other, and no node waits for another       *)
(* there: the executor of a join waits for what it reads. With the         *)
(* pre-aggregate stream registered, joins and pre-aggregate legs are jobs  *)
(* of one stream, and a join that waits keeps a worker loop of it.         *)
(*                                                                         *)
(* The rows are those of QueryHistory. How one query runs in detail is     *)
(* AsyncQueryExecution; here a run is a claim, a wait and an outcome.      *)
(***************************************************************************)
EXTENDS QueryHistory, Naturals, Sequences

CONSTANTS
    Join,        \* the queries that run on DuckDB over other results
    Legs,        \* Legs[j], the legs a merge submits for its join j
    Before,      \* Before[q], the nodes of q's DAG submitted before q
    Slot,        \* the worker loops of the stream of joins
    Canceller,   \* calls of cancelAsyncQuery
    NoQuery,     \* an executor or a call without a query
    MaxLosses    \* bound on executors and submissions that die

ASSUME ComposedAssumption ==
    /\ Join \subseteq Query
    /\ Legs \in [Join -> SUBSET (Query \ Join)]
    /\ Before \in [Query -> SUBSET Query]
    /\ \A j \in Join : Legs[j] \subseteq Before[j]
    /\ Slot \intersect Query = {}
    /\ NoQuery \notin Query
    /\ Query \subseteq File
    /\ MaxLosses \in Nat

(* A query that is no job of this stream has an executor of its own: a     *)
(* loop of the warehouse stream, or the API process.                       *)
Executor == Slot \union Query

VARIABLES
    node,        \* node[q], where the submission of q is
    refs,        \* refs[j], the queries join j reads
    stream,      \* jobs of the stream of joins, oldest first
    pc,          \* pc[e], where an executor is
    job,         \* job[e], its query
    bound,       \* bound[j], the references of j that were seen READY
    call,        \* call[c], where a call of cancelAsyncQuery is
    asked,       \* asked[c], its query
    sawCancelled,\* sawCancelled[c], the row it read was CANCELLED
    lost,        \* how many executors and submissions have died
    stopped,     \* history: joins cancelled before they had all their references
    cascaded,    \* history: legs a cascade has cancelled
    unseen,      \* history: readers, and the legs cancelled before they could be seen to read them
    answered,    \* history: joins whose cancel was answered
    left         \* history: legs a cascade has left to another reader

nodeVars == <<node, refs, stream>>
runVars == <<pc, job, bound>>
callVars == <<call, asked, sawCancelled>>
cascadeVars == <<cascaded, unseen, answered, left>>
vars == <<rowVars, nodeVars, runVars, callVars, lost, stopped, cascadeVars>>

Node == {"new", "row", "spec", "published", "failed", "done", "refused", "cut"}

(* No spec says what the query reads.                                      *)
Unwritten == {"new", "row", "cut"}

TypeOK ==
    /\ RowTypeOK
    /\ node \in [Query -> Node]
    /\ refs \in [Join -> SUBSET Query]
    /\ stream \in Seq(Query)
    /\ pc \in [Executor -> {"idle", "claim", "wait", "recheck", "run"}]
    /\ job \in [Executor -> Query \union {NoQuery}]
    /\ \A e \in Executor : pc[e] = "idle" <=> job[e] = NoQuery
    /\ bound \in [Join -> SUBSET Query]
    /\ \A j \in Join : bound[j] \subseteq refs[j]
    /\ call \in [Canceller -> {"idle", "update", "cascade"}]
    /\ asked \in [Canceller -> Query \union {NoQuery}]
    /\ sawCancelled \in [Canceller -> BOOLEAN]
    /\ lost \in 0..MaxLosses
    /\ stopped \subseteq Join
    /\ cascaded \subseteq Query /\ left \subseteq Query /\ answered \subseteq Query
    /\ unseen \subseteq Join \X Query

Init ==
    /\ RowInit
    /\ node = [q \in Query |-> "new"]
    /\ refs = [j \in Join |-> {}]
    /\ stream = <<>>
    /\ pc = [e \in Executor |-> "idle"]
    /\ job = [e \in Executor |-> NoQuery]
    /\ bound = [j \in Join |-> {}]
    /\ call = [c \in Canceller |-> "idle"]
    /\ asked = [c \in Canceller |-> NoQuery]
    /\ sawCancelled = [c \in Canceller |-> FALSE]
    /\ lost = 0 /\ stopped = {}
    /\ cascaded = {} /\ unseen = {} /\ answered = {} /\ left = {}

Running(q) == status[q] \in Live
Submitted == {q \in Query : node[q] = "done"}

-----------------------------------------------------------------------------
(* Submission: the loop of submitQueries, and submitQuery of one node.     *)

(* A node is submitted when those before it are. The references of a join  *)
(* are authorized first, so they are queries whose uuid is known.          *)
CreateRowAtOnce(q) ==
    /\ node[q] = "new"
    /\ Insert(q)
    /\ node' = [node EXCEPT ![q] = IF q \in Join THEN "row" ELSE "spec"]
    /\ IF q \in Join
       THEN \E others \in SUBSET Submitted :
               refs' = [refs EXCEPT ![q] = Legs[q] \union others]
       ELSE UNCHANGED refs
    /\ UNCHANGED <<stream, runVars, callVars, lost, stopped, cascadeVars>>
CreateRow(q) ==
    /\ node[q] = "new"
    /\ Before[q] \subseteq Submitted
    /\ Insert(q)
    /\ node' = [node EXCEPT ![q] = IF q \in Join THEN "row" ELSE "spec"]
    /\ IF q \in Join
       THEN \E others \in SUBSET Submitted :
               refs' = [refs EXCEPT ![q] = Legs[q] \union others]
       ELSE UNCHANGED refs
    /\ UNCHANGED <<stream, runVars, callVars, lost, stopped, cascadeVars>>

(* submitQuery throws before there is a row, and the loop ends: the rest   *)
(* of the DAG is never submitted.                                          *)
Refuse(q) ==
    /\ node[q] = "new"
    /\ node' = [node EXCEPT ![q] = "refused"]
    /\ UNCHANGED <<rowVars, refs, stream, runVars, callVars, lost, stopped, cascadeVars>>

(* setDuckdbExecution: a second statement, and what a cascade looks at.    *)
WriteSpec(j) ==
    /\ node[j] = "row"
    /\ node' = [node EXCEPT ![j] = "spec"]
    /\ UNCHANGED <<rowVars, refs, stream, runVars, callVars, lost, stopped, cascadeVars>>

(* The job is stored in the stream. The publish may fail all the same.     *)
Publish(q) ==
    /\ node[q] = "spec"
    /\ stream' = Append(stream, q)
    /\ \E next \in {"published", "failed"} : node' = [node EXCEPT ![q] = next]
    /\ UNCHANGED <<rowVars, refs, runVars, callVars, lost, stopped, cascadeVars>>

PublishFails(q) ==
    /\ node[q] = "spec"
    /\ node' = [node EXCEPT ![q] = "failed"]
    /\ UNCHANGED <<rowVars, refs, stream, runVars, callVars, lost, stopped, cascadeVars>>

(* A leg goes to the stream of the warehouse, or is run in the API process *)
(* without a claim. A join is run there too when nobody takes its stream.  *)
HandOver(q) ==
    /\ node[q] = "spec"
    /\ \E start \in IF q \in Join THEN {"claim"} ELSE {"claim", "run"} :
          /\ pc' = [pc EXCEPT ![q] = start]
          /\ node' = [node EXCEPT ![q] =
                  IF q \notin Join /\ start = "claim" THEN "published" ELSE "done"]
    /\ job' = [job EXCEPT ![q] = q]
    /\ UNCHANGED <<rowVars, refs, stream, bound, callVars, lost, stopped, cascadeVars>>

MarkQueued(q) ==
    /\ node[q] = "published"
    /\ UpdateToQueued(q)
    /\ node' = [node EXCEPT ![q] = "done"]
    /\ UNCHANGED <<refs, stream, runVars, callVars, lost, stopped, cascadeVars>>

MarkEnqueueFailed(q) ==
    /\ node[q] = "failed"
    /\ UpdateToError(q)
    /\ node' = [node EXCEPT ![q] = "done"]
    /\ UNCHANGED <<refs, stream, runVars, callVars, lost, stopped, cascadeVars>>

-----------------------------------------------------------------------------
(* Execution.                                                              *)

(* A loop fetches the oldest job.                                          *)
Take(s) ==
    /\ pc[s] = "idle" /\ stream # <<>>
    /\ pc' = [pc EXCEPT ![s] = "claim"]
    /\ job' = [job EXCEPT ![s] = Head(stream)]
    /\ stream' = Tail(stream)
    /\ UNCHANGED <<rowVars, node, refs, bound, callVars, lost, stopped, cascadeVars>>

Finish(e) ==
    /\ pc' = [pc EXCEPT ![e] = "idle"]
    /\ job' = [job EXCEPT ![e] = NoQuery]
    /\ bound' = [j \in Join |-> IF j = job[e] THEN {} ELSE bound[j]]

(* prepareQueuedQueryForExecution.                                         *)
Claim(e) ==
    /\ pc[e] = "claim"
    /\ UpdateToExecuting(job[e])
    /\ IF MayExecute(status[job[e]])
       THEN /\ pc' = [pc EXCEPT ![e] = IF job[e] \in Join THEN "wait" ELSE "run"]
            /\ UNCHANGED <<job, bound>>
       ELSE Finish(e)
    /\ UNCHANGED <<nodeVars, callVars, lost, stopped, cascadeVars>>

ExpireQueued(e) ==
    /\ pc[e] = "claim"
    /\ UpdateToExpired(job[e])
    /\ Finish(e)
    /\ UNCHANGED <<nodeVars, callVars, lost, stopped, cascadeVars>>

(* waitForQueryReferences polls every reference: one is READY; ...         *)
CompletedOrExpired(s) == s \in {"ready", "expired"}
Completed(s) == s = "ready"

HasFailedOrStopped(s) == s \in {"error", "cancelled"}
HasFailed(s) == s \in {"error", "expired", "cancelled"}

SeeReference(e, r) ==
    /\ pc[e] = "wait"
    /\ r \in refs[job[e]] \ bound[job[e]]
    /\ Completed(status[r])
    /\ bound' = [bound EXCEPT ![job[e]] = @ \union {r}]
    /\ UNCHANGED <<rowVars, nodeVars, pc, job, callVars, lost, stopped, cascadeVars>>

(* ... one has ended without results, or has not ended in 15 minutes, or   *)
(* its results may not be read; ...                                        *)
ReferenceFails(e, r) ==
    /\ pc[e] = "wait"
    /\ r \in refs[job[e]] \ bound[job[e]]
    /\ HasFailed(status[r])
    /\ UpdateToError(job[e])
    /\ Finish(e)
    /\ UNCHANGED <<nodeVars, callVars, lost, stopped, cascadeVars>>

WaitFails(e) ==
    /\ pc[e] = "wait"
    /\ UpdateToError(job[e])
    /\ Finish(e)
    /\ UNCHANGED <<nodeVars, callVars, lost, stopped, cascadeVars>>

(* ... all are READY, and bindDuckdbQueryReferences is done.               *)
BindReferences(e) ==
    /\ pc[e] = "wait"
    /\ bound[job[e]] = refs[job[e]]
    /\ pc' = [pc EXCEPT ![e] = "recheck"]
    /\ UNCHANGED <<rowVars, nodeVars, job, bound, callVars, lost, stopped, cascadeVars>>

(* "A query cancelled while it waited on its references never runs."       *)
RecheckNothing(e) ==
    /\ pc[e] = "recheck"
    /\ pc' = [pc EXCEPT ![e] = "run"]
    /\ UNCHANGED <<rowVars, nodeVars, job, bound, callVars, lost, stopped, cascadeVars>>
Recheck(e) ==
    /\ pc[e] = "recheck"
    /\ IF status[job[e]] = "cancelled"
       THEN Finish(e)
       ELSE pc' = [pc EXCEPT ![e] = "run"] /\ UNCHANGED <<job, bound>>
    /\ UNCHANGED <<rowVars, nodeVars, callVars, lost, stopped, cascadeVars>>

(* The run, or a cache hit, lands; or the run fails or the guard of the    *)
(* join refuses it.                                                        *)
Land(e) ==
    /\ pc[e] = "run"
    /\ \/ UpdateToReady(job[e], job[e])
       \/ UpdateToError(job[e])
    /\ Finish(e)
    /\ UNCHANGED <<nodeVars, callVars, lost, stopped, cascadeVars>>

-----------------------------------------------------------------------------
(* cancelAsyncQuery: it reads the row, updates it, and cascades.           *)

ReadRow(c, q) ==
    /\ call[c] = "idle"
    /\ q \in Submitted
    /\ call' = [call EXCEPT ![c] = "update"]
    /\ asked' = [asked EXCEPT ![c] = q]
    /\ sawCancelled' = [sawCancelled EXCEPT ![c] = status[q] = "cancelled"]
    /\ UNCHANGED <<rowVars, nodeVars, runVars, lost, stopped, cascadeVars>>

Return(c) ==
    /\ call' = [call EXCEPT ![c] = "idle"]
    /\ asked' = [asked EXCEPT ![c] = NoQuery]
    /\ sawCancelled' = [sawCancelled EXCEPT ![c] = FALSE]

(* Cancelling a join that is still without its references stops it.        *)
NoteStopped(q) ==
    stopped' = IF q \in Join /\ MayCancel(status[q])
                    /\ ~\E e \in Executor : job[e] = q /\ pc[e] \in {"recheck", "run"}
               THEN stopped \union {q} ELSE stopped

(* An update that found nothing to cancel is answered, unless the row that *)
(* was read was cancelled already: a retry finishes a partial cascade.     *)
CancelRowOnce(c) ==
    LET q == asked[c] IN
    /\ call[c] = "update"
    /\ UpdateToCancelled(q)
    /\ NoteStopped(q)
    /\ IF MayCancel(status[q])
       THEN /\ call' = [call EXCEPT ![c] = "cascade"]
            /\ UNCHANGED <<asked, sawCancelled, answered>>
       ELSE /\ Return(c)
            /\ answered' = IF sawCancelled[c] THEN answered \union {q} ELSE answered
    /\ UNCHANGED <<nodeVars, runVars, lost, cascaded, unseen, left>>
CancelRow(c) ==
    LET q == asked[c] IN
    /\ call[c] = "update"
    /\ UpdateToCancelled(q)
    /\ NoteStopped(q)
    /\ IF MayCancel(status[q]) \/ sawCancelled[c]
       THEN call' = [call EXCEPT ![c] = "cascade"] /\ UNCHANGED <<asked, sawCancelled>>
       ELSE Return(c)
    /\ UNCHANGED <<nodeVars, runVars, lost, cascadeVars>>

(* The queries that are running and whose spec says that they read l.      *)
ReadersExecuting(l) ==
    {j \in Join : node[j] \notin Unwritten /\ l \in refs[j] /\ status[j] = "executing"}
Readers(l) ==
    {j \in Join : node[j] \notin Unwritten /\ l \in refs[j] /\ Running(j)}

OwnLegs(q) == IF q \in Join THEN Legs[q] ELSE {}

(* cancelRunningQueriesReadOnlyBy: one UPDATE over the legs of the merge.  *)
Cascade(c) ==
    LET q == asked[c]
        running == {l \in OwnLegs(q) : Running(l)}
        ended == {l \in running : Readers(l) \subseteq {q}}
    IN  /\ call[c] = "cascade"
        /\ status' = [r \in Query |-> IF r \in ended THEN "cancelled" ELSE status[r]]
        /\ cascaded' = cascaded \union ended
        /\ left' = left \union (running \ ended)
        /\ unseen' = unseen \union ({j \in Join : node[j] \in Unwritten} \X ended)
        /\ answered' = IF OwnLegs(q) = {} THEN answered ELSE answered \union {q}
        /\ Return(c)
        /\ UNCHANGED <<file, nodeVars, runVars, lost, stopped>>

-----------------------------------------------------------------------------
(* Losses: an executor, a submission or a call of cancelAsyncQuery dies    *)
(* with its process. A row that was claimed stays EXECUTING.               *)

ExecutorDies(e) ==
    /\ pc[e] # "idle"
    /\ Finish(e)
    /\ lost < MaxLosses /\ lost' = lost + 1
    /\ UNCHANGED <<rowVars, nodeVars, callVars, stopped, cascadeVars>>

SubmissionDies(q) ==
    /\ node[q] \in {"row", "spec", "published", "failed"}
    /\ node' = [node EXCEPT ![q] = IF @ = "row" THEN "cut" ELSE "refused"]
    /\ lost < MaxLosses /\ lost' = lost + 1
    /\ UNCHANGED <<rowVars, refs, stream, runVars, callVars, stopped, cascadeVars>>

CancelDies(c) ==
    /\ call[c] # "idle"
    /\ Return(c)
    /\ UNCHANGED <<rowVars, nodeVars, runVars, lost, stopped, cascadeVars>>

-----------------------------------------------------------------------------
Submits(q) ==
    \/ CreateRow(q) \/ WriteSpec(q) \/ Publish(q) \/ PublishFails(q) \/ HandOver(q)
    \/ MarkQueued(q) \/ MarkEnqueueFailed(q)

Runs(e) ==
    \/ Claim(e) \/ ExpireQueued(e) \/ BindReferences(e) \/ Recheck(e) \/ Land(e)
    \/ \E r \in Query : SeeReference(e, r) \/ ReferenceFails(e, r)

Cancels(c) == CancelRow(c) \/ Cascade(c)

Next ==
    \/ \E q \in Query : Submits(q) \/ Refuse(q) \/ SubmissionDies(q)
    \/ \E s \in Slot : Take(s)
    \/ \E e \in Executor : Runs(e) \/ WaitFails(e) \/ ExecutorDies(e)
    \/ \E c \in Canceller :
          \/ Cancels(c) \/ CancelDies(c)
          \/ \E q \in Query : ReadRow(c, q)

Spec == Init /\ [][Next]_vars

(* Submissions go on, loops fetch, and what was fetched is run. Nothing    *)
(* makes a wait time out.                                                  *)
Fairness ==
    /\ \A q \in Query : WF_vars(Submits(q))
    /\ \A s \in Slot : WF_vars(Take(s))
    /\ \A e \in Executor : WF_vars(Runs(e))

FairSpec == Spec /\ Fairness

-----------------------------------------------------------------------------
(* The SQL of a join is run, and its answer given, over results that       *)
(* exist: each of its references was answered with a file. (An answer that *)
(* was later reported as failed keeps its file.)                           *)
ReadsAnswers ==
    \A j \in Join :
        status[j] = "ready" \/ (\E e \in Executor : job[e] = j /\ pc[e] = "run")
            => \A r \in refs[j] : file[r] # NoFile

(* A join that is cancelled while it waits never runs.                     *)
StoppedNeverRuns ==
    \A e \in Executor : job[e] \in stopped => pc[e] # "run"

(* The cancel of a merge takes no leg from another query that reads it: of *)
(* the readers of such a leg only one whose spec was not written yet can   *)
(* find it cancelled.                                                      *)
NoCollateral ==
    \A j \in Join : \A l \in refs[j] \intersect cascaded :
        Running(j) => <<j, l>> \in unseen

(* A cancel that was answered, retries of one that had died half-way       *)
(* included, leaves no leg of the merge running but those that another     *)
(* query was reading.                                                      *)
AnsweredCancelIsWhole ==
    \A j \in answered : \A l \in OwnLegs(j) : Running(l) => l \in left

(* Whose end a query waits for: a join for the queries it reads, a job in  *)
(* the stream for those ahead of it and those that keep a loop.            *)
Blockers(q) ==
    (IF q \in Join THEN refs[q] ELSE {}) \union
    {b \in Query : \E i \in 1..Len(stream) :
        /\ stream[i] = q
        /\ (\E k \in 1..(i - 1) : stream[k] = b) \/ (\E s \in Slot : job[s] = b)}

(* No queries wait for each other in a circle, however many there are and  *)
(* whatever they read: among any of them is one that waits for none of the *)
(* others. In particular no join that keeps a loop reads a job behind it.  *)
NoCircularWait ==
    \A S \in SUBSET Query :
        S # {} => \E q \in S : Blockers(q) \intersect S = {}

(* What goes on without the passing of time: a submission, a loop that may *)
(* fetch, a run, or a wait that one of the references decides.             *)
Progressing ==
    \/ \E q \in Query : node[q] \in {"row", "spec", "published", "failed"}
    \/ stream # <<>> /\ \E s \in Slot : pc[s] = "idle"
    \/ \E e \in Executor : pc[e] \in {"claim", "recheck", "run"}
    \/ \E e \in Executor :
          /\ pc[e] = "wait"
          /\ \/ bound[job[e]] = refs[job[e]]
             \/ \E r \in refs[job[e]] \ bound[job[e]] :
                   Completed(status[r]) \/ HasFailed(status[r])

(* As long as nothing has died, and the stream has a loop, the system      *)
(* never stands still over a query that is still running.                  *)
NoStandstill ==
    lost = 0 /\ Slot # {} /\ (\E q \in Query : Running(q)) => Progressing

(* Without losses every query ends, and no wait has to time out for it: a  *)
(* join that keeps a loop of the stream never waits for a job behind it.   *)
EveryQueryEnds ==
    [](lost = 0) => \A q \in Query : status[q] \in Live ~> status[q] \in Terminal

(* What QueryPromise promises of a query holds of each of them. A cascade  *)
(* cancels several at once, so the promise is made to every query alone.   *)
PromiseTo(q) == INSTANCE QueryPromise WITH
    Query <- {q},
    outcome <- [p \in {q} |-> OutcomeOf(status[p])],
    answer <- [p \in {q} |-> file[p]]
EveryPromiseKept ==
    /\ \A q \in Query : PromiseTo(q)!PromiseInit
    /\ [][\A q \in Query :
             [PromiseTo(q)!PromiseNext]_(PromiseTo(q)!promiseVars)]_rowVars

-----------------------------------------------------------------------------
(* Why nothing stands still. The named conjuncts together, with those of   *)
(* the other properties, are inductive.                                    *)

Taken == {job[e] : e \in Executor} \ {NoQuery}
Waiting == {stream[i] : i \in 1..Len(stream)}

(* What a join reads was submitted; what is fetched or in the stream was   *)
(* handed over.                                                            *)
ReadsSubmitted == \A j \in Join : refs[j] \subseteq Submitted
HandedOver ==
    \A q \in Taken \union Waiting : node[q] \in {"published", "failed", "done", "refused"}

(* A query is in one place of the stream, or one executor has it.          *)
InOnePlace ==
    /\ \A i, k \in 1..Len(stream) : stream[i] = stream[k] => i = k
    /\ \A e, d \in Executor : job[e] = job[d] /\ job[e] # NoQuery => e = d
    /\ \A q \in Query : job[q] \in {q, NoQuery}
    /\ Taken \intersect Waiting = {}

(* A row is claimed by the executor that has its query and by nobody else; *)
(* whoever runs it will end it. A row whose executor died stays claimed.   *)
Claims ==
    /\ \A q \in Query :
          /\ node[q] \in {"row", "spec"} => status[q] \notin {"queued", "executing"}
          /\ q \in Waiting => status[q] # "executing"
          /\ q \notin Taken /\ status[q] = "executing" => lost > 0
    /\ \A e \in Executor :
          /\ pc[e] = "claim" => status[job[e]] # "executing"
          /\ pc[e] \in {"wait", "recheck"} => status[job[e]] \notin {"pending", "queued"}
          /\ pc[e] = "run" => status[job[e]] # "queued"
          /\ pc[e] = "run" /\ status[job[e]] = "pending" => node[job[e]] = "done"
RowsExist == \A q \in Query : node[q] \notin {"new", "refused"} => status[q] # "none"

(* Without losses no running query is forgotten.                           *)
Attended ==
    \A q \in Query : Running(q) /\ lost = 0 =>
        node[q] \in {"row", "spec", "failed"} \/ q \in Taken \union Waiting

StandstillInv ==
    /\ ReadsSubmitted /\ HandedOver /\ InOnePlace /\ Claims /\ RowsExist /\ Attended
    /\ NoCircularWait
=============================================================================
