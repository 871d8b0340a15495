------------------------- MODULE AsyncQueryExecution -------------------------
(***************************************************************************)
(* The life of asynchronous queries: the API server inserts the row and    *)
(* either lands a cache hit, enqueues a NATS JetStream job or runs the     *)
(* query in its own main loop; worker loops fetch jobs, claim the row,     *)
(* rebuild the arguments from it, stream the results to a file, close the  *)
(* file and land READY; the creator may cancel at any moment. Processes    *)
(* may crash, a publish may be stored and still be reported as failed, the *)
(* in-memory stream may lose a job, and a consumer may redeliver one.      *)
(*                                                                         *)
(* One action is one statement that another process can observe: a row     *)
(* update, a stream operation, the closing of a file.                      *)
(***************************************************************************)
EXTENDS QueryHistory, Naturals

CONSTANTS
    Worker,         \* the fetch loops of all NATS worker processes
    NoQuery,        \* an executor that runs nothing
    Targets,        \* execution targets the submissions of a model choose from
    NatsEnabled,    \* lightdashConfig.natsWorker.enabled
    MaxDeliver,     \* max_deliver of the durable consumer; the code asks for 1,
                    \* a consumer created by an earlier release keeps its own
    Cached          \* the results file a cache lookup found

PreAggregate == {"pre_aggregate_duckdb", "pre_aggregate_warehouse"}
Target == {"warehouse", "duckdb", "external_source"} \union PreAggregate

(* A query executes in a worker loop, or in the background of the API      *)
(* server that submitted it: that executor is named by the query itself.   *)
Executor == Worker \union Query

(* "warehouse" runs on the connection of the project, "override" on a      *)
(* DuckDB client that needs no connection, "pre_aggregate" on the          *)
(* connection of the project but with a warehouse query to fall back to.   *)
Attempt == {"warehouse", "override", "pre_aggregate"}

ASSUME ExecutionAssumption ==
    /\ Worker \intersect Query = {}
    /\ NoQuery \notin Query
    /\ Targets \subseteq Target
    /\ NatsEnabled \in BOOLEAN
    /\ MaxDeliver \in Nat \ {0}
    /\ Cached \in File
    /\ Executor \X Query \X Attempt \subseteq File

VARIABLES
    target,      \* target[q], the execution plan of the query
    bound,       \* the queries produced through an agent connection grant
    submitter,   \* submitter[q], where executePreparedAsyncQuery is
    message,     \* message[q], the job of the query in the stream
    deliveries,  \* deliveries[q], how often the stream handed the job out
    late,        \* late[q], the row is older than the queue timeout
    uploaded,    \* the results files that were closed completely
    pc,          \* pc[e], where an executor is
    job,         \* job[e], the query an executor works on
    attempt      \* attempt[e], which client runs the query

submitVars == <<target, bound, submitter>>
streamVars == <<message, deliveries>>
runVars == <<pc, job, attempt>>
vars == <<rowVars, submitVars, streamVars, late, uploaded, runVars>>

SubmitterPc == {"idle", "hit", "landing", "miss", "published", "failed", "done"}

(* From "verify" on an executor owns the row.                              *)
OwningPc == {"verify", "build", "bind", "run", "close", "land",
             "release", "failed", "landHit"}
ExecutorPc == {"idle", "read", "expire", "claim"} \union OwningPc

TypeOK ==
    /\ RowTypeOK
    /\ target \in [Query -> Target]
    /\ bound \subseteq Query
    /\ submitter \in [Query -> SubmitterPc]
    /\ message \in [Query -> {"none", "stored", "gone"}]
    /\ deliveries \in [Query -> 0 .. MaxDeliver]
    /\ late \in [Query -> BOOLEAN]
    /\ uploaded \subseteq File
    /\ pc \in [Executor -> ExecutorPc]
    /\ job \in [Executor -> Query \union {NoQuery}]
    /\ attempt \in [Executor -> Attempt]

Init ==
    /\ RowInit
    /\ target = [q \in Query |-> "warehouse"]
    /\ bound = {}
    /\ submitter = [q \in Query |-> "idle"]
    /\ message = [q \in Query |-> "none"]
    /\ deliveries = [q \in Query |-> 0]
    /\ late = [q \in Query |-> FALSE]
    /\ uploaded = {Cached}
    /\ pc = [e \in Executor |-> "idle"]
    /\ job = [e \in Executor |-> NoQuery]
    /\ attempt = [e \in Executor |-> "warehouse"]

-----------------------------------------------------------------------------
(* The submission: executePreparedAsyncQuery, and                          *)
(* executeAsyncDuckdbSourceQuery for the target "duckdb".                  *)

(* A query over an external source never leaves the API server.            *)
Route(t) == IF NatsEnabled /\ t # "external_source" THEN "nats" ELSE "main"

(* The client of the first attempt. A bound query skips the pre-aggregate. *)
FirstAttempt(q, t) ==
    CASE t \in {"duckdb", "external_source"} -> "override"
      [] t = "pre_aggregate_duckdb" /\ q \notin bound -> "override"
      [] t = "pre_aggregate_warehouse" /\ q \notin bound -> "pre_aggregate"
      [] OTHER -> "warehouse"

(* The cache was looked up before the row exists; a DuckDB query looks     *)
(* later, when its references are bound.                                   *)
Create(q) ==
    /\ submitter[q] = "idle"
    /\ Insert(q)
    /\ \E t \in Targets, b \in SUBSET {q}, hit \in BOOLEAN :
          /\ t = "duckdb" => ~hit
          /\ bound' = bound \union b
          /\ target' = [target EXCEPT ![q] = t]
          /\ submitter' = [submitter EXCEPT ![q] = IF hit THEN "hit" ELSE "miss"]
    /\ UNCHANGED <<streamVars, late, uploaded, runVars>>

SubmitterTo(q, s) ==
    /\ submitter' = [submitter EXCEPT ![q] = s]
    /\ UNCHANGED <<target, bound, late, uploaded>>

ClaimHit(q) ==
    /\ submitter[q] = "hit"
    /\ IF NatsEnabled THEN UpdateToExecuting(q) ELSE UNCHANGED rowVars
    /\ SubmitterTo(q, "landing")
    /\ UNCHANGED <<streamVars, runVars>>

LandHit(q) ==
    /\ submitter[q] = "landing"
    /\ UpdateToReady(q, Cached)
    /\ SubmitterTo(q, "done")
    /\ UNCHANGED <<streamVars, runVars>>

(* Missing parameters, or an execution plan that is an error.              *)
RejectPlan(q) ==
    /\ submitter[q] = "miss"
    /\ target[q] # "duckdb"
    /\ UpdateToError(q)
    /\ SubmitterTo(q, "done")
    /\ UNCHANGED <<streamVars, runVars>>

Publish(q) ==
    /\ submitter[q] = "miss"
    /\ Route(target[q]) = "nats"
    /\ message' = [message EXCEPT ![q] = "stored"]
    /\ \E acked \in BOOLEAN :
          SubmitterTo(q, IF acked THEN "published" ELSE "failed")
    /\ UNCHANGED <<rowVars, deliveries, runVars>>

PublishFails(q) ==
    /\ submitter[q] = "miss"
    /\ Route(target[q]) = "nats"
    /\ SubmitterTo(q, "failed")
    /\ UNCHANGED <<rowVars, streamVars, runVars>>

(* The worker may have claimed the row before this: it is then left alone. *)
MarkQueued(q) ==
    /\ submitter[q] = "published"
    /\ UpdateToQueued(q)
    /\ SubmitterTo(q, "done")
    /\ UNCHANGED <<streamVars, runVars>>

(* The mutated form uses the update for rows that a worker has claimed.    *)
MarkEnqueueFailedIfClaimed(q) ==
    /\ submitter[q] = "failed"
    /\ UpdateClaimedToError(q)
    /\ SubmitterTo(q, "done")
    /\ UNCHANGED <<streamVars, runVars>>
MarkEnqueueFailed(q) ==
    /\ submitter[q] = "failed"
    /\ UpdateToError(q)
    /\ SubmitterTo(q, "done")
    /\ UNCHANGED <<streamVars, runVars>>

StartRun(e, q, p) ==
    /\ pc' = [pc EXCEPT ![e] = p]
    /\ job' = [job EXCEPT ![e] = q]
    /\ attempt' = [attempt EXCEPT ![e] = FirstAttempt(q, target[q])]

(* A DuckDB query runs from its row wherever it runs; any other query is   *)
(* run in the main loop straight from PENDING, unclaimed. "No responders"  *)
(* on a DuckDB publish (nothing stored) also runs the query here.          *)
RunInMainLoop(q) ==
    /\ submitter[q] = "miss"
    /\ Route(target[q]) = "main" \/ target[q] = "duckdb"
    /\ StartRun(q, q, IF target[q] = "duckdb" THEN "read"
                      ELSE IF q \in bound THEN "verify" ELSE "run")
    /\ SubmitterTo(q, "done")
    /\ UNCHANGED <<rowVars, streamVars>>

Submission(q) ==
    \/ ClaimHit(q)
    \/ LandHit(q)
    \/ RejectPlan(q)
    \/ Publish(q)
    \/ PublishFails(q)
    \/ MarkQueued(q)
    \/ MarkEnqueueFailed(q)
    \/ RunInMainLoop(q)

-----------------------------------------------------------------------------
(* An executor. A worker loop handles one message at a time.               *)

ExecutorTo(e, p) ==
    /\ pc' = [pc EXCEPT ![e] = p]
    /\ UNCHANGED <<submitVars, streamVars, late, job>>

StopExecutor(e) ==
    /\ pc' = [pc EXCEPT ![e] = "idle"]
    /\ job' = [job EXCEPT ![e] = NoQuery]
    /\ UNCHANGED <<submitVars, deliveries, late, attempt>>

(* ack() and term() remove the message from the work queue.                *)
Settle(e) ==
    /\ StopExecutor(e)
    /\ message' = IF e \in Worker
                  THEN [message EXCEPT ![job[e]] = "gone"] ELSE message

(* An exception: nak(), except that a bound query found in ERROR or        *)
(* CANCELLED is terminated. A nak'ed message stays in the stream, to be    *)
(* delivered again only if max_deliver allows it.                          *)
Throw(e) ==
    /\ StopExecutor(e)
    /\ message' =
          IF e \in Worker /\ job[e] \in bound
             /\ status'[job[e]] \in {"error", "cancelled"}
          THEN [message EXCEPT ![job[e]] = "gone"] ELSE message

(* The mutated form hands a message out without counting deliveries.       *)
DeliverUncounted(w, q) ==
    /\ pc[w] = "idle"
    /\ message[q] = "stored"
    /\ deliveries' = [deliveries EXCEPT ![q] = @ + 1]
    /\ StartRun(w, q, "read")
    /\ UNCHANGED <<rowVars, submitVars, message, late, uploaded>>
Deliver(w, q) ==
    /\ pc[w] = "idle"
    /\ message[q] = "stored"
    /\ deliveries[q] < MaxDeliver
    /\ deliveries' = [deliveries EXCEPT ![q] = @ + 1]
    /\ StartRun(w, q, "read")
    /\ UNCHANGED <<rowVars, submitVars, message, late, uploaded>>

(* prepareQueuedQueryForExecution: read the row, then claim or expire it.  *)
Read(e) ==
    /\ pc[e] = "read"
    /\ IF status[job[e]] \notin {"pending", "queued"}
       THEN Settle(e)
       ELSE /\ ExecutorTo(e, IF late[job[e]] THEN "expire" ELSE "claim")
            /\ UNCHANGED attempt
    /\ UNCHANGED <<rowVars, uploaded>>

ExpireInQueue(e) ==
    /\ pc[e] = "expire"
    /\ UpdateToExpired(job[e])
    /\ Settle(e)
    /\ UNCHANGED uploaded

(* The mutated form does not look at the number of updated rows.           *)
ClaimUnchecked(e) ==
    /\ pc[e] = "claim"
    /\ UpdateToExecuting(job[e])
    /\ ExecutorTo(e, "build")
    /\ UNCHANGED <<uploaded, attempt>>
Claim(e) ==
    /\ pc[e] = "claim"
    /\ UpdateToExecuting(job[e])
    /\ IF MayExecute(status[job[e]])
       THEN ExecutorTo(e, "build") /\ UNCHANGED attempt
       ELSE Settle(e)
    /\ UNCHANGED uploaded

AfterVerify(e) == IF target[job[e]] = "duckdb" THEN "bind" ELSE "run"

(* The arguments of the run are rebuilt from the row.                      *)
Build(e) ==
    /\ pc[e] = "build"
    /\ ExecutorTo(e, IF job[e] \in bound THEN "verify" ELSE AfterVerify(e))
    /\ UNCHANGED <<rowVars, uploaded, attempt>>

(* A failed rebuild is written to the row of a bound or a DuckDB query.    *)
BuildFails(e) ==
    /\ pc[e] = "build"
    /\ \/ job[e] \in bound /\ UpdateClaimedToError(job[e])
       \/ job[e] \notin bound /\ target[job[e]] = "duckdb" /\ UpdateToError(job[e])
    /\ Throw(e)
    /\ UNCHANGED uploaded

(* withQueryConnectionExecution checks the grant again before the run.     *)
Verify(e) ==
    /\ pc[e] = "verify"
    /\ ExecutorTo(e, AfterVerify(e))
    /\ UNCHANGED <<rowVars, uploaded, attempt>>

VerifyFails(e) ==
    /\ pc[e] = "verify"
    /\ status[job[e]] \notin {"pending", "queued"}
    /\ UpdateClaimedToError(job[e])
    /\ Throw(e)
    /\ UNCHANGED uploaded

(* A DuckDB query waits for its references and looks up the cache; one     *)
(* that was cancelled meanwhile does not run.                              *)
Bind(e) ==
    /\ pc[e] = "bind"
    /\ IF status[job[e]] = "cancelled"
       THEN Settle(e)
       ELSE /\ \E p \in {"run", "landHit", "failed"} : ExecutorTo(e, p)
            /\ UNCHANGED attempt
    /\ UNCHANGED <<rowVars, uploaded>>

LandDuckdbHit(e) ==
    /\ pc[e] = "landHit"
    /\ UpdateToReady(job[e], Cached)
    /\ Settle(e)
    /\ UNCHANGED uploaded

-----------------------------------------------------------------------------
(* runAsyncWarehouseQueryInScope.                                          *)

(* createUniqueResultsFileName: no two runs write the same file.           *)
FileOf(e) == <<e, job[e], attempt[e]>>

Run(e) ==
    /\ pc[e] = "run"
    /\ \E p \in {"close", "failed"} : ExecutorTo(e, p)
    /\ UNCHANGED <<rowVars, uploaded, attempt>>

(* The file is closed before the row is marked READY.                      *)
Close(e) ==
    /\ pc[e] = "close"
    /\ uploaded' = uploaded \union {FileOf(e)}
    /\ ExecutorTo(e, "land")
    /\ UNCHANGED <<rowVars, attempt>>

(* The mutated form goes on to READY although the file was not written.    *)
CloseFailsSilently(e) ==
    /\ pc[e] = "close"
    /\ ExecutorTo(e, "land")
    /\ UNCHANGED <<rowVars, uploaded, attempt>>
CloseFails(e) ==
    /\ pc[e] = "close"
    /\ ExecutorTo(e, "failed")
    /\ UNCHANGED <<rowVars, uploaded, attempt>>

Land(e) ==
    /\ pc[e] = "land"
    /\ UpdateToReady(job[e], FileOf(e))
    /\ IF attempt[e] = "override"
       THEN Settle(e)
       ELSE ExecutorTo(e, "release") /\ UNCHANGED attempt
    /\ UNCHANGED uploaded

Release(e) ==
    /\ pc[e] = "release"
    /\ Settle(e)
    /\ UNCHANGED <<rowVars, uploaded>>

(* A pre-aggregate attempt whose error the caller answers by running the   *)
(* warehouse query, unless the project disabled that.                      *)
MayFallBack(e) ==
    /\ target[job[e]] \in PreAggregate
    /\ attempt[e] # "warehouse"

RunWarehouseInstead(e) ==
    /\ pc' = [pc EXCEPT ![e] = "run"]
    /\ attempt' = [attempt EXCEPT ![e] = "warehouse"]
    /\ UNCHANGED <<submitVars, streamVars, late, job>>

(* The connection could not be released after the query had completed: the *)
(* row, READY by now, becomes ERROR, and the error is thrown further.      *)
ReleaseFails(e) ==
    /\ pc[e] = "release"
    /\ UpdateToError(job[e])
    /\ IF MayFallBack(e)
       THEN RunWarehouseInstead(e) \/ Settle(e)
       ELSE Throw(e)
    /\ UNCHANGED uploaded

(* The row stays as it is, for the warehouse query to answer.              *)
FallBack(e) ==
    /\ pc[e] = "failed"
    /\ MayFallBack(e)
    /\ RunWarehouseInstead(e)
    /\ UNCHANGED <<rowVars, uploaded>>

(* markAsyncQueryErrored, and the catch blocks of the DuckDB targets. What *)
(* remains of the stream is closed afterwards, which may throw. The        *)
(* mutated form forgets that a run in the main loop never claims its row.  *)
FailRunIfClaimed(e) ==
    /\ pc[e] = "failed"
    /\ UpdateClaimedToError(job[e])
    /\ Settle(e) \/ (attempt[e] = "warehouse" /\ Throw(e))
    /\ UNCHANGED uploaded
FailRun(e) ==
    /\ pc[e] = "failed"
    /\ UpdateToError(job[e])
    /\ Settle(e) \/ (attempt[e] = "warehouse" /\ Throw(e))
    /\ UNCHANGED uploaded

Execution(e) ==
    \/ Read(e)
    \/ ExpireInQueue(e)
    \/ Claim(e)
    \/ Build(e)
    \/ BuildFails(e)
    \/ Verify(e)
    \/ VerifyFails(e)
    \/ Bind(e)
    \/ LandDuckdbHit(e)
    \/ Run(e)
    \/ Close(e)
    \/ CloseFails(e)
    \/ Land(e)
    \/ Release(e)
    \/ ReleaseFails(e)
    \/ FallBack(e)
    \/ FailRun(e)

-----------------------------------------------------------------------------
(* cancelAsyncQuery, by the creator, and the clock.                        *)

CancelQuery(q) ==
    /\ status[q] # "none"
    /\ UpdateToCancelled(q)
    /\ UNCHANGED <<submitVars, streamVars, late, uploaded, runVars>>

AgeRow(q) ==
    /\ MayExecute(status[q])
    /\ late' = [late EXCEPT ![q] = TRUE]
    /\ UNCHANGED <<rowVars, submitVars, streamVars, uploaded, runVars>>

-----------------------------------------------------------------------------
(* What nothing in this code repairs: each of these can leave a row in     *)
(* PENDING, QUEUED or EXECUTING for good.                                  *)

CrashWorker(w) ==
    /\ pc[w] # "idle"
    /\ StopExecutor(w)
    /\ UNCHANGED <<rowVars, message, uploaded>>

CrashServer(q) ==
    /\ submitter[q] \notin {"idle", "done"} \/ pc[q] # "idle"
    /\ submitter' = [submitter EXCEPT ![q] = "done"]
    /\ pc' = [pc EXCEPT ![q] = "idle"]
    /\ job' = [job EXCEPT ![q] = NoQuery]
    /\ UNCHANGED <<rowVars, target, bound, streamVars, late, uploaded, attempt>>

(* The stream is kept in memory and has one replica.                       *)
LoseMessage(q) ==
    /\ message[q] = "stored"
    /\ message' = [message EXCEPT ![q] = "gone"]
    /\ UNCHANGED <<rowVars, submitVars, deliveries, late, uploaded, runVars>>

(* A failed rebuild of any other query is thrown without a word on the row. *)
BuildFailsUnreported(e) ==
    /\ pc[e] = "build"
    /\ job[e] \notin bound
    /\ target[job[e]] # "duckdb"
    /\ Throw(e)
    /\ UNCHANGED <<rowVars, uploaded>>

(* updateClaimedQueryToError finds no EXECUTING row when a bound query is  *)
(* refused in the main loop, where the row is still PENDING.               *)
VerifyFailsUnclaimed(e) ==
    /\ pc[e] = "verify"
    /\ status[job[e]] \in {"pending", "queued"}
    /\ UpdateClaimedToError(job[e])
    /\ Throw(e)
    /\ UNCHANGED uploaded

Loss ==
    \/ \E w \in Worker : CrashWorker(w)
    \/ \E q \in Query : CrashServer(q) \/ LoseMessage(q)
    \/ \E e \in Executor : BuildFailsUnreported(e) \/ VerifyFailsUnclaimed(e)

Work ==
    \/ \E q \in Query : Create(q) \/ Submission(q) \/ CancelQuery(q) \/ AgeRow(q)
    \/ \E w \in Worker, q \in Query : Deliver(w, q)
    \/ \E e \in Executor : Execution(e)

Next == Work \/ Loss

Spec == Init /\ [][Next]_vars

(* Without losses: promises settle, worker loops fetch what is stored, and *)
(* a warehouse query returns or times out.                                 *)
Fairness ==
    /\ \A q \in Query : WF_vars(Submission(q))
    /\ \A q \in Query : WF_vars(\E w \in Worker : Deliver(w, q))
    /\ \A e \in Executor : WF_vars(Execution(e))

WorkSpec == Init /\ [][Work]_vars

FairSpec == WorkSpec /\ Fairness

-----------------------------------------------------------------------------
(* A results file named by a row was closed completely before: whoever is  *)
(* told READY can download all of it, even if the run that wrote it was    *)
(* followed by a failing fallback or a failing release of the connection.  *)
AnswerIsUploaded ==
    \A q \in Query : file[q] # NoFile => file[q] \in uploaded

(* At most one executor owns a query, whatever the submitter, the stream   *)
(* (which may redeliver) and the crashes do: the claim of the row is what  *)
(* keeps a query from being run, and paid for, twice at a time.            *)
Owns(e, q) == pc[e] \in OwningPc /\ job[e] = q

OneOwner ==
    \A q \in Query, e1, e2 \in Executor :
        Owns(e1, q) /\ Owns(e2, q) => e1 = e2

(* A query told to have expired in the queue is not being run by anybody.  *)
ExpiredIsNotRun ==
    \A q \in Query, e \in Executor : status[q] = "expired" => ~Owns(e, q)

(* A READY row turns into ERROR in two ways only: the submitter was told   *)
(* that its publish failed although the job was stored, or the run that    *)
(* wrote the answer could not release its connection. In particular a run  *)
(* that fails, or the second delivery of a job, never takes the answer of  *)
(* another run away.                                                       *)
AnswerTakenBack ==
    [][\A q \in Query :
          status[q] = "ready" /\ status'[q] = "error" =>
              \/ submitter[q] = "failed"
              \/ \E e \in Executor : pc[e] = "release" /\ job[e] = q]_vars

(* A job reaches the warehouse only if its row was still live when the     *)
(* worker took it: a query that was cancelled, expired or marked as failed *)
(* while its job waited is never started.                                  *)
StoppedBeforeTaken ==
    [][\A w \in Worker, q \in Query :
          ~Owns(w, q) /\ Owns(w, q)' => status[q] \in Live]_vars

(* "keep the query history row non-terminal so polling clients receive the *)
(* retry result" (AsyncQueryService, runAsyncWarehouseQueryInScope): the   *)
(* warehouse run that replaces a failed pre-aggregate run starts on a row  *)
(* that can still be answered, or that its creator cancelled.              *)
FallbackStartsLive ==
    [][\A e \in Executor :
          pc'[e] = "run" /\ attempt[e] # "warehouse" /\ attempt'[e] = "warehouse"
              => status'[job[e]] \in Live \union {"cancelled"}]_vars

(* Every submitted query is eventually answered, failed, cancelled or      *)
(* expired, as long as none of the losses above happens.                   *)
EventuallyTerminal ==
    \A q \in Query : status[q] # "none" ~> status[q] \in Terminal

(* Without losses no running query is forgotten: its submission is still   *)
(* going on, or a delivery of its job is left, or an executor has it. In   *)
(* particular the last executor to let go of a query leaves it ended, and  *)
(* a claim that came too late leaves it to the executor that was first.    *)
HandedOver(q) ==
    \/ message[q] = "stored" /\ deliveries[q] < MaxDeliver
    \/ \E e \in Executor : job[e] = q

Attended ==
    \A q \in Query : status[q] \in Live =>
        submitter[q] \in {"hit", "landing", "miss", "failed"} \/ HandedOver(q)

(* How far a run still has to go: what an executor does, a fall-back to    *)
(* the warehouse included, only ever brings it nearer to its end.          *)
Stage ==
    [idle |-> 0, release |-> 1, failed |-> 2, land |-> 2, landHit |-> 2,
     close |-> 3, run |-> 4, bind |-> 5, verify |-> 6, build |-> 7,
     claim |-> 8, expire |-> 8, read |-> 9]
ToGo(e) == Stage[pc[e]] + IF attempt[e] = "warehouse" \/ pc[e] = "idle" THEN 0 ELSE 10

(* Between two deliveries no executor does anything twice: each of its     *)
(* steps leaves less to do, so a query is run at most twice per delivery.  *)
RunsGetShorter ==
    [][\A e \in Executor :
          pc[e] # "idle" /\ <<pc'[e], attempt'[e]>> # <<pc[e], attempt[e]>>
              => ToGo(e)' < ToGo(e)]_vars

-----------------------------------------------------------------------------
(* Why the invariants hold: who can be where with which row. The named     *)
(* conjuncts together are inductive.                                       *)

(* Nobody but the submitter knows of the query before it is handed over.   *)
BeforeHandover(q) ==
    submitter[q] \in {"idle", "hit", "landing", "miss"} =>
        /\ message[q] = "none"
        /\ job[q] = NoQuery
        /\ status[q] \notin {"ready", "expired"}

(* A query runs in the main loop of its server, or it is in the stream.    *)
InProcessAlone(q) ==
    /\ job[q] \in {q, NoQuery}
    /\ job[q] = q => message[q] = "none"

OfMessage(w) == job[w] # NoQuery => message[job[w]] # "none"

WorkingHasJob(e) == pc[e] = "idle" <=> job[e] = NoQuery

(* The row of a query owned by a worker was claimed and stays claimed.     *)
Claimed(w) ==
    pc[w] \in OwningPc => status[job[w]] \in {"executing"} \union (Terminal \ {"expired"})

NotExpired(e) == pc[e] \in OwningPc => status[job[e]] # "expired"

(* Once its run has landed, an owner only releases the connection.         *)
LandedReleases(e) ==
    pc[e] \in OwningPc /\ status[job[e]] = "ready" => pc[e] = "release"

(* What is about to be named by the row is complete.                       *)
LandsUploaded(e) == pc[e] = "land" => FileOf(e) \in uploaded

ExecutionInv ==
    /\ TypeOK
    /\ FileOnlyWithAnswer
    /\ Cached \in uploaded
    /\ AnswerIsUploaded
    /\ OneOwner
    /\ \A q \in Query : BeforeHandover(q) /\ InProcessAlone(q)
    /\ \A w \in Worker : OfMessage(w) /\ Claimed(w)
    /\ \A e \in Executor :
          WorkingHasJob(e) /\ NotExpired(e) /\ LandedReleases(e) /\ LandsUploaded(e)

(* Why no query is forgotten, as long as nothing is lost.                  *)

(* Without a message there is no delivery to count, and nobody who takes   *)
(* the row for queued.                                                     *)
NotPublishedYet(q) ==
    message[q] = "none" =>
        deliveries[q] = 0 /\ status[q] # "queued" /\ submitter[q] # "published"

(* Nobody has claimed the row of a query that still waits for its submitter.*)
NotClaimedYet(q) == submitter[q] \in {"hit", "miss"} => status[q] # "executing"

(* A row that was claimed belongs to somebody who will end it.             *)
ClaimIsHeld(q) ==
    status[q] = "executing" =>
        \/ submitter[q] = "landing"
        \/ \E e \in Executor : Owns(e, q)

(* One that was not, to somebody who will claim, expire or answer it.      *)
UnclaimedIsHeld(q) ==
    status[q] \in {"pending", "queued"} =>
        submitter[q] \in {"hit", "landing", "miss", "failed"} \/ HandedOver(q)

(* Who came through a claim has no unclaimed row; a released run is over.  *)
ComesFromClaim(e) ==
    /\ \/ pc[e] \in {"build", "bind", "landHit"}
       \/ pc[e] \in OwningPc /\ target[job[e]] = "duckdb"
       => status[job[e]] \notin {"pending", "queued"}
    /\ pc[e] = "release" => status[job[e]] \notin Live

AttendedInv ==
    /\ ExecutionInv
    /\ \A q \in Query :
          NotPublishedYet(q) /\ NotClaimedYet(q) /\ ClaimIsHeld(q) /\ UnclaimedIsHeld(q)
    /\ \A e \in Executor : ComesFromClaim(e)
=============================================================================
