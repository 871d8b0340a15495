---------------------- MODULE AsyncQueryExecutionProofs ----------------------
(***************************************************************************)
(* ExecutionInv is an inductive invariant of AsyncQueryExecution for any   *)
(* number of queries, workers and deliveries. The steps are first sorted   *)
(* into the five kinds defined below; each conjunct of the invariant then  *)
(* is shown once per kind and not once per action.                         *)
(***************************************************************************)
EXTENDS AsyncQueryExecution, QueryHistoryProofs

(* What a step of the executor e that goes to p does to the row of its     *)
(* query: nothing, or one of the four updates that executors send.         *)
RowMove(e, p) ==
    \/ /\ UNCHANGED rowVars
       /\ p \in OwningPc => pc[e] \in OwningPc
       /\ p # "idle" => pc[e] # "release" \/ status[job[e]] # "ready"
    \/ /\ pc[e] = "expire" /\ p = "idle"
       /\ status[job[e]] \in {"pending", "queued"}
       /\ status' = [status EXCEPT ![job[e]] = "expired"]
       /\ file' = file
    \/ /\ pc[e] = "claim" /\ p = "build"
       /\ status[job[e]] \in {"pending", "queued"}
       /\ status' = [status EXCEPT ![job[e]] = "executing"]
       /\ file' = file
    \/ /\ pc[e] \in OwningPc /\ p \in {"idle", "run"}
       /\ status[job[e]] \notin {"none", "cancelled"}
       /\ status' = [status EXCEPT ![job[e]] = "error"]
       /\ file' = file
    \/ /\ pc[e] \in {"land", "landHit"} /\ p \in {"idle", "release"}
       /\ status[job[e]] \in {"pending", "executing"}
       /\ status' = [status EXCEPT ![job[e]] = "ready"]
       /\ \E f \in uploaded : file' = [file EXCEPT ![job[e]] = f]

(* A step of an executor on the query it works on.                         *)
ExecutorStep(e) ==
    \E p \in ExecutorPc :
        /\ pc[e] # "idle"
        /\ UNCHANGED <<submitVars, deliveries, late>>
        /\ pc' = [pc EXCEPT ![e] = p]
        /\ \/ /\ p = "idle"
              /\ job' = [job EXCEPT ![e] = NoQuery]
              /\ attempt' = attempt
              /\ \/ message' = message
                 \/ e \in Worker /\ message' = [message EXCEPT ![job[e]] = "gone"]
           \/ /\ p # "idle"
              /\ job' = job
              /\ message' = message
              /\ \/ attempt' = attempt
                 \/ p = "run" /\ attempt' = [attempt EXCEPT ![e] = "warehouse"]
        /\ \/ p # "land" /\ uploaded' = uploaded
           \/ /\ p = "land"
              /\ uploaded' = uploaded \union {FileOf(e)}
              /\ attempt' = attempt
        /\ RowMove(e, p)

ExecutorAction(e) ==
    Execution(e) \/ BuildFailsUnreported(e) \/ VerifyFailsUnclaimed(e)

(* A step of the submitter of q that starts no executor.                   *)
SubmitterStep(q) ==
    \E s \in SubmitterPc :
        /\ submitter' = [submitter EXCEPT ![q] = s]
        /\ UNCHANGED <<deliveries, late, uploaded, runVars>>
        /\ target' \in [Query -> Target]
        /\ bound' \subseteq Query
        /\ \/ message' = message
           \/ /\ submitter[q] = "miss" /\ s \in {"published", "failed"}
              /\ message' = [message EXCEPT ![q] = "stored"]
        /\ \/ UNCHANGED rowVars
           \/ /\ status[q] = "none"
              /\ status' = [status EXCEPT ![q] = "pending"]
              /\ file' = file
           \/ /\ status[q] \in {"pending", "queued"}
              /\ \E r \in {"queued", "executing"} :
                    status' = [status EXCEPT ![q] = r]
              /\ file' = file
           \/ /\ s = "done"
              /\ submitter[q] \in {"miss", "failed"}
              /\ status[q] \notin {"none", "cancelled"}
              /\ status' = [status EXCEPT ![q] = "error"]
              /\ file' = file
           \/ /\ s = "done"
              /\ submitter[q] = "landing"
              /\ status[q] \in {"pending", "executing"}
              /\ status' = [status EXCEPT ![q] = "ready"]
              /\ file' = [file EXCEPT ![q] = Cached]
        /\ submitter[q] # "done"
        /\ s \in {"idle", "hit", "landing", "miss"} =>
              submitter[q] \in {"idle", "hit", "landing", "miss"}

-----------------------------------------------------------------------------
(* Small facts.                                                            *)

LEMMA WorkingJob ==
    ASSUME TypeOK, NEW e \in Executor, WorkingHasJob(e), pc[e] # "idle"
    PROVE  job[e] \in Query
  BY DEF TypeOK, WorkingHasJob

LEMMA FirstAttemptType ==
    ASSUME NEW q, NEW t
    PROVE  FirstAttempt(q, t) \in Attempt
  BY DEF FirstAttempt, Attempt

LEMMA FileOfType ==
    ASSUME TypeOK, NEW e \in Executor, job[e] \in Query
    PROVE  FileOf(e) \in File
  BY ExecutionAssumption DEF TypeOK, FileOf

-----------------------------------------------------------------------------
(* The statements, as RowMove needs them.                                  *)

LEMMA StatementEffects ==
    ASSUME RowTypeOK, NEW q \in Query
    PROVE  /\ UpdateToExpired(q) =>
                \/ UNCHANGED rowVars
                \/ /\ status[q] \in {"pending", "queued"}
                   /\ status' = [status EXCEPT ![q] = "expired"]
                   /\ file' = file
           /\ UpdateToExecuting(q) =>
                \/ UNCHANGED rowVars /\ ~MayExecute(status[q])
                \/ /\ MayExecute(status[q])
                   /\ status[q] \in {"pending", "queued"}
                   /\ status' = [status EXCEPT ![q] = "executing"]
                   /\ file' = file
           /\ UpdateToError(q) =>
                \/ UNCHANGED rowVars /\ status[q] \in {"none", "cancelled"}
                \/ /\ status[q] \notin {"none", "cancelled"}
                   /\ status' = [status EXCEPT ![q] = "error"]
                   /\ file' = file
           /\ UpdateClaimedToError(q) =>
                \/ UNCHANGED rowVars /\ status[q] # "executing"
                \/ /\ status[q] = "executing"
                   /\ status' = [status EXCEPT ![q] = "error"]
                   /\ file' = file
           /\ UpdateToQueued(q) =>
                \/ UNCHANGED rowVars
                \/ /\ status[q] = "pending"
                   /\ status' = [status EXCEPT ![q] = "queued"]
                   /\ file' = file
           /\ \A f \in File : UpdateToReady(q, f) =>
                \/ UNCHANGED rowVars
                \/ /\ status[q] \in {"pending", "executing"}
                   /\ status' = [status EXCEPT ![q] = "ready"]
                   /\ file' = [file EXCEPT ![q] = f]
<1> USE DEF RowTypeOK, rowVars, SetStatus
<1>1. UpdateToExpired(q) =>
        \/ UNCHANGED rowVars
        \/ /\ status[q] \in {"pending", "queued"}
           /\ status' = [status EXCEPT ![q] = "expired"]
           /\ file' = file
  BY DEF UpdateToExpired, MayExpire
<1>2. UpdateToExecuting(q) =>
        \/ UNCHANGED rowVars /\ ~MayExecute(status[q])
        \/ /\ MayExecute(status[q])
           /\ status[q] \in {"pending", "queued"}
           /\ status' = [status EXCEPT ![q] = "executing"]
           /\ file' = file
  BY DEF UpdateToExecuting, MayExecute
<1>3. UpdateToError(q) =>
        \/ UNCHANGED rowVars /\ status[q] \in {"none", "cancelled"}
        \/ /\ status[q] \notin {"none", "cancelled"}
           /\ status' = [status EXCEPT ![q] = "error"]
           /\ file' = file
  BY DEF UpdateToError, MayFail
<1>4. UpdateClaimedToError(q) =>
        \/ UNCHANGED rowVars /\ status[q] # "executing"
        \/ /\ status[q] = "executing"
           /\ status' = [status EXCEPT ![q] = "error"]
           /\ file' = file
  BY DEF UpdateClaimedToError, MayFailClaimed
<1>5. UpdateToQueued(q) =>
        \/ UNCHANGED rowVars
        \/ /\ status[q] = "pending"
           /\ status' = [status EXCEPT ![q] = "queued"]
           /\ file' = file
  BY DEF UpdateToQueued, MayQueue
<1>6. \A f \in File : UpdateToReady(q, f) =>
        \/ UNCHANGED rowVars
        \/ /\ status[q] \in {"pending", "executing"}
           /\ status' = [status EXCEPT ![q] = "ready"]
           /\ file' = [file EXCEPT ![q] = f]
  BY DEF UpdateToReady, MayAnswer
<1> QED  BY <1>1, <1>2, <1>3, <1>4, <1>5, <1>6

(* The ways in which an executor goes on or stops, as ExecutorStep has it. *)
LEMMA GoesOn ==
    ASSUME TypeOK, NEW e \in Executor, NEW p \in ExecutorPc, pc[e] # "idle",
           p \notin {"idle", "land"},
           \/ ExecutorTo(e, p) /\ attempt' = attempt
           \/ p = "run" /\ RunWarehouseInstead(e),
           uploaded' = uploaded, RowMove(e, p)
    PROVE  ExecutorStep(e)
  BY DEF ExecutorStep, ExecutorTo, RunWarehouseInstead, submitVars, streamVars

LEMMA Stops ==
    ASSUME TypeOK, NEW e \in Executor, pc[e] # "idle",
           Settle(e) \/ Throw(e),
           uploaded' = uploaded, RowMove(e, "idle")
    PROVE  ExecutorStep(e)
<1>1. "idle" \in ExecutorPc
  BY DEF ExecutorPc
<1>2. /\ UNCHANGED <<submitVars, deliveries, late>>
      /\ pc' = [pc EXCEPT ![e] = "idle"]
      /\ job' = [job EXCEPT ![e] = NoQuery]
      /\ attempt' = attempt
  BY DEF Settle, Throw, StopExecutor
<1>3. \/ message' = message
      \/ e \in Worker /\ message' = [message EXCEPT ![job[e]] = "gone"]
  BY DEF Settle, Throw
<1> QED  BY <1>1, <1>2, <1>3 DEF ExecutorStep

(* Each action of an executor is an ExecutorStep.                          *)
LEMMA ExecutorActionIsStep ==
    ASSUME TypeOK, Cached \in uploaded, NEW e \in Executor,
           WorkingHasJob(e), LandedReleases(e), LandsUploaded(e),
           ExecutorAction(e)
    PROVE  ExecutorStep(e)
<1> DEFINE q == job[e]
<1> USE DEF ExecutorPc, OwningPc
<1>1. pc[e] # "idle"
  BY DEF ExecutorAction, Execution, Read, ExpireInQueue, Claim, Build, BuildFails,
         Verify, VerifyFails, Bind, LandDuckdbHit, Run, Close, CloseFails, Land,
         Release, ReleaseFails, FallBack, FailRun, BuildFailsUnreported,
         VerifyFailsUnclaimed
<1>2. q \in Query /\ RowTypeOK
  BY <1>1, WorkingJob DEF TypeOK
<1>3. q \in Query /\ status[q] \in Status /\ FileOf(e) \in File /\ Cached \in File
  BY <1>2, FileOfType, ExecutionAssumption DEF RowTypeOK
<1>4. CASE Read(e)
  <2>1. RowMove(e, "idle") /\ RowMove(e, "expire") /\ RowMove(e, "claim")
    BY <1>4 DEF Read, RowMove
  <2> QED  BY <1>1, <1>4, <2>1, GoesOn, Stops DEF Read
<1>5. CASE ExpireInQueue(e)
  <2>1. RowMove(e, "idle")
    BY <1>2, <1>5, StatementEffects DEF ExpireInQueue, RowMove
  <2> QED  BY <1>1, <1>5, <2>1, Stops DEF ExpireInQueue
<1>6. CASE Claim(e)
  <2>1. CASE MayExecute(status[q])
    <3>1. RowMove(e, "build")
      BY <1>2, <1>6, <2>1, StatementEffects DEF Claim, RowMove
    <3> QED  BY <1>1, <1>6, <2>1, <3>1, GoesOn DEF Claim
  <2>2. CASE ~MayExecute(status[q])
    <3>1. RowMove(e, "idle")
      BY <1>2, <1>6, <2>2, StatementEffects DEF Claim, RowMove
    <3> QED  BY <1>1, <1>6, <2>2, <3>1, Stops DEF Claim
  <2> QED  BY <2>1, <2>2
<1>7. CASE Build(e)
  <2>1. RowMove(e, "verify") /\ RowMove(e, "bind") /\ RowMove(e, "run")
    BY <1>7 DEF Build, RowMove
  <2> QED  BY <1>1, <1>7, <2>1, GoesOn DEF Build, AfterVerify
<1>8. CASE BuildFails(e)
  <2>1. RowMove(e, "idle")
    BY <1>2, <1>8, StatementEffects DEF BuildFails, RowMove
  <2> QED  BY <1>1, <1>8, <2>1, Stops DEF BuildFails
<1>9. CASE Verify(e)
  <2>1. RowMove(e, "bind") /\ RowMove(e, "run")
    BY <1>9 DEF Verify, RowMove
  <2> QED  BY <1>1, <1>9, <2>1, GoesOn DEF Verify, AfterVerify
<1>10. CASE VerifyFails(e) \/ VerifyFailsUnclaimed(e)
  <2>1. RowMove(e, "idle")
    BY <1>2, <1>10, StatementEffects DEF VerifyFails, VerifyFailsUnclaimed, RowMove
  <2> QED  BY <1>1, <1>10, <2>1, Stops DEF VerifyFails, VerifyFailsUnclaimed
<1>11. CASE Bind(e)
  <2>1. RowMove(e, "idle") /\ RowMove(e, "run") /\ RowMove(e, "landHit")
        /\ RowMove(e, "failed")
    BY <1>11 DEF Bind, RowMove
  <2> QED  BY <1>1, <1>11, <2>1, GoesOn, Stops DEF Bind
<1>12. CASE LandDuckdbHit(e)
  <2>1. RowMove(e, "idle")
    BY <1>2, <1>3, <1>12, StatementEffects DEF LandDuckdbHit, RowMove
  <2> QED  BY <1>1, <1>12, <2>1, Stops DEF LandDuckdbHit
<1>13. CASE Run(e)
  <2>1. RowMove(e, "close") /\ RowMove(e, "failed")
    BY <1>13 DEF Run, RowMove
  <2> QED  BY <1>1, <1>13, <2>1, GoesOn DEF Run
<1>14. CASE Close(e)
  <2>1. RowMove(e, "land")
    BY <1>14 DEF Close, RowMove
  <2> QED  BY <1>1, <1>14, <2>1
           DEF Close, ExecutorStep, ExecutorTo, submitVars, streamVars
<1>15. CASE CloseFails(e)
  <2>1. RowMove(e, "failed")
    BY <1>15 DEF CloseFails, RowMove
  <2> QED  BY <1>1, <1>15, <2>1, GoesOn DEF CloseFails
<1>16. CASE Land(e)
  <2>0. FileOf(e) \in uploaded
    BY <1>16 DEF Land, LandsUploaded
  <2>1. RowMove(e, "idle") /\ RowMove(e, "release")
    BY <1>2, <1>3, <1>16, <2>0, StatementEffects DEF Land, RowMove
  <2> QED  BY <1>1, <1>16, <2>1, GoesOn, Stops DEF Land
<1>17. CASE Release(e)
  <2>1. RowMove(e, "idle")
    BY <1>17 DEF Release, RowMove
  <2> QED  BY <1>1, <1>17, <2>1, Stops DEF Release
<1>18. CASE ReleaseFails(e)
  <2>1. RowMove(e, "idle") /\ RowMove(e, "run")
    BY <1>2, <1>18, StatementEffects DEF ReleaseFails, RowMove
  <2> QED  BY <1>1, <1>18, <2>1, GoesOn, Stops DEF ReleaseFails
<1>19. CASE FallBack(e)
  <2>1. RowMove(e, "run")
    BY <1>19 DEF FallBack, RowMove
  <2> QED  BY <1>1, <1>19, <2>1, GoesOn DEF FallBack
<1>20. CASE FailRun(e)
  <2>1. RowMove(e, "idle")
    BY <1>2, <1>20, StatementEffects DEF FailRun, RowMove
  <2> QED  BY <1>1, <1>20, <2>1, Stops DEF FailRun
<1>21. CASE BuildFailsUnreported(e)
  <2>1. RowMove(e, "idle")
    BY <1>21 DEF BuildFailsUnreported, RowMove
  <2> QED  BY <1>1, <1>21, <2>1, Stops DEF BuildFailsUnreported
<1> QED
  BY <1>4, <1>5, <1>6, <1>7, <1>8, <1>9, <1>10, <1>11, <1>12, <1>13, <1>14,
     <1>15, <1>16, <1>17, <1>18, <1>19, <1>20, <1>21
     DEF ExecutorAction, Execution

-----------------------------------------------------------------------------
(* An executor of the API server is the only one of its query.             *)
LEMMA MainLoopIsAlone ==
    ASSUME ExecutionInv, NEW q \in Query, job[q] = q,
           NEW d \in Executor, job[d] = q
    PROVE  d = q
  BY ExecutionAssumption DEF ExecutionInv, InProcessAlone, OfMessage, Executor

(* Whoever finds a row it may claim or expire is alone with its query.     *)
LEMMA ClaimableIsUnowned ==
    ASSUME ExecutionInv, NEW e \in Executor, pc[e] \in {"expire", "claim"},
           status[job[e]] \in {"pending", "queued"},
           NEW d \in Executor
    PROVE  ~Owns(d, job[e])
<1> SUFFICES ASSUME Owns(d, job[e])  PROVE FALSE
  OBVIOUS
<1>1. job[e] \in Query
  BY WorkingJob DEF ExecutionInv
<1>2. CASE d \in Worker
  BY <1>2 DEF ExecutionInv, Claimed, Owns, Terminal
<1>3. CASE d \in Query
  <2>1. job[d] = d /\ job[e] = d
    BY <1>1, <1>3, ExecutionAssumption DEF ExecutionInv, InProcessAlone, Owns
  <2>2. e = d
    BY <1>3, <2>1, MainLoopIsAlone
  <2> QED  BY <2>2 DEF Owns, OwningPc
<1> QED  BY <1>2, <1>3 DEF Executor

(* An executor only has a query that its submitter handed over.            *)
LEMMA WorkingIsHandedOver ==
    ASSUME ExecutionInv, NEW e \in Executor, pc[e] # "idle"
    PROVE  submitter[job[e]] \notin {"idle", "hit", "landing", "miss"}
<1>1. job[e] \in Query
  BY WorkingJob DEF ExecutionInv
<1>2. CASE e \in Worker
  BY <1>1, <1>2, ExecutionAssumption DEF ExecutionInv, BeforeHandover, OfMessage
<1>3. CASE e \in Query
  BY <1>1, <1>3, ExecutionAssumption
     DEF ExecutionInv, BeforeHandover, InProcessAlone
<1> QED  BY <1>2, <1>3 DEF Executor

LEMMA RowMoveIsRowStep ==
    ASSUME TypeOK, NEW e \in Executor, NEW p \in ExecutorPc, job[e] \in Query,
           RowMove(e, p)
    PROVE  RowStep(job[e])
<1>1. status[job[e]] \in Status
  BY DEF TypeOK, RowTypeOK
<1> QED  BY <1>1 DEF RowMove, RowStep, Status, Live, Terminal, TypeOK

(* An ExecutorStep keeps the invariant.                                    *)
LEMMA ExecutorStepInv ==
    ASSUME ExecutionInv, NEW e \in Executor, ExecutorStep(e)
    PROVE  ExecutionInv'
<1> DEFINE q == job[e]
<1>1. PICK p \in ExecutorPc :
        /\ pc[e] # "idle"
        /\ UNCHANGED <<submitVars, deliveries, late>>
        /\ pc' = [pc EXCEPT ![e] = p]
        /\ \/ /\ p = "idle"
              /\ job' = [job EXCEPT ![e] = NoQuery]
              /\ attempt' = attempt
              /\ \/ message' = message
                 \/ e \in Worker /\ message' = [message EXCEPT ![job[e]] = "gone"]
           \/ /\ p # "idle"
              /\ job' = job
              /\ message' = message
              /\ \/ attempt' = attempt
                 \/ p = "run" /\ attempt' = [attempt EXCEPT ![e] = "warehouse"]
        /\ \/ p # "land" /\ uploaded' = uploaded
           \/ /\ p = "land"
              /\ uploaded' = uploaded \union {FileOf(e)}
              /\ attempt' = attempt
        /\ RowMove(e, p)
  BY DEF ExecutorStep
<1>2. TypeOK /\ RowTypeOK /\ RowInv /\ q \in Query
  BY <1>1, WorkingJob DEF ExecutionInv, TypeOK, RowInv
<1>3. RowInv'
  BY <1>1, <1>2, RowMoveIsRowStep, RowStepInv
<1>4. TypeOK'
  <2>1. uploaded' \subseteq File
    BY <1>1, <1>2, FileOfType DEF TypeOK
  <2>2. /\ pc' \in [Executor -> ExecutorPc]
        /\ job' \in [Executor -> Query \union {NoQuery}]
        /\ attempt' \in [Executor -> Attempt]
        /\ message' \in [Query -> {"none", "stored", "gone"}]
    BY <1>1, <1>2 DEF TypeOK, Attempt
  <2> QED  BY <1>1, <1>2, <1>3, <2>1, <2>2 DEF TypeOK, RowInv, submitVars
<1>5. \A d \in Executor : d # e =>
        pc'[d] = pc[d] /\ job'[d] = job[d] /\ attempt'[d] = attempt[d]
  BY <1>1, <1>2 DEF TypeOK
<1>6. pc'[e] = p /\ (p # "idle" => job'[e] = q) /\ (p = "idle" => job'[e] = NoQuery)
  BY <1>1, <1>2 DEF TypeOK
<1>7. \A r \in Query : r # q =>
        status'[r] = status[r] /\ file'[r] = file[r] /\ message'[r] = message[r]
  BY <1>1, <1>2 DEF TypeOK, RowTypeOK, RowMove, rowVars
<1>8. uploaded \subseteq uploaded' /\ Cached \in uploaded'
  BY <1>1 DEF ExecutionInv
<1>9. AnswerIsUploaded'
  <2>1. file'[q] = file[q] \/ file'[q] \in uploaded
    BY <1>1, <1>2 DEF RowMove, rowVars, RowTypeOK
  <2> QED  BY <1>2, <1>7, <1>8, <2>1 DEF ExecutionInv, AnswerIsUploaded
<1>10. p \in OwningPc => pc[e] \in OwningPc \/ \A d \in Executor : ~Owns(d, q)
  <2> SUFFICES ASSUME p \in OwningPc, pc[e] \notin OwningPc
               PROVE  \A d \in Executor : ~Owns(d, q)
    OBVIOUS
  <2>1. pc[e] = "claim" /\ status[q] \in {"pending", "queued"}
    BY <1>1 DEF RowMove, OwningPc
  <2> QED  BY <2>1, ClaimableIsUnowned
<1>11. OneOwner'
  <2>1. \A d \in Executor, r \in Query :
          d # e => ((pc'[d] \in OwningPc /\ job'[d] = r) <=> Owns(d, r))
    BY <1>5 DEF Owns
  <2>2. \A r \in Query : pc'[e] \in OwningPc /\ job'[e] = r => r = q /\ p \in OwningPc
    BY <1>6 DEF OwningPc
  <2>3. p \in OwningPc => \A d \in Executor : d # e => ~Owns(d, q)
    <3>1. CASE pc[e] \in OwningPc
      BY <1>2, <3>1 DEF ExecutionInv, OneOwner, Owns
    <3> QED  BY <1>10, <3>1
  <2>4. ASSUME NEW r \in Query, NEW d1 \in Executor, NEW d2 \in Executor,
               pc'[d1] \in OwningPc, job'[d1] = r, pc'[d2] \in OwningPc, job'[d2] = r
        PROVE  d1 = d2
    <3>1. CASE d1 # e /\ d2 # e
      BY <2>1, <2>4, <3>1 DEF ExecutionInv, OneOwner
    <3>2. CASE d1 = e /\ d2 # e
      BY <2>1, <2>2, <2>3, <2>4, <3>2
    <3>3. CASE d1 # e /\ d2 = e
      BY <2>1, <2>2, <2>3, <2>4, <3>3
    <3> QED  BY <3>1, <3>2, <3>3
  <2> QED  BY <2>4 DEF OneOwner, Owns
<1>12. \A r \in Query : BeforeHandover(r)'
  <2>1. submitter' = submitter
    BY <1>1 DEF submitVars
  <2>2. submitter[q] \notin {"idle", "hit", "landing", "miss"}
    BY <1>1, WorkingIsHandedOver
  <2>3. \A r \in Query : job[r] = NoQuery => job'[r] = NoQuery
    BY <1>1, <1>2 DEF TypeOK, Executor
  <2> QED  BY <1>7, <2>1, <2>2, <2>3 DEF ExecutionInv, BeforeHandover
<1>13. \A r \in Query : InProcessAlone(r)'
  <2>1. \A r \in Query : job'[r] = job[r] \/ job'[r] = NoQuery
    BY <1>5, <1>6 DEF Executor
  <2>2. job[q] = q => message'[q] = message[q]
    BY <1>1, <1>2, MainLoopIsAlone, ExecutionAssumption DEF ExecutionInv
  <2> QED
    BY <1>2, <1>7, <2>1, <2>2, ExecutionAssumption DEF ExecutionInv, InProcessAlone
<1>14. \A w \in Worker : OfMessage(w)'
  <2>1. message[q] # "none" => message'[q] # "none"
    BY <1>1, <1>2 DEF TypeOK
  <2>2. \A w \in Worker : job'[w] = job[w] \/ job'[w] = NoQuery
    BY <1>5, <1>6 DEF Executor
  <2>3. \A w \in Worker : job[w] # NoQuery => job[w] \in Query
    BY <1>2 DEF TypeOK, Executor
  <2> QED  BY <1>7, <2>1, <2>2, <2>3 DEF ExecutionInv, OfMessage
<1>15. \A d \in Executor : WorkingHasJob(d)'
  BY <1>2, <1>5, <1>6, ExecutionAssumption DEF ExecutionInv, WorkingHasJob
<1>16. \A d \in Executor : pc[d] \in OwningPc => job[d] \in Query
  BY <1>2, WorkingJob DEF ExecutionInv, OwningPc
<1>17. \A w \in Worker : Claimed(w)'
  <2> SUFFICES ASSUME NEW w \in Worker, pc'[w] \in OwningPc
               PROVE  status'[job'[w]] \in {"executing"} \union (Terminal \ {"expired"})
    BY DEF Claimed
  <2>0. w \in Executor /\ Claimed(w)
    BY DEF Executor, ExecutionInv
  <2>1. CASE w = e
    <3>1. p \in OwningPc /\ job'[w] = q
      BY <1>6, <2>1 DEF OwningPc
    <3> QED
      BY <1>1, <1>2, <2>0, <2>1, <3>1
         DEF Claimed, RowMove, rowVars, Terminal, OwningPc, TypeOK, RowTypeOK
  <2>2. CASE w # e
    <3>1. pc[w] \in OwningPc /\ job'[w] = job[w] /\ job[w] \in Query
      BY <1>5, <1>16, <2>0, <2>2
    <3>2. CASE job[w] = q
      BY <1>1, <1>2, <2>0, <3>1, <3>2
         DEF Claimed, RowMove, rowVars, Terminal, TypeOK, RowTypeOK
    <3>3. CASE job[w] # q
      BY <1>7, <2>0, <3>1, <3>3 DEF Claimed
    <3> QED  BY <3>2, <3>3
  <2> QED  BY <2>1, <2>2
<1>18. \A d \in Executor : NotExpired(d)'
  <2> SUFFICES ASSUME NEW d \in Executor, pc'[d] \in OwningPc
               PROVE  status'[job'[d]] # "expired"
    BY DEF NotExpired
  <2>1. NotExpired(d)
    BY DEF ExecutionInv
  <2>2. CASE d = e
    <3>1. p \in OwningPc /\ job'[d] = q
      BY <1>6, <2>2 DEF OwningPc
    <3> QED
      BY <1>1, <1>2, <2>1, <2>2, <3>1
         DEF NotExpired, RowMove, rowVars, OwningPc, TypeOK, RowTypeOK
  <2>3. CASE d # e
    <3>1. pc[d] \in OwningPc /\ job'[d] = job[d] /\ job[d] \in Query
      BY <1>5, <1>16, <2>3
    <3>2. CASE job[d] = q
      <4>1. ~(pc[e] = "expire" /\ status[q] \in {"pending", "queued"})
        BY <3>1, <3>2, ClaimableIsUnowned DEF Owns
      <4> QED
        BY <1>1, <1>2, <2>1, <3>1, <3>2, <4>1
           DEF NotExpired, RowMove, rowVars, TypeOK, RowTypeOK
    <3>3. CASE job[d] # q
      BY <1>7, <2>1, <3>1, <3>3 DEF NotExpired
    <3> QED  BY <3>2, <3>3
  <2> QED  BY <2>2, <2>3
<1>19. \A d \in Executor : LandedReleases(d)'
  <2> SUFFICES ASSUME NEW d \in Executor, pc'[d] \in OwningPc,
                      status'[job'[d]] = "ready"
               PROVE  pc'[d] = "release"
    BY DEF LandedReleases
  <2>1. LandedReleases(d) /\ LandedReleases(e)
    BY DEF ExecutionInv
  <2>2. CASE d = e
    <3>1. p \in OwningPc /\ job'[d] = q /\ pc'[d] = p
      BY <1>6, <2>2 DEF OwningPc
    <3> QED
      BY <1>1, <1>2, <2>1, <2>2, <3>1
         DEF LandedReleases, RowMove, rowVars, OwningPc, TypeOK, RowTypeOK
  <2>3. CASE d # e
    <3>1. pc[d] \in OwningPc /\ job'[d] = job[d] /\ job[d] \in Query /\ pc'[d] = pc[d]
      BY <1>5, <1>16, <2>3
    <3>2. CASE job[d] = q
      <4>1. pc[e] \notin OwningPc
        BY <1>2, <2>3, <3>1, <3>2 DEF ExecutionInv, OneOwner, Owns
      <4> QED
        BY <1>1, <1>2, <2>1, <3>1, <3>2, <4>1
           DEF LandedReleases, RowMove, rowVars, OwningPc, TypeOK, RowTypeOK
    <3>3. CASE job[d] # q
      BY <1>7, <2>1, <3>1, <3>3 DEF LandedReleases
    <3> QED  BY <3>2, <3>3
  <2> QED  BY <2>2, <2>3
<1>20. \A d \in Executor : LandsUploaded(d)'
  <2> SUFFICES ASSUME NEW d \in Executor, pc'[d] = "land"
               PROVE  FileOf(d)' \in uploaded'
    BY DEF LandsUploaded
  <2>1. CASE d = e
    BY <1>1, <1>6, <2>1 DEF FileOf
  <2>2. CASE d # e
    BY <1>5, <1>8, <2>2 DEF ExecutionInv, LandsUploaded, FileOf
  <2> QED  BY <2>1, <2>2
<1> QED
  BY <1>3, <1>4, <1>8, <1>9, <1>11, <1>12, <1>13, <1>14, <1>15, <1>17, <1>18,
     <1>19, <1>20
     DEF ExecutionInv, RowInv

-----------------------------------------------------------------------------
(* The submitter.                                                          *)

SubmitterAction(q) ==
    \/ Create(q)
    \/ ClaimHit(q)
    \/ LandHit(q)
    \/ RejectPlan(q)
    \/ Publish(q)
    \/ PublishFails(q)
    \/ MarkQueued(q)
    \/ MarkEnqueueFailed(q)

LEMMA SubmitterActionIsStep ==
    ASSUME TypeOK, NEW q \in Query, SubmitterAction(q)
    PROVE  SubmitterStep(q)
<1> USE DEF SubmitterPc
<1>1. RowTypeOK /\ status[q] \in Status /\ Cached \in File
  BY ExecutionAssumption DEF TypeOK, RowTypeOK
<1>2. target \in [Query -> Target] /\ bound \subseteq Query
  BY DEF TypeOK
<1>3. CASE Create(q)
  <2>1. PICK t \in Targets, b \in SUBSET {q}, hit \in BOOLEAN :
          /\ bound' = bound \union b
          /\ target' = [target EXCEPT ![q] = t]
          /\ submitter' = [submitter EXCEPT ![q] = IF hit THEN "hit" ELSE "miss"]
    BY <1>3 DEF Create
  <2>2. target' \in [Query -> Target] /\ bound' \subseteq Query
    BY <1>2, <2>1, ExecutionAssumption
  <2>3. /\ status[q] = "none"
        /\ status' = [status EXCEPT ![q] = "pending"]
        /\ file' = file
    BY <1>3 DEF Create, Insert
  <2>4. submitter[q] = "idle" /\ UNCHANGED <<message, deliveries, late, uploaded, runVars>>
    BY <1>3 DEF Create, streamVars
  <2>5. CASE hit
    <3>1. submitter' = [submitter EXCEPT ![q] = "hit"]
      BY <2>1, <2>5
    <3> QED  BY <2>2, <2>3, <2>4, <3>1 DEF SubmitterStep
  <2>6. CASE ~hit
    <3>1. submitter' = [submitter EXCEPT ![q] = "miss"]
      BY <2>1, <2>6
    <3> QED  BY <2>2, <2>3, <2>4, <3>1 DEF SubmitterStep
  <2> QED  BY <2>5, <2>6
<1>4. CASE ClaimHit(q)
  <2>1. \/ UNCHANGED rowVars
        \/ /\ status[q] \in {"pending", "queued"}
           /\ status' = [status EXCEPT ![q] = "executing"]
           /\ file' = file
    BY <1>1, <1>4, StatementEffects DEF ClaimHit
  <2> QED  BY <1>2, <1>4, <2>1 DEF ClaimHit, SubmitterStep, SubmitterTo, streamVars
<1>5. CASE LandHit(q)
  <2>1. \/ UNCHANGED rowVars
        \/ /\ status[q] \in {"pending", "executing"}
           /\ status' = [status EXCEPT ![q] = "ready"]
           /\ file' = [file EXCEPT ![q] = Cached]
    BY <1>1, <1>5, StatementEffects DEF LandHit
  <2> QED  BY <1>2, <1>5, <2>1 DEF LandHit, SubmitterStep, SubmitterTo, streamVars
<1>6. CASE RejectPlan(q) \/ MarkEnqueueFailed(q)
  <2>1. \/ UNCHANGED rowVars
        \/ /\ status[q] \notin {"none", "cancelled"}
           /\ status' = [status EXCEPT ![q] = "error"]
           /\ file' = file
    BY <1>1, <1>6, StatementEffects DEF RejectPlan, MarkEnqueueFailed
  <2> QED  BY <1>2, <1>6, <2>1
           DEF RejectPlan, MarkEnqueueFailed, SubmitterStep, SubmitterTo, streamVars
<1>7. CASE Publish(q)
  BY <1>2, <1>7 DEF Publish, SubmitterStep, SubmitterTo
<1>8. CASE PublishFails(q)
  BY <1>2, <1>8 DEF PublishFails, SubmitterStep, SubmitterTo, streamVars
<1>9. CASE MarkQueued(q)
  <2>1. \/ UNCHANGED rowVars
        \/ /\ status[q] = "pending"
           /\ status' = [status EXCEPT ![q] = "queued"]
           /\ file' = file
    BY <1>1, <1>9, StatementEffects DEF MarkQueued
  <2> QED  BY <1>2, <1>9, <2>1 DEF MarkQueued, SubmitterStep, SubmitterTo, streamVars
<1> QED
  BY <1>3, <1>4, <1>5, <1>6, <1>7, <1>8, <1>9 DEF SubmitterAction

(* A SubmitterStep keeps the invariant.                                    *)
LEMMA SubmitterStepInv ==
    ASSUME ExecutionInv, NEW q \in Query, SubmitterStep(q)
    PROVE  ExecutionInv'
<1>1. PICK s \in SubmitterPc :
        /\ submitter' = [submitter EXCEPT ![q] = s]
        /\ UNCHANGED <<deliveries, late, uploaded, runVars>>
        /\ target' \in [Query -> Target]
        /\ bound' \subseteq Query
        /\ \/ message' = message
           \/ /\ submitter[q] = "miss" /\ s \in {"published", "failed"}
              /\ message' = [message EXCEPT ![q] = "stored"]
        /\ \/ UNCHANGED rowVars
           \/ /\ status[q] = "none"
              /\ status' = [status EXCEPT ![q] = "pending"]
              /\ file' = file
           \/ /\ status[q] \in {"pending", "queued"}
              /\ \E r \in {"queued", "executing"} :
                    status' = [status EXCEPT ![q] = r]
              /\ file' = file
           \/ /\ s = "done"
              /\ submitter[q] \in {"miss", "failed"}
              /\ status[q] \notin {"none", "cancelled"}
              /\ status' = [status EXCEPT ![q] = "error"]
              /\ file' = file
           \/ /\ s = "done"
              /\ submitter[q] = "landing"
              /\ status[q] \in {"pending", "executing"}
              /\ status' = [status EXCEPT ![q] = "ready"]
              /\ file' = [file EXCEPT ![q] = Cached]
        /\ submitter[q] # "done"
        /\ s \in {"idle", "hit", "landing", "miss"} =>
              submitter[q] \in {"idle", "hit", "landing", "miss"}
  BY DEF SubmitterStep
<1>2. TypeOK /\ RowTypeOK /\ FileOnlyWithAnswer /\ RowInv
  BY DEF ExecutionInv, TypeOK, RowInv
<1>3. RowInv' /\ \A r \in Query : r # q => status'[r] = status[r] /\ file'[r] = file[r]
  BY <1>1, <1>2, NoFileAssumption, ExecutionAssumption
     DEF RowInv, RowTypeOK, FileOnlyWithAnswer, rowVars, Status, Live, Terminal
<1>4. pc' = pc /\ job' = job /\ attempt' = attempt /\ uploaded' = uploaded
  BY <1>1 DEF runVars
<1>5. \A r \in Query : r # q => submitter'[r] = submitter[r] /\ message'[r] = message[r]
  BY <1>1, <1>2 DEF TypeOK
<1>6. TypeOK'
  BY <1>1, <1>2, <1>3, <1>4 DEF TypeOK, RowInv
<1>7. AnswerIsUploaded'
  BY <1>1, <1>2, <1>3, <1>4 DEF ExecutionInv, AnswerIsUploaded, rowVars, RowTypeOK
<1>8. OneOwner'
  BY <1>4 DEF ExecutionInv, OneOwner, Owns
<1>9. \A d \in Executor : pc[d] \in OwningPc => job[d] \in Query
  BY <1>2, WorkingJob DEF ExecutionInv, OwningPc
<1>10. BeforeHandover(q)'
  <2> SUFFICES ASSUME s \in {"idle", "hit", "landing", "miss"}
               PROVE  /\ message'[q] = "none"
                      /\ job'[q] = NoQuery
                      /\ status'[q] \notin {"ready", "expired"}
    BY <1>1, <1>2 DEF BeforeHandover, TypeOK
  <2>1. submitter[q] \in {"idle", "hit", "landing", "miss"}
    BY <1>1
  <2> QED
    BY <1>1, <1>2, <1>4, <2>1
       DEF ExecutionInv, BeforeHandover, rowVars, TypeOK, RowTypeOK
<1>11. \A r \in Query : BeforeHandover(r)'
  BY <1>3, <1>4, <1>5, <1>10 DEF ExecutionInv, BeforeHandover
<1>12. \A r \in Query : InProcessAlone(r)'
  BY <1>1, <1>4, <1>5, ExecutionAssumption
     DEF ExecutionInv, InProcessAlone, BeforeHandover
<1>13. \A w \in Worker : OfMessage(w)'
  <2>1. message[q] # "none" => message'[q] # "none"
    BY <1>1, <1>2 DEF TypeOK
  <2>2. \A w \in Worker : job[w] # NoQuery => job[w] \in Query
    BY <1>2 DEF TypeOK, Executor
  <2> QED  BY <1>4, <1>5, <2>1, <2>2 DEF ExecutionInv, OfMessage
<1>14. \A d \in Executor : WorkingHasJob(d)' /\ LandsUploaded(d)'
  BY <1>4 DEF ExecutionInv, WorkingHasJob, LandsUploaded, FileOf
<1>15. ASSUME status'[q] = "ready", status[q] # "ready", NEW d \in Executor
       PROVE  ~Owns(d, q)
  <2>1. submitter[q] = "landing"
    BY <1>1, <1>2, <1>15 DEF rowVars, RowTypeOK
  <2> QED  BY <2>1, WorkingIsHandedOver DEF Owns, OwningPc
<1>16. ASSUME NEW w \in Worker  PROVE Claimed(w)'
  <2> SUFFICES ASSUME pc[w] \in OwningPc, job[w] = q
               PROVE  status'[q] \in {"executing"} \union (Terminal \ {"expired"})
    BY <1>3, <1>4, <1>9 DEF ExecutionInv, Claimed, Executor
  <2> QED
    BY <1>1, <1>2 DEF ExecutionInv, Claimed, Terminal, rowVars, RowTypeOK
<1>17. ASSUME NEW d \in Executor  PROVE NotExpired(d)'
  <2> SUFFICES ASSUME pc[d] \in OwningPc, job[d] = q
               PROVE  status'[q] # "expired"
    BY <1>3, <1>4, <1>9 DEF ExecutionInv, NotExpired
  <2> QED  BY <1>1, <1>2 DEF ExecutionInv, NotExpired, rowVars, RowTypeOK
<1>18. ASSUME NEW d \in Executor  PROVE LandedReleases(d)'
  <2> SUFFICES ASSUME pc[d] \in OwningPc, job[d] = q, status'[q] = "ready"
               PROVE  pc[d] = "release"
    BY <1>3, <1>4, <1>9 DEF ExecutionInv, LandedReleases
  <2>1. status[q] = "ready"
    BY <1>15 DEF Owns
  <2> QED  BY <2>1 DEF ExecutionInv, LandedReleases
<1> QED
  BY <1>3, <1>4, <1>6, <1>7, <1>8, <1>11, <1>12, <1>13, <1>14, <1>16, <1>17, <1>18
     DEF ExecutionInv, RowInv

-----------------------------------------------------------------------------
(* An executor takes a query.                                              *)

LEMMA DeliverInv ==
    ASSUME ExecutionInv, NEW w \in Worker, NEW q \in Query, Deliver(w, q)
    PROVE  ExecutionInv'
<1>1. /\ pc[w] = "idle" /\ message[q] = "stored"
      /\ deliveries[q] < MaxDeliver
      /\ deliveries' = [deliveries EXCEPT ![q] = @ + 1]
      /\ pc' = [pc EXCEPT ![w] = "read"]
      /\ job' = [job EXCEPT ![w] = q]
      /\ attempt' = [attempt EXCEPT ![w] = FirstAttempt(q, target[q])]
      /\ UNCHANGED <<rowVars, submitVars, message, late, uploaded>>
  BY DEF Deliver, StartRun
<1>2. /\ status' = status /\ file' = file /\ submitter' = submitter
      /\ target' = target /\ bound' = bound
  BY <1>1 DEF rowVars, submitVars
<1>3. TypeOK /\ w \in Executor /\ w \notin Query
  BY ExecutionAssumption DEF ExecutionInv, Executor
<1>4. TypeOK'
  <2>1. deliveries' \in [Query -> 0 .. MaxDeliver]
    BY <1>1, <1>3, ExecutionAssumption DEF TypeOK
  <2>2. attempt' \in [Executor -> Attempt]
    BY <1>1, <1>3, FirstAttemptType DEF TypeOK
  <2>3. /\ pc' \in [Executor -> ExecutorPc]
        /\ job' \in [Executor -> Query \union {NoQuery}]
    BY <1>1, <1>3 DEF TypeOK, ExecutorPc
  <2> QED  BY <1>1, <1>2, <1>3, <2>1, <2>2, <2>3 DEF TypeOK, RowTypeOK
<1>5. \A d \in Executor : d # w =>
        pc'[d] = pc[d] /\ job'[d] = job[d] /\ attempt'[d] = attempt[d]
  BY <1>1, <1>3 DEF TypeOK
<1>6. pc'[w] = "read" /\ job'[w] = q
  BY <1>1, <1>3 DEF TypeOK
<1>7. FileOnlyWithAnswer' /\ AnswerIsUploaded' /\ Cached \in uploaded'
  BY <1>1, <1>2 DEF ExecutionInv, FileOnlyWithAnswer, AnswerIsUploaded
<1>8. OneOwner'
  BY <1>5, <1>6 DEF ExecutionInv, OneOwner, Owns, OwningPc
<1>9. \A r \in Query : BeforeHandover(r)' /\ InProcessAlone(r)'
  BY <1>1, <1>2, <1>3, <1>5
     DEF ExecutionInv, BeforeHandover, InProcessAlone, Executor
<1>10. \A x \in Worker : OfMessage(x)' /\ Claimed(x)'
  BY <1>1, <1>2, <1>5, <1>6 DEF ExecutionInv, OfMessage, Claimed, Executor, OwningPc
<1>11. \A d \in Executor : WorkingHasJob(d)'
  BY <1>5, <1>6, ExecutionAssumption DEF ExecutionInv, WorkingHasJob
<1>12. \A d \in Executor :
         NotExpired(d)' /\ LandedReleases(d)' /\ LandsUploaded(d)'
  BY <1>1, <1>2, <1>5, <1>6
     DEF ExecutionInv, NotExpired, LandedReleases, LandsUploaded, OwningPc, FileOf
<1> QED
  BY <1>4, <1>7, <1>8, <1>9, <1>10, <1>11, <1>12 DEF ExecutionInv

(* The main loop starts with a row that only the submitter knew, and only  *)
(* a DuckDB query claims it.                                               *)
LEMMA RunInMainLoopInv ==
    ASSUME ExecutionInv, NEW q \in Query, RunInMainLoop(q)
    PROVE  ExecutionInv'
<1>1. PICK p \in {"read", "verify", "run"} :
        /\ submitter[q] = "miss"
        /\ pc' = [pc EXCEPT ![q] = p]
        /\ job' = [job EXCEPT ![q] = q]
        /\ attempt' = [attempt EXCEPT ![q] = FirstAttempt(q, target[q])]
        /\ submitter' = [submitter EXCEPT ![q] = "done"]
        /\ UNCHANGED <<rowVars, target, bound, streamVars, late, uploaded>>
  <2> DEFINE p0 == IF target[q] = "duckdb" THEN "read"
                   ELSE IF q \in bound THEN "verify" ELSE "run"
  <2>1. p0 \in {"read", "verify", "run"}
    OBVIOUS
  <2> QED  BY <2>1 DEF RunInMainLoop, StartRun, SubmitterTo
<1>2. /\ status' = status /\ file' = file
      /\ message' = message /\ deliveries' = deliveries
  BY <1>1 DEF rowVars, streamVars
<1>3. TypeOK /\ q \in Executor /\ q \notin Worker
  BY ExecutionAssumption DEF ExecutionInv, Executor
<1>4. TypeOK'
  <2>1. attempt' \in [Executor -> Attempt]
    BY <1>1, <1>3, FirstAttemptType DEF TypeOK
  <2>2. /\ pc' \in [Executor -> ExecutorPc]
        /\ job' \in [Executor -> Query \union {NoQuery}]
        /\ submitter' \in [Query -> SubmitterPc]
    BY <1>1, <1>3 DEF TypeOK, ExecutorPc, OwningPc, SubmitterPc
  <2> QED  BY <1>1, <1>2, <1>3, <2>1, <2>2 DEF TypeOK, RowTypeOK
<1>5. \A d \in Executor : d # q =>
        pc'[d] = pc[d] /\ job'[d] = job[d] /\ attempt'[d] = attempt[d]
  BY <1>1, <1>3 DEF TypeOK
<1>6. pc'[q] = p /\ job'[q] = q
  BY <1>1, <1>3 DEF TypeOK
<1>7. /\ message[q] = "none" /\ job[q] = NoQuery
      /\ status[q] \notin {"ready", "expired"}
  BY <1>1 DEF ExecutionInv, BeforeHandover
<1>8. \A d \in Executor : job[d] # q
  <2>1. \A d \in Worker : job[d] # q
    BY <1>7, ExecutionAssumption DEF ExecutionInv, OfMessage
  <2>2. \A d \in Query : job[d] # q
    BY <1>7, ExecutionAssumption DEF ExecutionInv, InProcessAlone
  <2> QED  BY <2>1, <2>2 DEF Executor
<1>9. FileOnlyWithAnswer' /\ AnswerIsUploaded' /\ Cached \in uploaded'
  BY <1>1, <1>2 DEF ExecutionInv, FileOnlyWithAnswer, AnswerIsUploaded
<1>10. OneOwner'
  <2>1. ASSUME NEW r \in Query, NEW d1 \in Executor, NEW d2 \in Executor,
               pc'[d1] \in OwningPc, job'[d1] = r, pc'[d2] \in OwningPc, job'[d2] = r
        PROVE  d1 = d2
    <3>1. CASE d1 # q /\ d2 # q
      BY <1>5, <2>1, <3>1 DEF ExecutionInv, OneOwner, Owns
    <3>2. CASE d1 = q \/ d2 = q
      BY <1>5, <1>6, <1>8, <2>1, <3>2
    <3> QED  BY <3>1, <3>2
  <2> QED  BY <2>1 DEF OneOwner, Owns
<1>11. \A r \in Query : BeforeHandover(r)' /\ InProcessAlone(r)'
  BY <1>1, <1>2, <1>3, <1>5, <1>6, <1>7
     DEF ExecutionInv, BeforeHandover, InProcessAlone, Executor, TypeOK
<1>12. \A w \in Worker : OfMessage(w)' /\ Claimed(w)'
  BY <1>2, <1>3, <1>5 DEF ExecutionInv, OfMessage, Claimed, Executor
<1>13. \A d \in Executor : WorkingHasJob(d)'
  BY <1>5, <1>6, ExecutionAssumption DEF ExecutionInv, WorkingHasJob
<1>14. \A d \in Executor :
         NotExpired(d)' /\ LandedReleases(d)' /\ LandsUploaded(d)'
  BY <1>1, <1>2, <1>5, <1>6, <1>7
     DEF ExecutionInv, NotExpired, LandedReleases, LandsUploaded, FileOf
<1> QED
  BY <1>4, <1>9, <1>10, <1>11, <1>12, <1>13, <1>14 DEF ExecutionInv

-----------------------------------------------------------------------------
(* The creator, the clock and the losses.                                  *)

LEMMA CancelEffect ==
    ASSUME RowTypeOK, NEW q \in Query, UpdateToCancelled(q)
    PROVE  \/ UNCHANGED rowVars
           \/ /\ status[q] \in Live
              /\ status' = [status EXCEPT ![q] = "cancelled"]
              /\ file' = file
  BY DEF UpdateToCancelled, SetStatus, MayCancel, RowTypeOK, rowVars

LEMMA CancelInv ==
    ASSUME ExecutionInv, NEW q \in Query, CancelQuery(q)
    PROVE  ExecutionInv'
<1>1. TypeOK /\ RowTypeOK /\ RowInv
  BY DEF ExecutionInv, TypeOK, RowInv
<1>2. RowStep(q)
  BY <1>1, StatementIsRowStep DEF CancelQuery
<1>3. RowInv'
  BY <1>1, <1>2, RowStepInv
<1>4. /\ UNCHANGED <<submitVars, streamVars, late, uploaded, runVars>>
      /\ file' = file
      /\ \A r \in Query : status'[r] \in {status[r], "cancelled"}
  BY <1>1, CancelEffect DEF CancelQuery, rowVars, RowTypeOK
<1>5. TypeOK'
  BY <1>1, <1>3, <1>4 DEF TypeOK, RowInv, submitVars, streamVars, runVars
<1>6. \A d \in Executor : pc[d] \in OwningPc => job[d] \in Query
  BY WorkingJob DEF ExecutionInv, OwningPc
<1>7. /\ AnswerIsUploaded' /\ Cached \in uploaded'
      /\ OneOwner'
      /\ \A d \in Executor : WorkingHasJob(d)' /\ LandsUploaded(d)'
      /\ \A w \in Worker : OfMessage(w)'
      /\ \A r \in Query : InProcessAlone(r)'
  BY <1>4 DEF ExecutionInv, AnswerIsUploaded, OneOwner, Owns, WorkingHasJob,
              LandsUploaded, FileOf, OfMessage, InProcessAlone, streamVars, runVars
<1>8. \A r \in Query : BeforeHandover(r)'
  BY <1>4 DEF ExecutionInv, BeforeHandover, submitVars, streamVars, runVars
<1>9. \A w \in Worker : Claimed(w)'
  BY <1>4, <1>6 DEF ExecutionInv, Claimed, Executor, Terminal, runVars
<1>10. \A d \in Executor : NotExpired(d)' /\ LandedReleases(d)'
  BY <1>4, <1>6 DEF ExecutionInv, NotExpired, LandedReleases, runVars
<1> QED
  BY <1>3, <1>5, <1>7, <1>8, <1>9, <1>10 DEF ExecutionInv, RowInv

(* Ageing, and the loss of a message, touch nothing an executor relies on. *)
LEMMA QuietInv ==
    ASSUME ExecutionInv,
           NEW q \in Query, AgeRow(q) \/ LoseMessage(q)
    PROVE  ExecutionInv'
<1>1. /\ UNCHANGED <<rowVars, submitVars, deliveries, uploaded, runVars>>
      /\ late' \in [Query -> BOOLEAN]
      /\ message' \in [Query -> {"none", "stored", "gone"}]
      /\ \A r \in Query : message'[r] = "none" <=> message[r] = "none"
  BY DEF AgeRow, LoseMessage, ExecutionInv, TypeOK, streamVars
<1>2. /\ status' = status /\ file' = file /\ submitter' = submitter
      /\ target' = target /\ bound' = bound
      /\ pc' = pc /\ job' = job /\ attempt' = attempt
  BY <1>1 DEF rowVars, submitVars, runVars
<1>3. TypeOK'
  BY <1>1, <1>2 DEF ExecutionInv, TypeOK, RowTypeOK
<1>4. \A w \in Worker : OfMessage(w)'
  BY <1>1, <1>2 DEF ExecutionInv, OfMessage, TypeOK, Executor
<1> QED
  BY <1>1, <1>2, <1>3, <1>4
     DEF ExecutionInv, FileOnlyWithAnswer, AnswerIsUploaded, OneOwner, Owns,
         BeforeHandover, InProcessAlone, Claimed, WorkingHasJob, NotExpired,
         LandedReleases, LandsUploaded, FileOf

(* A crash leaves the rows, the stream and the files alone and forgets     *)
(* what one executor was doing.                                            *)
LEMMA CrashInv ==
    ASSUME ExecutionInv,
           NEW e \in Executor,
           \/ e \in Worker /\ CrashWorker(e)
           \/ e \in Query /\ CrashServer(e)
    PROVE  ExecutionInv'
<1>1. /\ UNCHANGED <<rowVars, target, bound, streamVars, late, uploaded, attempt>>
      /\ pc' = [pc EXCEPT ![e] = "idle"]
      /\ job' = [job EXCEPT ![e] = NoQuery]
      /\ \/ submitter' = submitter
         \/ e \in Query /\ submitter' = [submitter EXCEPT ![e] = "done"]
  BY DEF CrashWorker, CrashServer, StopExecutor, submitVars, streamVars
<1>2. /\ status' = status /\ file' = file
      /\ message' = message /\ deliveries' = deliveries
  BY <1>1 DEF rowVars, streamVars
<1>3. TypeOK
  BY DEF ExecutionInv
<1>4. /\ pc'[e] = "idle" /\ job'[e] = NoQuery
      /\ \A d \in Executor : d # e => pc'[d] = pc[d] /\ job'[d] = job[d]
  BY <1>1, <1>3 DEF TypeOK
<1>5. TypeOK'
  <2>1. /\ pc' \in [Executor -> ExecutorPc]
        /\ job' \in [Executor -> Query \union {NoQuery}]
        /\ submitter' \in [Query -> SubmitterPc]
    BY <1>1, <1>3 DEF TypeOK, ExecutorPc, SubmitterPc
  <2> QED  BY <1>1, <1>2, <1>3, <2>1 DEF TypeOK, RowTypeOK
<1>6. FileOnlyWithAnswer' /\ AnswerIsUploaded' /\ Cached \in uploaded'
  BY <1>1, <1>2 DEF ExecutionInv, FileOnlyWithAnswer, AnswerIsUploaded
<1>7. OneOwner'
  BY <1>4 DEF ExecutionInv, OneOwner, Owns, OwningPc
<1>8. \A r \in Query : BeforeHandover(r)' /\ InProcessAlone(r)'
  <2>1. \A r \in Query : submitter'[r] = submitter[r] \/ submitter'[r] = "done"
    BY <1>1, <1>3 DEF TypeOK
  <2> QED
    BY <1>2, <1>4, <2>1, ExecutionAssumption
       DEF ExecutionInv, BeforeHandover, InProcessAlone, Executor
<1>9. \A w \in Worker : OfMessage(w)' /\ Claimed(w)'
  BY <1>2, <1>4 DEF ExecutionInv, OfMessage, Claimed, Executor, OwningPc
<1>10. \A d \in Executor :
         /\ WorkingHasJob(d)' /\ NotExpired(d)' /\ LandedReleases(d)'
         /\ LandsUploaded(d)'
  BY <1>1, <1>2, <1>4
     DEF ExecutionInv, WorkingHasJob, NotExpired, LandedReleases, LandsUploaded,
         OwningPc, FileOf
<1> QED
  BY <1>5, <1>6, <1>7, <1>8, <1>9, <1>10 DEF ExecutionInv

-----------------------------------------------------------------------------
(* The theorems.                                                           *)

LEMMA NextIsOneOf ==
    ASSUME Next
    PROVE  \/ \E q \in Query : SubmitterAction(q)
           \/ \E q \in Query : RunInMainLoop(q)
           \/ \E w \in Worker, q \in Query : Deliver(w, q)
           \/ \E e \in Executor : ExecutorAction(e)
           \/ \E q \in Query : CancelQuery(q)
           \/ \E q \in Query : AgeRow(q) \/ LoseMessage(q)
           \/ \E w \in Worker : CrashWorker(w)
           \/ \E q \in Query : CrashServer(q)
  BY DEF Next, Work, Loss, Submission, SubmitterAction, ExecutorAction

LEMMA InitExecutionInv == Init => ExecutionInv
<1> SUFFICES ASSUME Init PROVE ExecutionInv
  OBVIOUS
<1>1. RowInv
  BY RowInitInv DEF Init
<1>2. TypeOK
  BY <1>1, ExecutionAssumption
     DEF Init, TypeOK, RowInv, Target, PreAggregate, SubmitterPc, ExecutorPc, Attempt
<1> QED
  BY <1>1, <1>2, ExecutionAssumption
     DEF Init, RowInit, RowInv, ExecutionInv, AnswerIsUploaded, OneOwner, Owns,
         BeforeHandover, InProcessAlone, OfMessage, Claimed, WorkingHasJob,
         NotExpired, LandedReleases, LandsUploaded, OwningPc, Executor

LEMMA NextExecutionInv == ExecutionInv /\ [Next]_vars => ExecutionInv'
<1> SUFFICES ASSUME ExecutionInv, [Next]_vars PROVE ExecutionInv'
  OBVIOUS
<1>1. CASE \E q \in Query : SubmitterAction(q)
  BY <1>1, SubmitterActionIsStep, SubmitterStepInv DEF ExecutionInv
<1>2. CASE \E q \in Query : RunInMainLoop(q)
  BY <1>2, RunInMainLoopInv
<1>3. CASE \E w \in Worker, q \in Query : Deliver(w, q)
  BY <1>3, DeliverInv
<1>4. CASE \E e \in Executor : ExecutorAction(e)
  BY <1>4, ExecutorActionIsStep, ExecutorStepInv DEF ExecutionInv
<1>5. CASE \E q \in Query : CancelQuery(q)
  BY <1>5, CancelInv
<1>6. CASE \E q \in Query : AgeRow(q) \/ LoseMessage(q)
  BY <1>6, QuietInv
<1>7. CASE \E w \in Worker : CrashWorker(w)
  BY <1>7, CrashInv DEF Executor
<1>8. CASE \E q \in Query : CrashServer(q)
  BY <1>8, CrashInv DEF Executor
<1>9. CASE UNCHANGED vars
  BY <1>9
     DEF vars, rowVars, submitVars, streamVars, runVars, ExecutionInv, TypeOK,
         RowTypeOK, FileOnlyWithAnswer, AnswerIsUploaded, OneOwner, Owns,
         BeforeHandover, InProcessAlone, OfMessage, Claimed, WorkingHasJob,
         NotExpired, LandedReleases, LandsUploaded, FileOf
<1> QED
  BY <1>1, <1>2, <1>3, <1>4, <1>5, <1>6, <1>7, <1>8, <1>9, NextIsOneOf

(* The inductive invariant holds in every reachable state, for any number  *)
(* of queries and workers, any mix of targets and any max_deliver.         *)
THEOREM Invariance == Spec => []ExecutionInv
  BY InitExecutionInv, NextExecutionInv, PTL DEF Spec

(* Every variable keeps its type: in particular no message is delivered    *)
(* more often than the consumer allows.                                    *)
THEOREM TypeCorrect == Spec => []TypeOK
<1>1. ExecutionInv => TypeOK
  BY DEF ExecutionInv
<1> QED  BY <1>1, Invariance, PTL

(* A results file named by a row was closed completely before.             *)
THEOREM AnswersAreUploaded == Spec => []AnswerIsUploaded
<1>1. ExecutionInv => AnswerIsUploaded
  BY DEF ExecutionInv
<1> QED  BY <1>1, Invariance, PTL

(* The claim of the row keeps a query from being run twice at a time.      *)
THEOREM OwnersAreUnique == Spec => []OneOwner
<1>1. ExecutionInv => OneOwner
  BY DEF ExecutionInv
<1> QED  BY <1>1, Invariance, PTL

(* Nobody runs a query whose row says that it expired in the queue.        *)
THEOREM ExpiredAreNotRun == Spec => []ExpiredIsNotRun
<1>1. ExecutionInv => ExpiredIsNotRun
  BY DEF ExecutionInv, ExpiredIsNotRun, NotExpired, Owns
<1> QED  BY <1>1, Invariance, PTL

(* A READY row becomes ERROR only when its publish was reported as failed  *)
(* or its connection could not be released.                                *)
THEOREM AnswersAreKept == Spec => AnswerTakenBack
<1> DEFINE Excuse(q) == \/ submitter[q] = "failed"
                        \/ \E e \in Executor : pc[e] = "release" /\ job[e] = q
<1>1. ASSUME ExecutionInv, [Next]_vars,
             NEW q \in Query, status[q] = "ready", status'[q] = "error"
      PROVE  Excuse(q)
  <2>1. TypeOK /\ RowTypeOK
    BY <1>1 DEF ExecutionInv, TypeOK
  <2>2. CASE \E r \in Query : SubmitterAction(r)
    <3>1. PICK r \in Query : SubmitterStep(r)
      BY <2>1, <2>2, SubmitterActionIsStep
    <3>2. r = q /\ submitter[q] \in {"miss", "failed"}
      BY <1>1, <2>1, <3>1 DEF SubmitterStep, RowTypeOK, rowVars
    <3>3. submitter[q] # "miss"
      BY <1>1 DEF ExecutionInv, BeforeHandover
    <3> QED  BY <3>2, <3>3
  <2>3. CASE \E e \in Executor : ExecutorAction(e)
    <3>1. PICK e \in Executor : ExecutorStep(e)
      BY <1>1, <2>3, ExecutorActionIsStep DEF ExecutionInv
    <3>2. pc[e] \in OwningPc /\ job[e] = q
      BY <1>1, <2>1, <3>1 DEF ExecutorStep, RowMove, RowTypeOK, rowVars
    <3>3. pc[e] = "release"
      BY <1>1, <3>2 DEF ExecutionInv, LandedReleases
    <3> QED  BY <3>2, <3>3
  <2>4. CASE \E r \in Query : CancelQuery(r)
    BY <1>1, <2>1, <2>4, CancelEffect DEF CancelQuery, RowTypeOK, rowVars
  <2>5. CASE UNCHANGED rowVars
    BY <1>1, <2>5 DEF rowVars
  <2>6. \/ \E r \in Query : SubmitterAction(r)
        \/ \E e \in Executor : ExecutorAction(e)
        \/ \E r \in Query : CancelQuery(r)
        \/ UNCHANGED rowVars
    BY <1>1, NextIsOneOf
       DEF RunInMainLoop, Deliver, AgeRow, LoseMessage, CrashWorker, CrashServer, vars
  <2> QED  BY <2>2, <2>3, <2>4, <2>5, <2>6
<1>2. ExecutionInv /\ [Next]_vars =>
        [\A q \in Query : status[q] = "ready" /\ status'[q] = "error" => Excuse(q)]_vars
  BY <1>1
<1> QED  BY <1>2, Invariance, PTL DEF Spec, AnswerTakenBack

(* A worker starts no query that was stopped while its job waited.         *)
THEOREM StoppedStaysStopped == Spec => StoppedBeforeTaken
<1>1. ASSUME ExecutionInv, [Next]_vars, NEW w \in Worker, NEW q \in Query,
             ~Owns(w, q), pc'[w] \in OwningPc, job'[w] = q
      PROVE  status[q] \in Live
  <2>1. TypeOK /\ w \in Executor /\ w \notin Query
    BY <1>1, ExecutionAssumption DEF ExecutionInv, Executor
  <2>2. CASE \E e \in Executor : ExecutorAction(e)
    <3>1. PICK e \in Executor : ExecutorStep(e)
      BY <1>1, <2>2, ExecutorActionIsStep DEF ExecutionInv
    <3>2. e = w
      BY <1>1, <2>1, <3>1 DEF ExecutorStep, Owns, TypeOK
    <3> QED
      BY <1>1, <2>1, <3>1, <3>2
         DEF ExecutorStep, RowMove, Owns, OwningPc, Live, TypeOK
  <2>3. CASE \E d \in Worker, r \in Query : Deliver(d, r)
    BY <1>1, <2>1, <2>3 DEF Deliver, StartRun, Owns, OwningPc, TypeOK
  <2>4. CASE \E r \in Query : RunInMainLoop(r)
    BY <1>1, <2>1, <2>4 DEF RunInMainLoop, StartRun, Owns, TypeOK
  <2>5. CASE \E d \in Worker : CrashWorker(d)
    BY <1>1, <2>1, <2>5 DEF CrashWorker, StopExecutor, Owns, OwningPc, TypeOK
  <2>6. CASE \E r \in Query : CrashServer(r)
    BY <1>1, <2>1, <2>6 DEF CrashServer, Owns, TypeOK
  <2>7. CASE UNCHANGED runVars
    BY <1>1, <2>7 DEF runVars, Owns
  <2>8. (\E r \in Query : SubmitterAction(r)) => UNCHANGED runVars
    BY DEF SubmitterAction, Create, ClaimHit, LandHit, RejectPlan, Publish,
           PublishFails, MarkQueued, MarkEnqueueFailed
  <2>9. (\E r \in Query : CancelQuery(r) \/ AgeRow(r) \/ LoseMessage(r))
          => UNCHANGED runVars
    BY DEF CancelQuery, AgeRow, LoseMessage
  <2> QED
    BY <1>1, <2>2, <2>3, <2>4, <2>5, <2>6, <2>7, <2>8, <2>9, NextIsOneOf DEF vars
<1>2. ExecutionInv /\ [Next]_vars =>
        [\A w \in Worker, q \in Query :
           ~Owns(w, q) /\ Owns(w, q)' => status[q] \in Live]_vars
  BY <1>1 DEF Owns
<1> QED  BY <1>2, Invariance, PTL DEF Spec, StoppedBeforeTaken

(* The whole system keeps the promise to whoever polls a query.            *)
THEOREM ExecutionKeepsPromise == Spec => PromiseKept
<1>1. Init => Promise!PromiseInit
  BY OutcomeOfStatus DEF Init, RowInit, Promise!PromiseInit
<1>2. ASSUME ExecutionInv, [Next]_vars
      PROVE  [Promise!PromiseNext]_(Promise!promiseVars)
  <2>1. TypeOK /\ RowTypeOK /\ RowInv
    BY <1>2 DEF ExecutionInv, TypeOK, RowInv
  <2>2. CASE \E q \in Query : RowStep(q)
    BY <2>1, <2>2, RowStepKeepsPromise
  <2>3. CASE UNCHANGED rowVars
    BY <2>3 DEF rowVars, Promise!promiseVars
  <2>4. (\E q \in Query : SubmitterAction(q))
          => \E q \in Query : RowStep(q)
    <3>1. ASSUME NEW q \in Query, SubmitterStep(q) PROVE RowStep(q)
      <4>1. status[q] \in Status /\ Cached \in File
        BY <2>1, ExecutionAssumption DEF RowTypeOK
      <4>2. submitter[q] = "miss" => status[q] # "ready"
        BY <1>2 DEF ExecutionInv, BeforeHandover
      <4> QED
        BY <3>1, <4>1, <4>2 DEF SubmitterStep, RowStep, Status, Live, Terminal
    <3> QED  BY <2>1, <3>1, SubmitterActionIsStep
  <2>5. (\E e \in Executor : ExecutorAction(e))
          => \E q \in Query : RowStep(q)
    <3> SUFFICES ASSUME NEW e \in Executor, ExecutorStep(e)
                 PROVE  \E q \in Query : RowStep(q)
      BY <1>2, ExecutorActionIsStep DEF ExecutionInv
    <3>1. job[e] \in Query
      BY <1>2, WorkingJob DEF ExecutionInv, ExecutorStep
    <3>2. RowStep(job[e])
      BY <2>1, <3>1, RowMoveIsRowStep DEF ExecutorStep
    <3> QED  BY <3>1, <3>2
  <2>6. (\E q \in Query : CancelQuery(q)) => \E q \in Query : RowStep(q)
    BY <2>1, StatementIsRowStep DEF CancelQuery
  <2> QED
    BY <1>2, <2>2, <2>3, <2>4, <2>5, <2>6, NextIsOneOf
       DEF RunInMainLoop, Deliver, AgeRow, LoseMessage, CrashWorker, CrashServer, vars
<1> QED
  BY <1>1, <1>2, Invariance, PTL DEF Spec, PromiseKept, Promise!PromiseSpec

-----------------------------------------------------------------------------
(* Without losses no running query is forgotten.                           *)

(* How an executor lets go of a query, and what it has reached when it     *)
(* does not: nothing of this is true of the two failed rebuilds and grant  *)
(* checks that are counted among the losses.                               *)
LeavesItEnded(e) ==
    /\ pc[e] \in OwningPc => pc'[e] \in OwningPc \union {"idle"}
    /\ pc'[e] = "idle" =>
          /\ status'[job[e]] \notin {"pending", "queued"}
          /\ status'[job[e]] = "executing" => pc[e] \in {"read", "expire", "claim"}
    /\ \/ pc'[e] \in {"build", "bind", "landHit"}
       \/ pc'[e] \in OwningPc /\ target[job[e]] = "duckdb"
       => status'[job[e]] \notin {"pending", "queued"}
    /\ pc'[e] = "release" => status'[job[e]] \notin Live

LEMMA LandedRow ==
    ASSUME RowTypeOK, NEW q \in Query, NEW f, UpdateToReady(q, f),
           status[q] # "queued"
    PROVE  status'[q] \notin Live
  BY DEF UpdateToReady, MayAnswer, RowTypeOK, Live, Status

LEMMA FailedRow ==
    ASSUME RowTypeOK, NEW q \in Query,
           UpdateToError(q) \/ (UpdateClaimedToError(q) /\ status[q] \notin {"pending", "queued"})
    PROVE  status'[q] \notin Live
  BY DEF UpdateToError, UpdateClaimedToError, SetStatus, MayFail, MayFailClaimed,
         RowTypeOK, Live, Status

(* The row of an owner is never QUEUED: a worker's is claimed, and in the  *)
(* main loop there is no message.                                          *)
LEMMA OwnedIsNotQueued ==
    ASSUME AttendedInv, NEW e \in Executor, pc[e] \in OwningPc
    PROVE  job[e] \in Query /\ status[job[e]] # "queued"
<1>1. job[e] \in Query
  BY WorkingJob DEF AttendedInv, ExecutionInv, OwningPc
<1>2. CASE e \in Worker
  <2>1. Claimed(e)
    BY <1>2 DEF AttendedInv, ExecutionInv
  <2> QED  BY <1>1, <2>1 DEF Claimed, Terminal
<1>3. CASE e \in Query
  BY <1>1, <1>3, ExecutionAssumption
     DEF AttendedInv, ExecutionInv, InProcessAlone, NotPublishedYet
<1> QED  BY <1>1, <1>2, <1>3 DEF Executor

LEMMA ExecutionLeavesItEnded ==
    ASSUME AttendedInv, NEW e \in Executor, Execution(e)
    PROVE  LeavesItEnded(e)
<1> DEFINE q == job[e]
<1> USE DEF OwningPc, Live
<1>1. pc[e] # "idle"
  BY DEF Execution, Read, ExpireInQueue, Claim, Build, BuildFails,
         Verify, VerifyFails, Bind, LandDuckdbHit, Run, Close, CloseFails, Land,
         Release, ReleaseFails, FallBack, FailRun
<1>2. /\ TypeOK /\ RowTypeOK /\ q \in Query /\ status[q] \in Status
      /\ pc \in [Executor -> ExecutorPc]
  BY <1>1, WorkingJob DEF AttendedInv, ExecutionInv, TypeOK, RowTypeOK
<1>3. ComesFromClaim(e)
  BY DEF AttendedInv
<1>4. pc[e] \in OwningPc => status[q] # "queued"
  BY OwnedIsNotQueued
<1>5. Settle(e) \/ Throw(e) => pc'[e] = "idle"
  BY <1>2 DEF Settle, Throw, StopExecutor
<1>6. \A p \in ExecutorPc : ExecutorTo(e, p) => pc'[e] = p
  BY <1>2 DEF ExecutorTo
<1>7. RunWarehouseInstead(e) => pc'[e] = "run"
  BY <1>2 DEF RunWarehouseInstead
<1>8. CASE Read(e)
  <2>1. status' = status
    BY <1>8 DEF Read, rowVars
  <2>2. \/ pc'[e] = "idle" /\ status[q] \notin {"pending", "queued"}
        \/ pc'[e] \in {"expire", "claim"}
    BY <1>5, <1>6, <1>8 DEF Read, ExecutorPc
  <2> QED  BY <1>8, <2>1, <2>2 DEF Read, LeavesItEnded
<1>9. CASE ExpireInQueue(e)
  <2>1. pc[e] = "expire" /\ pc'[e] = "idle" /\ status'[q] \notin {"pending", "queued"}
    BY <1>2, <1>5, <1>9
       DEF ExpireInQueue, UpdateToExpired, SetStatus, MayExpire, RowTypeOK
  <2> QED  BY <2>1 DEF LeavesItEnded
<1>10. CASE Claim(e)
  <2>1. status'[q] \notin {"pending", "queued"}
    BY <1>2, <1>10 DEF Claim, UpdateToExecuting, SetStatus, MayExecute, RowTypeOK
  <2>2. pc'[e] \in {"idle", "build"}
    BY <1>5, <1>6, <1>10 DEF Claim, ExecutorPc
  <2> QED  BY <1>10, <2>1, <2>2 DEF Claim, LeavesItEnded
<1>11. CASE Build(e)
  <2>1. status' = status /\ pc[e] = "build"
    BY <1>11 DEF Build, rowVars
  <2>2. pc'[e] \in {"verify", "bind", "run"}
    BY <1>6, <1>11 DEF Build, AfterVerify, ExecutorPc
  <2> QED  BY <1>3, <2>1, <2>2 DEF ComesFromClaim, LeavesItEnded
<1>12. CASE BuildFails(e)
  <2>1. pc'[e] = "idle" /\ pc[e] = "build"
    BY <1>5, <1>12 DEF BuildFails
  <2>2. status'[q] \notin Live
    BY <1>2, <1>3, <1>12, <2>1, FailedRow DEF BuildFails, ComesFromClaim
  <2> QED  BY <2>1, <2>2 DEF LeavesItEnded
<1>13. CASE Verify(e)
  <2>1. status' = status /\ pc[e] = "verify"
    BY <1>13 DEF Verify, rowVars
  <2>2. \/ pc'[e] = "bind" /\ target[q] = "duckdb"
        \/ pc'[e] = "run" /\ target[q] # "duckdb"
    BY <1>6, <1>13 DEF Verify, AfterVerify, ExecutorPc
  <2> QED  BY <1>3, <2>1, <2>2 DEF ComesFromClaim, LeavesItEnded
<1>14. CASE VerifyFails(e)
  <2>1. pc'[e] = "idle" /\ pc[e] = "verify"
    BY <1>5, <1>14 DEF VerifyFails
  <2>2. status'[q] \notin Live
    BY <1>2, <1>14, FailedRow DEF VerifyFails
  <2> QED  BY <2>1, <2>2 DEF LeavesItEnded
<1>15. CASE Bind(e)
  <2>1. status' = status /\ pc[e] = "bind"
    BY <1>15 DEF Bind, rowVars
  <2>2. \/ pc'[e] = "idle" /\ status[q] = "cancelled"
        \/ pc'[e] \in {"run", "landHit", "failed"}
    BY <1>5, <1>6, <1>15 DEF Bind, ExecutorPc
  <2> QED  BY <1>3, <2>1, <2>2 DEF ComesFromClaim, LeavesItEnded
<1>16. CASE LandDuckdbHit(e)
  <2>1. pc'[e] = "idle" /\ pc[e] = "landHit"
    BY <1>5, <1>16 DEF LandDuckdbHit
  <2>2. status'[q] \notin Live
    BY <1>2, <1>4, <1>16, <2>1, LandedRow DEF LandDuckdbHit
  <2> QED  BY <2>1, <2>2 DEF LeavesItEnded
<1>17. CASE Run(e) \/ Close(e) \/ CloseFails(e) \/ FallBack(e)
  <2>1. status' = status /\ pc[e] \in {"run", "close", "failed"}
    BY <1>17 DEF Run, Close, CloseFails, FallBack, rowVars
  <2>2. pc'[e] \in {"close", "land", "failed", "run"}
    BY <1>6, <1>7, <1>17 DEF Run, Close, CloseFails, FallBack, ExecutorPc
  <2> QED  BY <1>3, <2>1, <2>2 DEF ComesFromClaim, LeavesItEnded
<1>18. CASE Land(e)
  <2>1. pc'[e] \in {"idle", "release"} /\ pc[e] = "land"
    BY <1>5, <1>6, <1>18 DEF Land, ExecutorPc
  <2>2. status'[q] \notin Live
    BY <1>2, <1>4, <1>18, <2>1, LandedRow DEF Land
  <2> QED  BY <2>1, <2>2 DEF LeavesItEnded
<1>19. CASE Release(e)
  <2>1. pc'[e] = "idle" /\ pc[e] = "release" /\ status' = status
    BY <1>5, <1>19 DEF Release, rowVars
  <2> QED  BY <1>3, <2>1 DEF ComesFromClaim, LeavesItEnded
<1>20. CASE ReleaseFails(e) \/ FailRun(e)
  <2>1. pc'[e] \in {"idle", "run"} /\ pc[e] \in {"release", "failed"}
    BY <1>5, <1>7, <1>20 DEF ReleaseFails, FailRun
  <2>2. status'[q] \notin Live
    BY <1>2, <1>20, FailedRow DEF ReleaseFails, FailRun
  <2> QED  BY <2>1, <2>2 DEF LeavesItEnded
<1> QED
  BY <1>8, <1>9, <1>10, <1>11, <1>12, <1>13, <1>14, <1>15, <1>16, <1>17, <1>18,
     <1>19, <1>20 DEF Execution

LEMMA ExecutionAttended ==
    ASSUME AttendedInv, ExecutionInv', NEW e \in Executor, Execution(e)
    PROVE  AttendedInv'
<1> DEFINE q == job[e]
<1>1. PICK p \in ExecutorPc :
        /\ pc[e] # "idle"
        /\ UNCHANGED <<submitVars, deliveries, late>>
        /\ pc' = [pc EXCEPT ![e] = p]
        /\ \/ /\ p = "idle"
              /\ job' = [job EXCEPT ![e] = NoQuery]
              /\ \/ message' = message
                 \/ message' = [message EXCEPT ![job[e]] = "gone"]
           \/ /\ p # "idle"
              /\ job' = job
              /\ message' = message
        /\ RowMove(e, p)
  BY ExecutorActionIsStep DEF AttendedInv, ExecutionInv, ExecutorAction, ExecutorStep
<1>2. TypeOK /\ RowTypeOK /\ q \in Query /\ ExecutionInv
  BY <1>1, WorkingJob DEF AttendedInv, ExecutionInv, TypeOK
<1>3. LeavesItEnded(e)
  BY ExecutionLeavesItEnded
<1>4. /\ pc'[e] = p
      /\ p # "idle" => job'[e] = q
      /\ \A d \in Executor : d # e => pc'[d] = pc[d] /\ job'[d] = job[d]
  BY <1>1, <1>2 DEF TypeOK
<1>5. /\ \A r \in Query : r # q => status'[r] = status[r] /\ message'[r] = message[r]
      /\ message'[q] = message[q] \/ (p = "idle" /\ message'[q] = "gone")
      /\ submitter' = submitter /\ target' = target /\ deliveries' = deliveries
  BY <1>1, <1>2 DEF TypeOK, RowTypeOK, RowMove, rowVars, submitVars
<1>6. /\ status'[q] \in {"pending", "queued"} => status'[q] = status[q]
      /\ status'[q] = "executing" =>
            status[q] = "executing" \/ (pc[e] = "claim" /\ p = "build")
  <2>1. status \in [Query -> Status] /\ q \in Query /\ RowMove(e, p)
    BY <1>1, <1>2 DEF RowTypeOK
  <2>2. \/ status' = status
        \/ pc[e] = "claim" /\ p = "build" /\ status' = [status EXCEPT ![q] = "executing"]
        \/ \E s \in {"expired", "error", "ready"} : status' = [status EXCEPT ![q] = s]
    BY <2>1 DEF RowMove, rowVars
  <2> QED  BY <2>1, <2>2
<1>7. submitter[q] \notin {"idle", "hit", "landing", "miss"}
  BY <1>1, <1>2, WorkingIsHandedOver
<1>8. ASSUME NEW r \in Query
      PROVE  NotPublishedYet(r)' /\ NotClaimedYet(r)'
  BY <1>5, <1>6, <1>7 DEF AttendedInv, NotPublishedYet, NotClaimedYet
<1>9. ASSUME NEW r \in Query, status'[r] = "executing", submitter'[r] # "landing"
      PROVE  \E d \in Executor : Owns(d, r)'
  <2>1. CASE r # q
    <3>1. PICK d \in Executor : Owns(d, r)
      BY <1>5, <1>9, <2>1 DEF AttendedInv, ClaimIsHeld
    <3>2. d # e
      BY <2>1, <3>1 DEF Owns
    <3> QED  BY <1>4, <3>1, <3>2 DEF Owns
  <2>2. CASE r = q /\ p \in OwningPc
    BY <1>4, <2>2 DEF Owns, OwningPc
  <2>3. CASE r = q /\ p \notin OwningPc
    <3>1. pc[e] \notin OwningPc
      BY <1>3, <1>4, <1>9, <2>3 DEF LeavesItEnded, OwningPc
    <3>2. status[q] = "executing"
      BY <1>6, <1>9, <2>3 DEF OwningPc
    <3>3. PICK d \in Executor : Owns(d, q)
      BY <1>2, <1>7, <3>2 DEF AttendedInv, ClaimIsHeld
    <3>4. d # e
      BY <3>1, <3>3 DEF Owns
    <3> QED  BY <1>4, <2>3, <3>3, <3>4 DEF Owns
  <2> QED  BY <2>1, <2>2, <2>3
<1>10. ASSUME NEW r \in Query PROVE UnclaimedIsHeld(r)'
  <2>1. CASE r # q
    <3>1. \A d \in Executor : job[d] = r => job'[d] = r
      BY <1>4, <2>1
    <3> QED
      BY <1>5, <2>1, <3>1 DEF AttendedInv, UnclaimedIsHeld, HandedOver
  <2>2. CASE r = q
    BY <1>3, <1>4, <2>2 DEF LeavesItEnded, UnclaimedIsHeld, HandedOver
  <2> QED  BY <2>1, <2>2
<1>11. ASSUME NEW d \in Executor PROVE ComesFromClaim(d)'
  <2>1. CASE d = e
    <3>1. p # "idle" => job'[d] = q
      BY <1>4, <2>1
    <3> QED
      BY <1>3, <1>4, <1>5, <2>1, <3>1 DEF LeavesItEnded, ComesFromClaim, OwningPc
  <2>2. CASE d # e /\ job[d] = q
    <3>1. ComesFromClaim(d)
      BY DEF AttendedInv
    <3> QED
      BY <1>1, <1>2, <1>4, <1>5, <1>6, <2>2, <3>1
         DEF ComesFromClaim, Live, RowMove, rowVars, RowTypeOK
  <2>3. CASE d # e /\ job[d] # q
    <3>1. ComesFromClaim(d) /\ (pc[d] \in OwningPc => job[d] \in Query)
      BY <1>2, WorkingJob DEF AttendedInv, ExecutionInv, OwningPc
    <3> QED
      BY <1>4, <1>5, <2>3, <3>1 DEF ComesFromClaim, OwningPc
  <2> QED  BY <2>1, <2>2, <2>3
<1> QED
  BY <1>8, <1>9, <1>10, <1>11 DEF AttendedInv, ClaimIsHeld

(* What a step that leaves the executors and the targets alone has to keep *)
(* of the one query q it is about.                                         *)
LEMMA OneQueryAttended ==
    ASSUME AttendedInv, ExecutionInv', NEW q \in Query,
           UNCHANGED <<deliveries, runVars>>,
           \A r \in Query : r # q =>
              /\ status'[r] = status[r] /\ message'[r] = message[r]
              /\ submitter'[r] = submitter[r] /\ target'[r] = target[r],
           NotPublishedYet(q)' /\ NotClaimedYet(q)' /\ ClaimIsHeld(q)'
              /\ UnclaimedIsHeld(q)',
           \A e \in Executor : job[e] = q =>
              /\ target'[q] = target[q]
              /\ status'[q] \in {"pending", "queued"} =>
                    status[q] \in {"pending", "queued"}
              /\ status'[q] = "executing" => status[q] \in Live
    PROVE  AttendedInv'
<1>1. pc' = pc /\ job' = job /\ deliveries' = deliveries
  BY DEF runVars
<1>2. ASSUME NEW r \in Query, r # q
      PROVE  /\ NotPublishedYet(r)' /\ NotClaimedYet(r)'
             /\ ClaimIsHeld(r)' /\ UnclaimedIsHeld(r)'
  BY <1>1, <1>2
     DEF AttendedInv, NotPublishedYet, NotClaimedYet, ClaimIsHeld, UnclaimedIsHeld,
         HandedOver, Owns
<1>3. ASSUME NEW e \in Executor PROVE ComesFromClaim(e)'
  <2>1. ComesFromClaim(e) /\ (pc[e] \in OwningPc => job[e] \in Query)
    BY WorkingJob DEF AttendedInv, ExecutionInv, OwningPc
  <2>2. CASE job[e] = q
    BY <1>1, <2>1, <2>2 DEF ComesFromClaim, Live
  <2>3. CASE job[e] # q
    BY <1>1, <2>1, <2>3 DEF ComesFromClaim, OwningPc
  <2> QED  BY <2>2, <2>3
<1> QED  BY <1>2, <1>3 DEF AttendedInv

LEMMA SubmitterAttended ==
    ASSUME AttendedInv, ExecutionInv', NEW q \in Query, SubmitterAction(q)
    PROVE  AttendedInv'
<1>1. /\ TypeOK /\ RowTypeOK /\ ExecutionInv /\ status[q] \in Status
      /\ NotPublishedYet(q) /\ NotClaimedYet(q) /\ ClaimIsHeld(q)
      /\ UnclaimedIsHeld(q) /\ BeforeHandover(q)
  BY DEF AttendedInv, ExecutionInv, TypeOK, RowTypeOK
<1> DEFINE Others == \A r \in Query : r # q =>
              /\ status'[r] = status[r] /\ message'[r] = message[r]
              /\ submitter'[r] = submitter[r] /\ target'[r] = target[r]
<1>2. submitter[q] \in {"idle", "hit", "landing", "miss"} =>
        \A e \in Executor : job[e] # q
  <2> SUFFICES ASSUME NEW e \in Executor, job[e] = q
               PROVE  submitter[q] \notin {"idle", "hit", "landing", "miss"}
    OBVIOUS
  <2>1. pc[e] # "idle"
    BY <1>1, ExecutionAssumption DEF ExecutionInv, WorkingHasJob
  <2> QED  BY <1>1, <2>1, WorkingIsHandedOver
<1>3. CASE Create(q)
  <2>1. /\ submitter[q] = "idle" /\ submitter'[q] \in {"hit", "miss"}
        /\ status'[q] = "pending" /\ message' = message
        /\ UNCHANGED <<deliveries, runVars>>
        /\ Others
    BY <1>1, <1>3 DEF Create, Insert, streamVars, TypeOK, RowTypeOK
  <2>2. NotPublishedYet(q)' /\ NotClaimedYet(q)' /\ ClaimIsHeld(q)' /\ UnclaimedIsHeld(q)'
    BY <1>1, <2>1
       DEF NotPublishedYet, NotClaimedYet, ClaimIsHeld, UnclaimedIsHeld, BeforeHandover
  <2> QED  BY <1>2, <2>1, <2>2, OneQueryAttended
<1>4. CASE ClaimHit(q)
  <2>1. /\ submitter[q] = "hit" /\ submitter'[q] = "landing" /\ message' = message
        /\ status'[q] \in {status[q], "executing"}
        /\ UNCHANGED <<deliveries, runVars>>
        /\ Others
    BY <1>1, <1>4
       DEF ClaimHit, SubmitterTo, UpdateToExecuting, SetStatus, streamVars, rowVars,
           TypeOK, RowTypeOK
  <2>2. NotPublishedYet(q)' /\ NotClaimedYet(q)' /\ ClaimIsHeld(q)' /\ UnclaimedIsHeld(q)'
    BY <1>1, <2>1 DEF NotPublishedYet, NotClaimedYet, ClaimIsHeld, UnclaimedIsHeld
  <2> QED  BY <1>2, <2>1, <2>2, OneQueryAttended
<1>5. CASE LandHit(q) \/ RejectPlan(q) \/ MarkEnqueueFailed(q)
  <2>1. /\ submitter'[q] = "done" /\ message' = message /\ target' = target
        /\ UNCHANGED <<deliveries, runVars>>
        /\ Others
    BY <1>1, <1>5
       DEF LandHit, RejectPlan, MarkEnqueueFailed, SubmitterTo, UpdateToReady,
           UpdateToError, SetStatus, streamVars, TypeOK, RowTypeOK
  <2>2. status'[q] \notin Live
    <3>1. LandHit(q) => status[q] # "queued"
      BY <1>1 DEF LandHit, BeforeHandover, NotPublishedYet
    <3> QED  BY <1>1, <1>5, <3>1, LandedRow, FailedRow
             DEF LandHit, RejectPlan, MarkEnqueueFailed
  <2>3. NotPublishedYet(q)' /\ NotClaimedYet(q)' /\ ClaimIsHeld(q)' /\ UnclaimedIsHeld(q)'
    BY <1>1, <2>1, <2>2
       DEF NotPublishedYet, NotClaimedYet, ClaimIsHeld, UnclaimedIsHeld, Live
  <2>4. \A e \in Executor : job[e] = q =>
              /\ target'[q] = target[q]
              /\ status'[q] \in {"pending", "queued"} =>
                    status[q] \in {"pending", "queued"}
              /\ status'[q] = "executing" => status[q] \in Live
    BY <2>1, <2>2 DEF Live
  <2> QED  BY <2>1, <2>3, <2>4, OneQueryAttended
<1>6. CASE Publish(q)
  <2>1. /\ submitter[q] = "miss" /\ submitter'[q] \in {"published", "failed"}
        /\ message'[q] = "stored" /\ status' = status
        /\ UNCHANGED <<deliveries, runVars>>
        /\ Others
    BY <1>1, <1>6 DEF Publish, SubmitterTo, rowVars, TypeOK, RowTypeOK
  <2>2. deliveries[q] = 0 /\ status[q] # "executing"
    BY <1>1, <2>1 DEF NotPublishedYet, NotClaimedYet, BeforeHandover
  <2>3. deliveries'[q] < MaxDeliver
    BY <2>1, <2>2, ExecutionAssumption
  <2>4. NotPublishedYet(q)' /\ NotClaimedYet(q)' /\ ClaimIsHeld(q)' /\ UnclaimedIsHeld(q)'
    BY <1>1, <2>1, <2>2, <2>3
       DEF NotPublishedYet, NotClaimedYet, ClaimIsHeld, UnclaimedIsHeld, HandedOver
  <2> QED  BY <1>2, <2>1, <2>4, OneQueryAttended
<1>7. CASE PublishFails(q)
  <2>1. /\ submitter[q] = "miss" /\ submitter'[q] = "failed"
        /\ message' = message /\ status' = status
        /\ UNCHANGED <<deliveries, runVars>>
        /\ Others
    BY <1>1, <1>7 DEF PublishFails, SubmitterTo, streamVars, rowVars, TypeOK, RowTypeOK
  <2>2. NotPublishedYet(q)' /\ NotClaimedYet(q)' /\ ClaimIsHeld(q)' /\ UnclaimedIsHeld(q)'
    BY <1>1, <2>1
       DEF NotPublishedYet, NotClaimedYet, ClaimIsHeld, UnclaimedIsHeld
  <2> QED  BY <1>2, <2>1, <2>2, OneQueryAttended
<1>8. CASE MarkQueued(q)
  <2>1. /\ submitter[q] = "published" /\ submitter'[q] = "done"
        /\ message' = message /\ target' = target
        /\ status'[q] = IF status[q] = "pending" THEN "queued" ELSE status[q]
        /\ UNCHANGED <<deliveries, runVars>>
        /\ Others
    BY <1>1, <1>8
       DEF MarkQueued, SubmitterTo, UpdateToQueued, SetStatus, MayQueue, streamVars,
           TypeOK, RowTypeOK
  <2>2. NotPublishedYet(q)' /\ NotClaimedYet(q)'
    BY <1>1, <2>1 DEF NotPublishedYet, NotClaimedYet
  <2>3. ClaimIsHeld(q)' /\ UnclaimedIsHeld(q)'
    BY <1>1, <2>1 DEF ClaimIsHeld, UnclaimedIsHeld, HandedOver, Owns, runVars
  <2>4. \A e \in Executor : job[e] = q =>
              /\ target'[q] = target[q]
              /\ status'[q] \in {"pending", "queued"} =>
                    status[q] \in {"pending", "queued"}
              /\ status'[q] = "executing" => status[q] \in Live
    BY <2>1 DEF Live
  <2> QED  BY <2>1, <2>2, <2>3, <2>4, OneQueryAttended
<1> QED  BY <1>3, <1>4, <1>5, <1>6, <1>7, <1>8 DEF SubmitterAction

LEMMA RunInMainLoopAttended ==
    ASSUME AttendedInv, ExecutionInv', NEW q \in Query, RunInMainLoop(q)
    PROVE  AttendedInv'
<1>1. /\ submitter[q] = "miss" /\ submitter' = [submitter EXCEPT ![q] = "done"]
      /\ status' = status /\ target' = target
      /\ message' = message /\ deliveries' = deliveries
      /\ pc' = [pc EXCEPT ![q] = IF target[q] = "duckdb" THEN "read"
                                 ELSE IF q \in bound THEN "verify" ELSE "run"]
      /\ job' = [job EXCEPT ![q] = q]
  BY DEF RunInMainLoop, StartRun, SubmitterTo, rowVars, streamVars
<1>2. /\ TypeOK /\ ExecutionInv /\ q \in Executor
      /\ BeforeHandover(q) /\ NotClaimedYet(q)
  BY DEF AttendedInv, ExecutionInv, Executor
<1>3. job[q] = NoQuery /\ status[q] # "executing"
  BY <1>1, <1>2 DEF BeforeHandover, NotClaimedYet
<1>4. /\ job'[q] = q
      /\ \A e \in Executor : e # q => pc'[e] = pc[e] /\ job'[e] = job[e]
      /\ \A r \in Query : r # q => submitter'[r] = submitter[r]
      /\ submitter'[q] = "done"
  BY <1>1, <1>2 DEF TypeOK
<1>5. ASSUME NEW r \in Query
      PROVE  NotPublishedYet(r)' /\ NotClaimedYet(r)'
  BY <1>1, <1>4 DEF AttendedInv, NotPublishedYet, NotClaimedYet
<1>6. ASSUME NEW r \in Query PROVE ClaimIsHeld(r)' /\ UnclaimedIsHeld(r)'
  <2>1. CASE r = q
    BY <1>1, <1>2, <1>3, <1>4, <2>1 DEF ClaimIsHeld, UnclaimedIsHeld, HandedOver
  <2>2. CASE r # q
    <3>1. \A e \in Executor : job[e] = r => e # q
      BY <1>3, ExecutionAssumption
    <3> QED
      BY <1>1, <1>4, <2>2, <3>1
         DEF AttendedInv, ClaimIsHeld, UnclaimedIsHeld, HandedOver, Owns
  <2> QED  BY <2>1, <2>2
<1>7. ASSUME NEW e \in Executor PROVE ComesFromClaim(e)'
  <2>1. CASE e = q
    <3>1. pc'[e] = IF target[q] = "duckdb" THEN "read"
                   ELSE IF q \in bound THEN "verify" ELSE "run"
      BY <1>1, <1>2, <2>1 DEF TypeOK
    <3> QED  BY <1>1, <1>4, <2>1, <3>1 DEF ComesFromClaim, OwningPc
  <2>2. CASE e # q
    BY <1>1, <1>4, <2>2 DEF AttendedInv, ComesFromClaim
  <2> QED  BY <2>1, <2>2
<1> QED  BY <1>5, <1>6, <1>7 DEF AttendedInv

LEMMA DeliverAttended ==
    ASSUME AttendedInv, ExecutionInv', NEW w \in Worker, NEW q \in Query,
           Deliver(w, q)
    PROVE  AttendedInv'
<1>1. /\ pc[w] = "idle" /\ message[q] = "stored"
      /\ deliveries' = [deliveries EXCEPT ![q] = @ + 1]
      /\ pc' = [pc EXCEPT ![w] = "read"] /\ job' = [job EXCEPT ![w] = q]
      /\ status' = status /\ target' = target /\ submitter' = submitter
      /\ message' = message
  BY DEF Deliver, StartRun, rowVars, submitVars
<1>2. TypeOK /\ ExecutionInv /\ w \in Executor
  BY DEF AttendedInv, ExecutionInv, Executor
<1>3. job[w] = NoQuery
  BY <1>1, <1>2 DEF ExecutionInv, WorkingHasJob
<1>4. /\ job'[w] = q /\ pc'[w] = "read"
      /\ \A e \in Executor : e # w => pc'[e] = pc[e] /\ job'[e] = job[e]
      /\ \A r \in Query : r # q => deliveries'[r] = deliveries[r]
  BY <1>1, <1>2 DEF TypeOK
<1>5. ASSUME NEW r \in Query
      PROVE  NotPublishedYet(r)' /\ NotClaimedYet(r)'
  BY <1>1, <1>4 DEF AttendedInv, NotPublishedYet, NotClaimedYet
<1>6. ASSUME NEW r \in Query PROVE ClaimIsHeld(r)' /\ UnclaimedIsHeld(r)'
  <2>1. \A e \in Executor : job[e] = r => e # w
    BY <1>3, ExecutionAssumption
  <2>2. ClaimIsHeld(r)'
    BY <1>1, <1>4, <2>1 DEF AttendedInv, ClaimIsHeld, Owns
  <2>3. UnclaimedIsHeld(r)'
    BY <1>1, <1>2, <1>4, <2>1 DEF AttendedInv, UnclaimedIsHeld, HandedOver
  <2> QED  BY <2>2, <2>3
<1>7. ASSUME NEW e \in Executor PROVE ComesFromClaim(e)'
  BY <1>1, <1>4 DEF AttendedInv, ComesFromClaim, OwningPc
<1> QED  BY <1>5, <1>6, <1>7 DEF AttendedInv

LEMMA CancelAttended ==
    ASSUME AttendedInv, ExecutionInv', NEW q \in Query, CancelQuery(q)
    PROVE  AttendedInv'
<1>1. /\ TypeOK /\ RowTypeOK
      /\ NotPublishedYet(q) /\ NotClaimedYet(q) /\ ClaimIsHeld(q) /\ UnclaimedIsHeld(q)
  BY DEF AttendedInv, ExecutionInv, TypeOK
<1>2. /\ UNCHANGED <<deliveries, runVars>>
      /\ submitter' = submitter /\ target' = target /\ message' = message
      /\ pc' = pc /\ job' = job /\ deliveries' = deliveries
  BY DEF CancelQuery, submitVars, streamVars, runVars
<1>3. /\ status'[q] \in {status[q], "cancelled"}
      /\ \A r \in Query : r # q => status'[r] = status[r]
  BY <1>1, CancelEffect DEF CancelQuery, rowVars, RowTypeOK
<1>4. NotPublishedYet(q)' /\ NotClaimedYet(q)' /\ ClaimIsHeld(q)' /\ UnclaimedIsHeld(q)'
  BY <1>1, <1>2, <1>3
     DEF NotPublishedYet, NotClaimedYet, ClaimIsHeld, UnclaimedIsHeld, HandedOver, Owns
<1> QED  BY <1>2, <1>3, <1>4, OneQueryAttended DEF Live

LEMMA InitAttendedInv == Init => AttendedInv
<1> SUFFICES ASSUME Init PROVE AttendedInv
  OBVIOUS
<1>1. ExecutionInv
  BY InitExecutionInv
<1> QED
  BY <1>1 DEF Init, RowInit, AttendedInv, NotPublishedYet, NotClaimedYet,
              ClaimIsHeld, UnclaimedIsHeld, ComesFromClaim, OwningPc

LEMMA WorkAttendedInv == AttendedInv /\ [Work]_vars => AttendedInv'
<1> SUFFICES ASSUME AttendedInv, [Work]_vars PROVE AttendedInv'
  OBVIOUS
<1>1. ExecutionInv'
  BY NextExecutionInv DEF AttendedInv, Next
<1>2. CASE \E q \in Query : SubmitterAction(q)
  BY <1>1, <1>2, SubmitterAttended
<1>3. CASE \E q \in Query : RunInMainLoop(q)
  BY <1>1, <1>3, RunInMainLoopAttended
<1>4. CASE \E w \in Worker, q \in Query : Deliver(w, q)
  BY <1>1, <1>4, DeliverAttended
<1>5. CASE \E e \in Executor : Execution(e)
  BY <1>1, <1>5, ExecutionAttended
<1>6. CASE \E q \in Query : CancelQuery(q)
  BY <1>1, <1>6, CancelAttended
<1>7. CASE UNCHANGED <<rowVars, submitVars, streamVars, runVars>>
  BY <1>1, <1>7
     DEF rowVars, submitVars, streamVars, runVars, AttendedInv, NotPublishedYet,
         NotClaimedYet, ClaimIsHeld, UnclaimedIsHeld, HandedOver, Owns, ComesFromClaim
<1>8. (\E q \in Query : AgeRow(q)) \/ UNCHANGED vars
        => UNCHANGED <<rowVars, submitVars, streamVars, runVars>>
  BY DEF AgeRow, vars
<1> QED
  BY <1>2, <1>3, <1>4, <1>5, <1>6, <1>7, <1>8 DEF Work, Submission, SubmitterAction

(* As long as nothing is lost every running query has somebody who will    *)
(* end it, for any number of queries, workers and deliveries: what         *)
(* EventuallyTerminal needs besides the fairness of the processes.         *)
THEOREM NobodyIsForgotten == WorkSpec => []Attended
<1>1. AttendedInv => Attended
  BY DEF AttendedInv, Attended, ClaimIsHeld, UnclaimedIsHeld, HandedOver, Owns, Live
<1> QED  BY <1>1, InitAttendedInv, WorkAttendedInv, PTL DEF WorkSpec

(* Where an executor that goes on with its query may go on to.             *)
GoesForward(e) ==
    \/ pc'[e] = "idle"
    \/ /\ attempt'[e] = attempt[e]
       /\ <<pc[e], pc'[e]>> \in
             ({"read"} \X {"expire", "claim"})
             \union ({"claim"} \X {"build"})
             \union ({"build"} \X {"verify", "bind", "run"})
             \union ({"verify"} \X {"bind", "run"})
             \union ({"bind"} \X {"run", "landHit", "failed"})
             \union ({"run"} \X {"close", "failed"})
             \union ({"close"} \X {"land", "failed"})
             \union ({"land"} \X {"release"})
    \/ /\ attempt[e] # "warehouse" /\ attempt'[e] = "warehouse"
       /\ pc[e] \in {"release", "failed"} /\ pc'[e] = "run"

LEMMA ExecutorGoesForward ==
    ASSUME TypeOK, NEW e \in Executor, ExecutorAction(e)
    PROVE  GoesForward(e)
<1>1. pc \in [Executor -> ExecutorPc] /\ attempt \in [Executor -> Attempt]
  BY DEF TypeOK
<1>2. Settle(e) \/ Throw(e) => pc'[e] = "idle"
  BY <1>1 DEF Settle, Throw, StopExecutor
<1>3. \A p \in ExecutorPc : ExecutorTo(e, p) => pc'[e] = p
  BY <1>1 DEF ExecutorTo
<1>4. RunWarehouseInstead(e) => pc'[e] = "run" /\ attempt'[e] = "warehouse"
  BY <1>1 DEF RunWarehouseInstead
<1> USE DEF ExecutorPc, OwningPc
<1>5. CASE Read(e)
  BY <1>2, <1>3, <1>5 DEF Read, GoesForward
<1>6. CASE Claim(e)
  BY <1>2, <1>3, <1>6 DEF Claim, GoesForward
<1>7. CASE Build(e) \/ Verify(e)
  BY <1>3, <1>7 DEF Build, Verify, AfterVerify, GoesForward
<1>8. CASE Bind(e)
  BY <1>2, <1>3, <1>8 DEF Bind, GoesForward
<1>9. CASE Run(e) \/ Close(e) \/ CloseFails(e)
  BY <1>3, <1>9 DEF Run, Close, CloseFails, GoesForward
<1>10. CASE Land(e)
  BY <1>2, <1>3, <1>10 DEF Land, GoesForward
<1>11. CASE FallBack(e) \/ ReleaseFails(e)
  BY <1>2, <1>4, <1>11 DEF FallBack, ReleaseFails, MayFallBack, GoesForward
<1>12. CASE \/ ExpireInQueue(e) \/ BuildFails(e) \/ VerifyFails(e) \/ LandDuckdbHit(e)
            \/ Release(e) \/ FailRun(e) \/ BuildFailsUnreported(e)
            \/ VerifyFailsUnclaimed(e)
  BY <1>2, <1>12
     DEF ExpireInQueue, BuildFails, VerifyFails, LandDuckdbHit, Release, FailRun,
         BuildFailsUnreported, VerifyFailsUnclaimed, GoesForward
<1> QED
  BY <1>5, <1>6, <1>7, <1>8, <1>9, <1>10, <1>11, <1>12 DEF ExecutorAction, Execution

LEMMA ForwardIsShorter ==
    ASSUME TypeOK, NEW e \in Executor, pc[e] # "idle", GoesForward(e)
    PROVE  ToGo(e)' < ToGo(e)
<1>1. pc[e] \in ExecutorPc \ {"idle"}
  BY DEF TypeOK
<1>2. Stage[pc[e]] \in 1 .. 9
  BY <1>1 DEF Stage, ExecutorPc, OwningPc
<1>3. CASE pc'[e] = "idle"
  BY <1>2, <1>3 DEF ToGo, Stage
<1>4. CASE attempt'[e] = attempt[e] /\ pc'[e] # "idle"
  <2>1. Stage[pc'[e]] < Stage[pc[e]] /\ Stage[pc'[e]] \in Nat
    BY <1>4 DEF GoesForward, Stage
  <2> QED  BY <1>2, <1>4, <2>1 DEF ToGo
<1>5. CASE /\ attempt[e] # "warehouse" /\ attempt'[e] = "warehouse"
           /\ pc'[e] = "run"
  BY <1>2, <1>5 DEF ToGo, Stage
<1> QED  BY <1>3, <1>4, <1>5 DEF GoesForward

(* No executor does anything twice for one delivery of a query.            *)
THEOREM RunsEnd == Spec => RunsGetShorter
<1>1. ASSUME ExecutionInv, [Next]_vars, NEW e \in Executor, pc[e] # "idle",
             <<pc'[e], attempt'[e]>> # <<pc[e], attempt[e]>>
      PROVE  ToGo(e)' < ToGo(e)
  <2>1. TypeOK
    BY <1>1 DEF ExecutionInv
  <2>2. GoesForward(e)
    <3>1. CASE \E d \in Executor : ExecutorAction(d)
      <4>1. PICK d \in Executor : ExecutorAction(d) /\ ExecutorStep(d)
        BY <1>1, <3>1, ExecutorActionIsStep DEF ExecutionInv
      <4>2. d = e
        BY <1>1, <2>1, <4>1 DEF ExecutorStep, TypeOK
      <4> QED  BY <2>1, <4>1, <4>2, ExecutorGoesForward
    <3>2. CASE \E d \in Worker, r \in Query : Deliver(d, r)
      BY <1>1, <2>1, <3>2 DEF Deliver, StartRun, TypeOK
    <3>3. CASE \E r \in Query : RunInMainLoop(r)
      <4>1. PICK r \in Query : RunInMainLoop(r)
        BY <3>3
      <4>2. job[r] = NoQuery /\ r \in Executor
        BY <1>1, <4>1 DEF ExecutionInv, BeforeHandover, RunInMainLoop, Executor
      <4>3. r # e
        BY <1>1, <4>2 DEF ExecutionInv, WorkingHasJob
      <4> QED  BY <1>1, <2>1, <4>1, <4>3 DEF RunInMainLoop, StartRun, TypeOK
    <3>4. CASE \/ \E d \in Worker : CrashWorker(d)
               \/ \E r \in Query : CrashServer(r)
      <4>1. PICK d \in Executor : pc' = [pc EXCEPT ![d] = "idle"] /\ attempt' = attempt
        BY <3>4 DEF CrashWorker, CrashServer, StopExecutor, Executor
      <4> QED  BY <1>1, <2>1, <4>1 DEF TypeOK, GoesForward
    <3>5. CASE UNCHANGED runVars
      BY <1>1, <3>5 DEF runVars
    <3>6. (\E r \in Query : SubmitterAction(r)) => UNCHANGED runVars
      BY DEF SubmitterAction, Create, ClaimHit, LandHit, RejectPlan, Publish,
             PublishFails, MarkQueued, MarkEnqueueFailed
    <3>7. (\E r \in Query : CancelQuery(r) \/ AgeRow(r) \/ LoseMessage(r))
            => UNCHANGED runVars
      BY DEF CancelQuery, AgeRow, LoseMessage
    <3> QED
      BY <1>1, <3>1, <3>2, <3>3, <3>4, <3>5, <3>6, <3>7, NextIsOneOf DEF vars
  <2> QED  BY <1>1, <2>1, <2>2, ForwardIsShorter
<1>2. ExecutionInv /\ [Next]_vars =>
        [\A e \in Executor :
            pc[e] # "idle" /\ <<pc'[e], attempt'[e]>> # <<pc[e], attempt[e]>>
                => ToGo(e)' < ToGo(e)]_vars
  BY <1>1
<1> QED  BY <1>2, Invariance, PTL DEF Spec, RunsGetShorter
=============================================================================
