------------------------ MODULE ComposedQueriesProofs ------------------------
(***************************************************************************)
(* For any DAGs, loops and cancels. What makes the parts of the invariant  *)
(* go together is that few things are ever undone: a query that was        *)
(* submitted stays so, a row that was cancelled stays so, a row keeps the  *)
(* file it was answered with, and only an insert makes a row live.         *)
(***************************************************************************)
EXTENDS ComposedQueries, QueryHistoryProofs

(* A call knows a query that was submitted, and cascades over one that is  *)
(* cancelled.                                                              *)
Called ==
    \A c \in Canceller :
        /\ call[c] = "idle" <=> asked[c] = NoQuery
        /\ asked[c] # NoQuery => asked[c] \in Submitted
        /\ sawCancelled[c] \/ call[c] = "cascade" =>
              asked[c] \in Query /\ status[asked[c]] = "cancelled"

(* What waits, fetched or not, has been submitted; only a join waits for   *)
(* references.                                                             *)
HandedOn ==
    /\ \A e \in Executor : job[e] \in Query => node[job[e]] # "new"
    /\ \A i \in 1..Len(stream) : node[stream[i]] # "new"
    /\ \A e \in Executor : pc[e] \in {"wait", "recheck"} => job[e] \in Join

(* The references of a join are set once, with its row.                    *)
Fresh == \A j \in Join : node[j] = "new" => refs[j] = {}

(* Whoever got past the wait, and whoever was answered, read answers.      *)
Answers ==
    /\ \A j \in Join : \A r \in bound[j] : file[r] # NoFile
    /\ \A e \in Executor : pc[e] \in {"recheck", "run"} /\ job[e] \in Join =>
          \A r \in refs[job[e]] : file[r] # NoFile
    /\ \A j \in Join : status[j] = "ready" => \A r \in refs[j] : file[r] # NoFile

Stops ==
    /\ \A j \in stopped : status[j] = "cancelled"
    /\ StoppedNeverRuns

(* A join that is submitted after a cascade is counted as one it could not *)
(* see.                                                                    *)
Collateral ==
    /\ \A j \in Join, l \in cascaded : node[j] = "new" => <<j, l>> \in unseen
    /\ NoCollateral

(* A merge is submitted after its legs, so none of them starts after it    *)
(* was cancelled.                                                          *)
Whole ==
    /\ \A q \in Query : node[q] \notin {"new", "refused"} => Before[q] \subseteq Submitted
    /\ answered \subseteq Submitted
    /\ AnsweredCancelIsWhole

ComposedInv ==
    /\ TypeOK /\ RowInv /\ Called /\ HandedOn /\ Fresh
    /\ Answers /\ Stops /\ Collateral /\ Whole

LEMMA InitInv == Init => ComposedInv
<1> SUFFICES ASSUME Init PROVE ComposedInv
  OBVIOUS
<1> USE ComposedAssumption DEF Init
<1>1. RowInv
  BY RowInitInv
<1>2. TypeOK
  BY <1>1 DEF TypeOK, RowInv, Node
<1>3. \A q \in Query : status[q] = "none" /\ file[q] = NoFile
  BY DEF RowInit
<1>4. Called /\ HandedOn /\ Fresh /\ Answers
  BY <1>3 DEF Called, HandedOn, Fresh, Answers, Executor
<1>5. Stops /\ Collateral /\ Whole
  BY DEF Stops, StoppedNeverRuns, Collateral, NoCollateral, Whole, AnsweredCancelIsWhole
<1> QED BY <1>1, <1>2, <1>4, <1>5 DEF ComposedInv

-----------------------------------------------------------------------------
(* What a step does to the rows.                                           *)

Kept ==
    \A p \in Query :
        /\ status[p] = "cancelled" => status'[p] = "cancelled"
        /\ file[p] # NoFile => file'[p] # NoFile

NoneRevived == \A p \in Query : status'[p] \in Live => status[p] \in Live

NoneAnswered == \A p \in Query : status'[p] = "ready" => status[p] = "ready"

LEMMA UnchangedKeeps ==
    ASSUME RowInv, UNCHANGED rowVars
    PROVE  RowInv' /\ Kept /\ NoneRevived /\ NoneAnswered
BY DEF rowVars, RowInv, RowTypeOK, FileOnlyWithAnswer, Kept, NoneRevived, NoneAnswered

LEMMA InsertKeeps ==
    ASSUME RowInv, NEW q \in Query, Insert(q)
    PROVE  /\ RowInv' /\ Kept /\ NoneAnswered
           /\ \A p \in Query \ {q} : status'[p] = status[p]
<1>1. RowInv'
  BY StatementIsRowStep, RowStepInv DEF RowInv
<1> QED BY <1>1 DEF Insert, RowInv, RowTypeOK, Kept, NoneAnswered

LEMMA SetStatusKeeps ==
    ASSUME RowInv, NEW q \in Query, NEW STATE where,
           NEW s \in {"queued", "executing", "expired", "cancelled", "error"},
           SetStatus(q, where, s),
           where => \/ status[q] \in Live
                    \/ status[q] \in {"ready", "expired", "error"} /\ s = "error"
    PROVE  Kept /\ NoneRevived /\ NoneAnswered
<1>1. /\ \A p \in Query : status'[p] = IF p = q /\ where THEN s ELSE status[p]
      /\ file' = file
  BY DEF SetStatus, RowInv, RowTypeOK
<1> QED BY <1>1 DEF Kept, NoneRevived, NoneAnswered, Live

LEMMA UpdateKeeps ==
    ASSUME RowInv, NEW q \in Query,
           \/ UpdateToQueued(q)
           \/ UpdateToExecuting(q)
           \/ UpdateToExpired(q)
           \/ UpdateToCancelled(q)
           \/ UpdateToError(q)
    PROVE  RowInv' /\ Kept /\ NoneRevived /\ NoneAnswered
<1>0. status[q] \in Status
  BY DEF RowInv, RowTypeOK
<1>1. RowInv'
  BY StatementIsRowStep, RowStepInv DEF RowInv
<1>2. CASE UpdateToQueued(q)
  BY <1>1, <1>2, SetStatusKeeps DEF UpdateToQueued, MayQueue, Live
<1>3. CASE UpdateToExecuting(q)
  BY <1>1, <1>3, SetStatusKeeps DEF UpdateToExecuting, MayExecute, Live
<1>4. CASE UpdateToExpired(q)
  BY <1>1, <1>4, SetStatusKeeps DEF UpdateToExpired, MayExpire, Live
<1>5. CASE UpdateToCancelled(q)
  BY <1>1, <1>5, SetStatusKeeps DEF UpdateToCancelled, MayCancel, Live
<1>6. CASE UpdateToError(q)
  BY <1>0, <1>1, <1>6, SetStatusKeeps
     DEF UpdateToError, MayFail, Live, Terminal, Status
<1> QED BY <1>2, <1>3, <1>4, <1>5, <1>6

LEMMA AnswerKeeps ==
    ASSUME RowInv, NEW q \in Query, NEW f \in File, UpdateToReady(q, f)
    PROVE  /\ RowInv' /\ Kept /\ NoneRevived
           /\ \A p \in Query \ {q} : status'[p] = status[p]
<1>1. RowInv'
  BY StatementIsRowStep, RowStepInv DEF RowInv
<1>2. /\ \A p \in Query : status'[p] =
            IF p = q /\ MayAnswer(status[q]) THEN "ready" ELSE status[p]
      /\ \A p \in Query : file'[p] =
            IF p = q /\ MayAnswer(status[q]) THEN f ELSE file[p]
  BY DEF UpdateToReady, RowInv, RowTypeOK
<1> QED BY <1>1, <1>2, NoFileAssumption DEF Kept, NoneRevived, MayAnswer, Live

LEMMA CascadeKeeps ==
    ASSUME RowInv, NEW ended, \A l \in ended : Running(l),
           status' = [r \in Query |-> IF r \in ended THEN "cancelled" ELSE status[r]],
           UNCHANGED file
    PROVE  RowInv' /\ Kept /\ NoneRevived /\ NoneAnswered
<1>1. RowTypeOK'
  BY DEF RowInv, RowTypeOK, Status, Terminal
<1>2. FileOnlyWithAnswer'
  BY NoFileAssumption DEF RowInv, FileOnlyWithAnswer, Running, Live
<1>3. Kept /\ NoneRevived /\ NoneAnswered
  BY DEF Kept, NoneRevived, NoneAnswered, Live
<1> QED BY <1>1, <1>2, <1>3 DEF RowInv

(* Only an insert makes a row live, and only a run answers one.            *)
Rows ==
    /\ RowInv' /\ Kept
    /\ NoneRevived \/ \E q \in Query : CreateRow(q)
    /\ NoneAnswered \/ \E e \in Executor : Land(e)

LEMMA RowsStep ==
    ASSUME TypeOK, RowInv, Called, Next
    PROVE  Rows
<1>1. ASSUME NEW q \in Query, CreateRow(q) PROVE Rows
  BY <1>1, InsertKeeps DEF CreateRow, Rows
<1>2. ASSUME NEW q \in Query, WriteSpec(q) PROVE Rows
  BY <1>2, UnchangedKeeps DEF WriteSpec, Rows
<1>3. ASSUME NEW q \in Query, Publish(q) PROVE Rows
  BY <1>3, UnchangedKeeps DEF Publish, Rows
<1>4. ASSUME NEW q \in Query, PublishFails(q) PROVE Rows
  BY <1>4, UnchangedKeeps DEF PublishFails, Rows
<1>5. ASSUME NEW q \in Query, HandOver(q) PROVE Rows
  BY <1>5, UnchangedKeeps DEF HandOver, Rows
<1>6. ASSUME NEW q \in Query, MarkQueued(q) PROVE Rows
  BY <1>6, UpdateKeeps DEF MarkQueued, Rows
<1>7. ASSUME NEW q \in Query, MarkEnqueueFailed(q) PROVE Rows
  BY <1>7, UpdateKeeps DEF MarkEnqueueFailed, Rows
<1>8. ASSUME NEW q \in Query, Refuse(q) PROVE Rows
  BY <1>8, UnchangedKeeps DEF Refuse, Rows
<1>9. ASSUME NEW q \in Query, SubmissionDies(q) PROVE Rows
  BY <1>9, UnchangedKeeps DEF SubmissionDies, Rows
<1>10. ASSUME NEW s \in Slot, Take(s) PROVE Rows
  BY <1>10, UnchangedKeeps DEF Take, Rows
<1>11. ASSUME NEW e \in Executor, Claim(e) PROVE Rows
  <2>1. job[e] \in Query /\ UpdateToExecuting(job[e])
    BY <1>11 DEF Claim, TypeOK
  <2> QED BY <2>1, UpdateKeeps DEF Rows
<1>12. ASSUME NEW e \in Executor, ExpireQueued(e) PROVE Rows
  <2>1. job[e] \in Query /\ UpdateToExpired(job[e])
    BY <1>12 DEF ExpireQueued, TypeOK
  <2> QED BY <2>1, UpdateKeeps DEF Rows
<1>13. ASSUME NEW e \in Executor, BindReferences(e) PROVE Rows
  BY <1>13, UnchangedKeeps DEF BindReferences, Rows
<1>14. ASSUME NEW e \in Executor, Recheck(e) PROVE Rows
  BY <1>14, UnchangedKeeps DEF Recheck, Rows
<1>15. ASSUME NEW e \in Executor, Land(e) PROVE Rows
  <2>1. job[e] \in Query /\ job[e] \in File
    BY <1>15, ComposedAssumption DEF Land, TypeOK
  <2>2. CASE UpdateToReady(job[e], job[e])
    BY <1>15, <2>1, <2>2, AnswerKeeps DEF Rows
  <2>3. CASE UpdateToError(job[e])
    BY <2>1, <2>3, UpdateKeeps DEF Rows
  <2> QED BY <1>15, <2>2, <2>3 DEF Land
<1>16. ASSUME NEW e \in Executor, NEW r \in Query, SeeReference(e, r) PROVE Rows
  BY <1>16, UnchangedKeeps DEF SeeReference, Rows
<1>17. ASSUME NEW e \in Executor, NEW r \in Query, ReferenceFails(e, r) PROVE Rows
  <2>1. job[e] \in Query /\ UpdateToError(job[e])
    BY <1>17 DEF ReferenceFails, TypeOK
  <2> QED BY <2>1, UpdateKeeps DEF Rows
<1>18. ASSUME NEW e \in Executor, WaitFails(e) PROVE Rows
  <2>1. job[e] \in Query /\ UpdateToError(job[e])
    BY <1>18 DEF WaitFails, TypeOK
  <2> QED BY <2>1, UpdateKeeps DEF Rows
<1>19. ASSUME NEW e \in Executor, ExecutorDies(e) PROVE Rows
  BY <1>19, UnchangedKeeps DEF ExecutorDies, Rows
<1>20. ASSUME NEW c \in Canceller, CancelRow(c) PROVE Rows
  <2>1. asked[c] \in Query /\ UpdateToCancelled(asked[c])
    BY <1>20 DEF CancelRow, TypeOK, Called
  <2> QED BY <2>1, UpdateKeeps DEF Rows
<1>21. ASSUME NEW c \in Canceller, Cascade(c) PROVE Rows
  <2> DEFINE ended == {l \in OwnLegs(asked[c]) :
                          Running(l) /\ Readers(l) \subseteq {asked[c]}}
  <2>1. /\ status' = [r \in Query |-> IF r \in ended THEN "cancelled" ELSE status[r]]
        /\ UNCHANGED file
    BY <1>21 DEF Cascade
  <2>2. \A l \in ended : Running(l)
    OBVIOUS
  <2> HIDE DEF ended
  <2> QED BY <2>1, <2>2, CascadeKeeps DEF Rows
<1>22. ASSUME NEW c \in Canceller, CancelDies(c) PROVE Rows
  BY <1>22, UnchangedKeeps DEF CancelDies, Rows
<1>23. ASSUME NEW c \in Canceller, NEW q \in Query, ReadRow(c, q) PROVE Rows
  BY <1>23, UnchangedKeeps DEF ReadRow, Rows
<1> QED
  BY <1>1, <1>2, <1>3, <1>4, <1>5, <1>6, <1>7, <1>8, <1>9, <1>10, <1>11, <1>12, <1>13, <1>14, <1>15, <1>16, <1>17, <1>18, <1>19, <1>20, <1>21, <1>22, <1>23 DEF Next, Submits, Runs, Cancels

-----------------------------------------------------------------------------
(* What a step leaves alone, and what is never undone.                     *)

Changes ==
    /\ \A q \in Query :
          /\ node'[q] = "new" => node[q] = "new"
          /\ node[q] = "done" => node'[q] = "done"
          /\ node[q] \in {"new", "refused"} =>
                node'[q] \in {"new", "refused"} \/ CreateRow(q)
    /\ refs' = refs \/ \E q \in Query : CreateRow(q)
    /\ \/ UNCHANGED callVars
       \/ \E c \in Canceller :
             Cancels(c) \/ CancelDies(c) \/ \E q \in Query : ReadRow(c, q)
    /\ stopped' = stopped \/ \E c \in Canceller : CancelRow(c)
    /\ UNCHANGED cascadeVars \/ \E c \in Canceller : Cascade(c)

LEMMA ChangesStep ==
    ASSUME TypeOK, Next
    PROVE  Changes
<1> USE DEF TypeOK, callVars, cascadeVars, nodeVars, runVars, Cancels
<1>1. ASSUME NEW q \in Query, CreateRow(q) PROVE Changes
  BY <1>1 DEF CreateRow, Changes
<1>2. ASSUME NEW q \in Query, WriteSpec(q) PROVE Changes
  BY <1>2 DEF WriteSpec, Changes
<1>3. ASSUME NEW q \in Query, Publish(q) PROVE Changes
  BY <1>3 DEF Publish, Changes
<1>4. ASSUME NEW q \in Query, PublishFails(q) PROVE Changes
  BY <1>4 DEF PublishFails, Changes
<1>5. ASSUME NEW q \in Query, HandOver(q) PROVE Changes
  BY <1>5 DEF HandOver, Changes
<1>6. ASSUME NEW q \in Query, MarkQueued(q) PROVE Changes
  BY <1>6 DEF MarkQueued, Changes
<1>7. ASSUME NEW q \in Query, MarkEnqueueFailed(q) PROVE Changes
  BY <1>7 DEF MarkEnqueueFailed, Changes
<1>8. ASSUME NEW q \in Query, Refuse(q) PROVE Changes
  BY <1>8 DEF Refuse, Changes
<1>9. ASSUME NEW q \in Query, SubmissionDies(q) PROVE Changes
  BY <1>9 DEF SubmissionDies, Changes
<1>10. ASSUME NEW s \in Slot, Take(s) PROVE Changes
  BY <1>10 DEF Take, Changes
<1>11. ASSUME NEW e \in Executor, Claim(e) PROVE Changes
  BY <1>11 DEF Claim, Changes
<1>12. ASSUME NEW e \in Executor, ExpireQueued(e) PROVE Changes
  BY <1>12 DEF ExpireQueued, Changes
<1>13. ASSUME NEW e \in Executor, BindReferences(e) PROVE Changes
  BY <1>13 DEF BindReferences, Changes
<1>14. ASSUME NEW e \in Executor, Recheck(e) PROVE Changes
  BY <1>14 DEF Recheck, Changes
<1>15. ASSUME NEW e \in Executor, Land(e) PROVE Changes
  BY <1>15 DEF Land, Changes
<1>16. ASSUME NEW e \in Executor, NEW r \in Query, SeeReference(e, r) PROVE Changes
  BY <1>16 DEF SeeReference, Changes
<1>17. ASSUME NEW e \in Executor, NEW r \in Query, ReferenceFails(e, r) PROVE Changes
  BY <1>17 DEF ReferenceFails, Changes
<1>18. ASSUME NEW e \in Executor, WaitFails(e) PROVE Changes
  BY <1>18 DEF WaitFails, Changes
<1>19. ASSUME NEW e \in Executor, ExecutorDies(e) PROVE Changes
  BY <1>19 DEF ExecutorDies, Changes
<1>20. ASSUME NEW c \in Canceller, CancelRow(c) PROVE Changes
  BY <1>20 DEF CancelRow, Changes
<1>21. ASSUME NEW c \in Canceller, Cascade(c) PROVE Changes
  BY <1>21 DEF Cascade, Changes
<1>22. ASSUME NEW c \in Canceller, CancelDies(c) PROVE Changes
  BY <1>22 DEF CancelDies, Changes
<1>23. ASSUME NEW c \in Canceller, NEW q \in Query, ReadRow(c, q) PROVE Changes
  BY <1>23 DEF ReadRow, Changes
<1> QED
  BY <1>1, <1>2, <1>3, <1>4, <1>5, <1>6, <1>7, <1>8, <1>9, <1>10, <1>11, <1>12, <1>13, <1>14, <1>15, <1>16, <1>17, <1>18, <1>19, <1>20, <1>21, <1>22, <1>23 DEF Next, Submits, Runs, Cancels

(* The part of TypeOK that is about the executors.                         *)
RunTypeOK ==
    /\ pc \in [Executor -> {"idle", "claim", "wait", "recheck", "run"}]
    /\ job \in [Executor -> Query \union {NoQuery}]
    /\ \A e \in Executor : pc[e] = "idle" <=> job[e] = NoQuery
    /\ bound \in [Join -> SUBSET Query]
    /\ \A j \in Join : bound[j] \subseteq refs[j]

LEMMA FinishTypes ==
    ASSUME TypeOK, NEW e \in Executor, Finish(e), refs' = refs
    PROVE  RunTypeOK'
BY DEF TypeOK, Finish, RunTypeOK

LEMMA TypeStep ==
    ASSUME TypeOK, RowInv, Called, HandedOn, Fresh, Next
    PROVE  TypeOK'
<1> USE DEF TypeOK, Node, rowVars, nodeVars, runVars, callVars, cascadeVars
<1>0. RowTypeOK'
  BY RowsStep DEF Rows, RowInv
<1>1. ASSUME NEW q \in Query, CreateRow(q) PROVE TypeOK'
  BY <1>1, <1>0, ComposedAssumption DEF CreateRow, Submitted, Fresh, Insert
<1>2. ASSUME NEW q \in Query, WriteSpec(q) PROVE TypeOK'
  BY <1>2, <1>0 DEF WriteSpec
<1>3. ASSUME NEW q \in Query, Publish(q) PROVE TypeOK'
  BY <1>3, <1>0 DEF Publish
<1>4. ASSUME NEW q \in Query, PublishFails(q) PROVE TypeOK'
  BY <1>4, <1>0 DEF PublishFails
<1>5. ASSUME NEW q \in Query, HandOver(q) PROVE TypeOK'
  <2>1. q \in Executor
    BY DEF Executor
  <2>2. PICK start \in {"claim", "run"} :
          /\ pc' = [pc EXCEPT ![q] = start]
          /\ \E next \in {"published", "done"} : node' = [node EXCEPT ![q] = next]
    BY <1>5 DEF HandOver
  <2>3. job' = [job EXCEPT ![q] = q] /\ UNCHANGED <<bound, refs>>
    BY <1>5 DEF HandOver
  <2>4. RunTypeOK'
    BY <2>1, <2>2, <2>3, ComposedAssumption DEF RunTypeOK
  <2> QED BY <1>5, <2>2, <2>4, <1>0 DEF HandOver, RunTypeOK
<1>6. ASSUME NEW q \in Query, MarkQueued(q) PROVE TypeOK'
  BY <1>6, <1>0 DEF MarkQueued
<1>7. ASSUME NEW q \in Query, MarkEnqueueFailed(q) PROVE TypeOK'
  BY <1>7, <1>0 DEF MarkEnqueueFailed
<1>8. ASSUME NEW q \in Query, Refuse(q) PROVE TypeOK'
  BY <1>8, <1>0 DEF Refuse
<1>9. ASSUME NEW q \in Query, SubmissionDies(q) PROVE TypeOK'
  <2>1. node' = [node EXCEPT ![q] = node'[q]] /\ node'[q] \in Node
    BY <1>9 DEF SubmissionDies
  <2> QED BY <1>9, <2>1, <1>0, ComposedAssumption DEF SubmissionDies
<1>10. ASSUME NEW s \in Slot, Take(s) PROVE TypeOK'
  <2>1. s \in Executor /\ Head(stream) \in Query /\ Tail(stream) \in Seq(Query)
    BY <1>10 DEF Take, Executor
  <2>2. RunTypeOK'
    BY <1>10, <2>1, ComposedAssumption DEF Take, RunTypeOK
  <2> QED BY <1>10, <2>1, <2>2, <1>0 DEF Take, RunTypeOK
<1>11. ASSUME NEW e \in Executor, Claim(e) PROVE TypeOK'
  <2>1. refs' = refs
    BY <1>11 DEF Claim
  <2>2. ASSUME ~MayExecute(status[job[e]]) PROVE RunTypeOK'
    BY <1>11, <2>1, <2>2, FinishTypes DEF Claim
  <2>3. ASSUME MayExecute(status[job[e]]) PROVE RunTypeOK'
    BY <1>11, <2>1, <2>3 DEF Claim, RunTypeOK
  <2>4. RunTypeOK'
    BY <2>2, <2>3
  <2> QED BY <1>11, <2>4, <1>0 DEF Claim, RunTypeOK
<1>12. ASSUME NEW e \in Executor, ExpireQueued(e) PROVE TypeOK'
  <2>1. Finish(e) /\ refs' = refs
    BY <1>12 DEF ExpireQueued
  <2>2. RunTypeOK'
    BY <2>1, FinishTypes
  <2> QED BY <1>12, <2>2, <1>0 DEF ExpireQueued, RunTypeOK
<1>13. ASSUME NEW e \in Executor, BindReferences(e) PROVE TypeOK'
  BY <1>13, <1>0 DEF BindReferences
<1>14. ASSUME NEW e \in Executor, Recheck(e) PROVE TypeOK'
  <2>1. refs' = refs
    BY <1>14 DEF Recheck
  <2>2. ASSUME status[job[e]] = "cancelled" PROVE RunTypeOK'
    BY <1>14, <2>1, <2>2, FinishTypes DEF Recheck
  <2>3. ASSUME status[job[e]] # "cancelled" PROVE RunTypeOK'
    BY <1>14, <2>1, <2>3 DEF Recheck, RunTypeOK
  <2>4. RunTypeOK'
    BY <2>2, <2>3
  <2> QED BY <1>14, <2>4, <1>0 DEF Recheck, RunTypeOK
<1>15. ASSUME NEW e \in Executor, Land(e) PROVE TypeOK'
  <2>1. Finish(e) /\ refs' = refs
    BY <1>15 DEF Land
  <2>2. RunTypeOK'
    BY <2>1, FinishTypes
  <2> QED BY <1>15, <2>2, <1>0 DEF Land, RunTypeOK
<1>16. ASSUME NEW e \in Executor, NEW r \in Query, SeeReference(e, r) PROVE TypeOK'
  BY <1>16, <1>0 DEF SeeReference, HandedOn
<1>17. ASSUME NEW e \in Executor, NEW r \in Query, ReferenceFails(e, r) PROVE TypeOK'
  <2>1. Finish(e) /\ refs' = refs
    BY <1>17 DEF ReferenceFails
  <2>2. RunTypeOK'
    BY <2>1, FinishTypes
  <2> QED BY <1>17, <2>2, <1>0 DEF ReferenceFails, RunTypeOK
<1>18. ASSUME NEW e \in Executor, WaitFails(e) PROVE TypeOK'
  <2>1. Finish(e) /\ refs' = refs
    BY <1>18 DEF WaitFails
  <2>2. RunTypeOK'
    BY <2>1, FinishTypes
  <2> QED BY <1>18, <2>2, <1>0 DEF WaitFails, RunTypeOK
<1>19. ASSUME NEW e \in Executor, ExecutorDies(e) PROVE TypeOK'
  <2>1. Finish(e) /\ refs' = refs
    BY <1>19 DEF ExecutorDies
  <2>2. RunTypeOK'
    BY <2>1, FinishTypes
  <2> QED BY <1>19, <2>2, <1>0, ComposedAssumption DEF ExecutorDies, RunTypeOK
<1>20. ASSUME NEW c \in Canceller, CancelRow(c) PROVE TypeOK'
  <2>1. stopped' \subseteq Join
    BY <1>20 DEF CancelRow, NoteStopped
  <2>2. /\ call' \in [Canceller -> {"idle", "update", "cascade"}]
        /\ asked' \in [Canceller -> Query \union {NoQuery}]
        /\ sawCancelled' \in [Canceller -> BOOLEAN]
    BY <1>20 DEF CancelRow, Return
  <2> QED BY <1>20, <2>1, <2>2, <1>0 DEF CancelRow, RunTypeOK
<1>21. ASSUME NEW c \in Canceller, Cascade(c) PROVE TypeOK'
  <2> DEFINE running == {l \in OwnLegs(asked[c]) : Running(l)}
             ended == {l \in running : Readers(l) \subseteq {asked[c]}}
  <2>1. asked[c] \in Query
    BY <1>21 DEF Cascade, Called
  <2>2. OwnLegs(asked[c]) \subseteq Query
    BY <2>1, ComposedAssumption DEF OwnLegs
  <2>3. /\ cascaded' = cascaded \union ended
        /\ left' = left \union (running \ ended)
        /\ unseen' = unseen \union ({j \in Join : node[j] \in Unwritten} \X ended)
        /\ answered' \subseteq answered \union {asked[c]}
        /\ Return(c)
        /\ UNCHANGED <<nodeVars, runVars, lost, stopped>>
    BY <1>21 DEF Cascade
  <2>4. running \subseteq Query /\ ended \subseteq Query
    BY <2>2
  <2> HIDE DEF running, ended
  <2>5. cascaded' \subseteq Query /\ left' \subseteq Query /\ answered' \subseteq Query
    BY <2>1, <2>3, <2>4
  <2>6. unseen' \subseteq Join \X Query
    BY <2>3, <2>4
  <2>7. /\ call' \in [Canceller -> {"idle", "update", "cascade"}]
        /\ asked' \in [Canceller -> Query \union {NoQuery}]
        /\ sawCancelled' \in [Canceller -> BOOLEAN]
    BY <2>3 DEF Return
  <2> QED BY <2>3, <2>5, <2>6, <2>7, <1>0 DEF RunTypeOK
<1>22. ASSUME NEW c \in Canceller, CancelDies(c) PROVE TypeOK'
  BY <1>22, <1>0 DEF CancelDies, Return
<1>23. ASSUME NEW c \in Canceller, NEW q \in Query, ReadRow(c, q) PROVE TypeOK'
  BY <1>23, <1>0 DEF ReadRow, Submitted
<1> QED
  BY <1>1, <1>2, <1>3, <1>4, <1>5, <1>6, <1>7, <1>8, <1>9, <1>10, <1>11, <1>12, <1>13, <1>14, <1>15, <1>16, <1>17, <1>18, <1>19, <1>20, <1>21, <1>22, <1>23 DEF Next, Submits, Runs, Cancels

-----------------------------------------------------------------------------
(* The parts of the invariant.                                             *)

LEMMA CalledStep ==
    ASSUME TypeOK, RowInv, Called, Next
    PROVE  Called'
<1>1. Kept /\ Changes
  BY RowsStep, ChangesStep DEF Rows
<1>2. Submitted \subseteq Submitted'
  BY <1>1 DEF Changes, Submitted
<1> USE DEF TypeOK, Called
<1>3. ASSUME UNCHANGED callVars PROVE Called'
  BY <1>1, <1>2, <1>3 DEF Kept, callVars
<1>4. ASSUME NEW c \in Canceller, NEW q \in Query, ReadRow(c, q) PROVE Called'
  <2>1. Submitted' = Submitted /\ status' = status
    BY <1>4 DEF ReadRow, nodeVars, rowVars, Submitted
  <2> QED BY <1>4, <2>1, ComposedAssumption DEF ReadRow
<1>5. ASSUME NEW c \in Canceller, Return(c) PROVE Called'
  BY <1>1, <1>2, <1>5 DEF Return, Kept
<1>6. ASSUME NEW c \in Canceller, CancelRow(c) PROVE Called'
  <2>1. asked[c] \in Query
    BY <1>6 DEF CancelRow
  <2>2. CASE MayCancel(status[asked[c]]) \/ sawCancelled[c]
    <3>1. status'[asked[c]] = "cancelled"
      BY <1>6, <1>1, <2>1, <2>2 DEF CancelRow, UpdateToCancelled, SetStatus, RowTypeOK, Kept
    <3> QED BY <1>6, <1>1, <1>2, <2>1, <2>2, <3>1 DEF CancelRow, Kept
  <2>3. CASE ~(MayCancel(status[asked[c]]) \/ sawCancelled[c])
    BY <1>6, <1>5, <2>3 DEF CancelRow
  <2> QED BY <2>2, <2>3
<1>7. ASSUME NEW c \in Canceller, Cascade(c) \/ CancelDies(c) PROVE Called'
  BY <1>5, <1>7 DEF Cascade, CancelDies
<1> QED BY <1>1, <1>3, <1>4, <1>6, <1>7 DEF Changes, Cancels

LEMMA HandedOnStep ==
    ASSUME TypeOK, HandedOn, Next
    PROVE  HandedOn'
<1> USE DEF TypeOK, HandedOn, rowVars, nodeVars, runVars
<1>1. \A q \in Query : node'[q] = "new" => node[q] = "new"
  BY ChangesStep DEF Changes
<1>2. ASSUME UNCHANGED <<stream, pc, job>> PROVE HandedOn'
  BY <1>1, <1>2
<1>3. ASSUME NEW e \in Executor, Finish(e), UNCHANGED nodeVars PROVE HandedOn'
  BY <1>3, ComposedAssumption DEF Finish
<1>4. ASSUME NEW q \in Query, Publish(q) PROVE HandedOn'
  <2>1. node'[q] # "new"
    BY <1>4 DEF Publish
  <2>2. stream' = Append(stream, q) /\ UNCHANGED <<pc, job>>
    BY <1>4 DEF Publish
  <2>3. \A i \in 1..Len(stream') : stream'[i] = q \/ (i \in 1..Len(stream) /\ stream'[i] = stream[i])
    BY <2>2
  <2>4. \A i \in 1..Len(stream) : stream[i] \in Query
    OBVIOUS
  <2> QED BY <1>1, <2>1, <2>2, <2>3, <2>4
<1>5. ASSUME NEW q \in Query, HandOver(q) PROVE HandedOn'
  <2>1. node'[q] # "new" /\ stream' = stream /\ q \in Executor
    BY <1>5 DEF HandOver, Executor
  <2>2. \A e \in Executor : e # q => pc'[e] = pc[e] /\ job'[e] = job[e]
    BY <1>5 DEF HandOver
  <2>3. job'[q] = q /\ pc'[q] \in {"claim", "run"}
    BY <1>5, <2>1 DEF HandOver
  <2>4. \A i \in 1..Len(stream) : stream[i] \in Query
    OBVIOUS
  <2> QED BY <1>1, <2>1, <2>2, <2>3, <2>4
<1>6. ASSUME NEW s \in Slot, Take(s) PROVE HandedOn'
  <2>1. s \in Executor /\ stream # <<>> /\ stream' = Tail(stream) /\ node' = node
    BY <1>6 DEF Take, Executor
  <2>2. Head(stream) = stream[1] /\ 1 \in 1..Len(stream)
    BY <2>1
  <2>3. \A i \in 1..Len(stream') : i + 1 \in 1..Len(stream) /\ stream'[i] = stream[i + 1]
    BY <2>1
  <2>4. \A e \in Executor : e # s => pc'[e] = pc[e] /\ job'[e] = job[e]
    BY <1>6 DEF Take
  <2>5. job'[s] = Head(stream) /\ pc'[s] = "claim"
    BY <1>6, <2>1 DEF Take
  <2>6. node[job'[s]] # "new"
    BY <2>2, <2>5
  <2>7. \A e \in Executor : job'[e] \in Query => node'[job'[e]] # "new"
    BY <2>1, <2>4, <2>6
  <2>8. \A i \in 1..Len(stream') : node'[stream'[i]] # "new"
    BY <2>1, <2>3
  <2>9. \A e \in Executor : pc'[e] \in {"wait", "recheck"} => job'[e] \in Join
    BY <2>4, <2>5
  <2> QED BY <2>7, <2>8, <2>9
<1>7. ASSUME NEW e \in Executor, Claim(e) \/ BindReferences(e) \/ Recheck(e) PROVE HandedOn'
  BY <1>3, <1>7 DEF Claim, BindReferences, Recheck
<1>8. ASSUME NEW e \in Executor, ExpireQueued(e) \/ Land(e) \/ WaitFails(e) \/ ExecutorDies(e)
      PROVE HandedOn'
  BY <1>3, <1>8 DEF ExpireQueued, Land, WaitFails, ExecutorDies
<1>9. ASSUME NEW e \in Executor, NEW r \in Query, SeeReference(e, r) \/ ReferenceFails(e, r)
      PROVE HandedOn'
  BY <1>2, <1>3, <1>9 DEF SeeReference, ReferenceFails
<1>10. ASSUME NEW q \in Query, \/ CreateRow(q) \/ WriteSpec(q) \/ PublishFails(q) \/ MarkQueued(q)
                              \/ MarkEnqueueFailed(q) \/ Refuse(q) \/ SubmissionDies(q)
       PROVE HandedOn'
  BY <1>2, <1>10
     DEF CreateRow, WriteSpec, PublishFails, MarkQueued, MarkEnqueueFailed, Refuse, SubmissionDies
<1>11. ASSUME NEW c \in Canceller, \/ Cancels(c) \/ CancelDies(c)
                                   \/ \E q \in Query : ReadRow(c, q)
       PROVE HandedOn'
  BY <1>2, <1>11 DEF Cancels, CancelRow, Cascade, CancelDies, ReadRow
<1> QED
  BY <1>4, <1>5, <1>6, <1>7, <1>8, <1>9, <1>10, <1>11 DEF Next, Submits, Runs

LEMMA FreshStep ==
    ASSUME TypeOK, Fresh, Next
    PROVE  Fresh'
<1>1. Changes
  BY ChangesStep
<1>2. ASSUME NEW q \in Query, CreateRow(q) PROVE Fresh'
  BY <1>2 DEF CreateRow, Fresh, TypeOK
<1> QED BY <1>1, <1>2, ComposedAssumption DEF Changes, Fresh

LEMMA AnswersStep ==
    ASSUME TypeOK, RowInv, Called, HandedOn, Fresh, Answers, Next
    PROVE  Answers'
<1> USE DEF TypeOK, Answers, rowVars, nodeVars, runVars
<1>0. Join \subseteq Query
  BY ComposedAssumption
<1> USE <1>0
<1>1. Kept /\ (NoneAnswered \/ \E e \in Executor : Land(e))
  BY RowsStep DEF Rows
<1>2. ASSUME NoneAnswered, UNCHANGED <<refs, runVars>> PROVE Answers'
  BY <1>1, <1>2 DEF Kept, NoneAnswered
<1>3. ASSUME NoneAnswered, NEW e \in Executor, Finish(e), refs' = refs PROVE Answers'
  BY <1>1, <1>3 DEF Finish, Kept, NoneAnswered
<1>4. ASSUME NEW q \in Query, CreateRow(q) PROVE Answers'
  <2>1. UNCHANGED runVars /\ node[q] = "new" /\ Insert(q) /\ NoneAnswered
    BY <1>4, InsertKeeps DEF CreateRow
  <2>2. \A j \in Join : j # q => refs'[j] = refs[j]
    BY <1>4 DEF CreateRow
  <2>3. \A e \in Executor : job[e] # q
    BY <2>1 DEF HandedOn
  <2>4. \A j \in Join : j = q => bound[j] = {}
    BY <2>1 DEF Fresh
  <2>5. status'[q] = "pending"
    BY <2>1 DEF Insert, RowTypeOK
  <2> QED BY <1>1, <2>1, <2>2, <2>3, <2>4, <2>5 DEF Kept, NoneAnswered
<1>5. ASSUME NEW e \in Executor, NEW r \in Query, SeeReference(e, r) PROVE Answers'
  <2>1. file[r] # NoFile /\ job[e] \in Join
    BY <1>5, NoFileAssumption
       DEF SeeReference, Completed, RowInv, FileOnlyWithAnswer, HandedOn
  <2>2. /\ bound'[job[e]] = bound[job[e]] \union {r}
        /\ \A j \in Join : j # job[e] => bound'[j] = bound[j]
    BY <1>5, <2>1 DEF SeeReference
  <2> QED BY <1>1, <1>5, <2>1, <2>2 DEF SeeReference, Kept
<1>6. ASSUME NEW e \in Executor, BindReferences(e) PROVE Answers'
  <2>1. \A r \in refs[job[e]] : file[r] # NoFile
    BY <1>6 DEF BindReferences, HandedOn
  <2> QED BY <1>1, <1>6, <2>1 DEF BindReferences, Kept
<1>7. ASSUME NEW e \in Executor, NoneAnswered, Recheck(e) PROVE Answers'
  <2>1. CASE status[job[e]] = "cancelled"
    BY <1>3, <1>7, <2>1 DEF Recheck
  <2>2. CASE status[job[e]] # "cancelled"
    BY <1>1, <1>7, <2>2 DEF Recheck, Kept, NoneAnswered
  <2> QED BY <2>1, <2>2
<1>8. ASSUME NEW e \in Executor, NoneAnswered, Claim(e) PROVE Answers'
  <2>1. CASE MayExecute(status[job[e]])
    BY <1>1, <1>8, <2>1 DEF Claim, Kept, NoneAnswered
  <2>2. CASE ~MayExecute(status[job[e]])
    BY <1>3, <1>8, <2>2 DEF Claim
  <2> QED BY <2>1, <2>2
<1>9. ASSUME NEW q \in Query, NoneAnswered, HandOver(q) PROVE Answers'
  <2>1. q \in Executor /\ UNCHANGED <<refs, bound>>
    BY <1>9 DEF HandOver, Executor
  <2>2. \A e \in Executor : e # q => pc'[e] = pc[e] /\ job'[e] = job[e]
    BY <1>9 DEF HandOver
  <2>3. job'[q] = q /\ (q \in Join => pc'[q] = "claim")
    BY <1>9, <2>1 DEF HandOver
  <2> QED BY <1>1, <1>9, <2>1, <2>2, <2>3 DEF Kept, NoneAnswered
<1>10. ASSUME NEW s \in Slot, NoneAnswered, Take(s) PROVE Answers'
  <2>1. UNCHANGED <<refs, bound>> /\ pc'[s] = "claim"
    BY <1>10 DEF Take, Executor
  <2>2. \A e \in Executor : e # s => pc'[e] = pc[e] /\ job'[e] = job[e]
    BY <1>10 DEF Take
  <2> QED BY <1>1, <1>10, <2>1, <2>2 DEF Kept, NoneAnswered
<1>11. ASSUME NEW e \in Executor, Land(e) PROVE Answers'
  <2>1. pc[e] = "run" /\ job[e] \in Query /\ Finish(e) /\ refs' = refs
    BY <1>11 DEF Land
  <2>2. \A p \in Query : p # job[e] /\ status'[p] = "ready" => status[p] = "ready"
    BY <1>11, <2>1, AnswerKeeps, UpdateKeeps, ComposedAssumption DEF Land, NoneAnswered
  <2>3. job[e] \in Join => \A r \in refs[job[e]] : file'[r] # NoFile
    BY <1>1, <2>1 DEF Kept
  <2> QED BY <1>1, <2>1, <2>2, <2>3, ComposedAssumption DEF Finish, Kept
<1>12. ASSUME NEW e \in Executor, NoneAnswered,
              \/ ExpireQueued(e) \/ WaitFails(e) \/ ExecutorDies(e)
              \/ \E r \in Query : ReferenceFails(e, r)
       PROVE Answers'
  BY <1>3, <1>12 DEF ExpireQueued, WaitFails, ExecutorDies, ReferenceFails
<1>13. ASSUME NEW q \in Query, NoneAnswered,
              \/ WriteSpec(q) \/ Publish(q) \/ PublishFails(q) \/ MarkQueued(q)
              \/ MarkEnqueueFailed(q) \/ Refuse(q) \/ SubmissionDies(q)
       PROVE Answers'
  BY <1>2, <1>13
     DEF WriteSpec, Publish, PublishFails, MarkQueued, MarkEnqueueFailed, Refuse, SubmissionDies
<1>14. ASSUME NEW c \in Canceller, NoneAnswered,
              Cancels(c) \/ CancelDies(c) \/ \E q \in Query : ReadRow(c, q)
       PROVE Answers'
  BY <1>2, <1>14 DEF Cancels, CancelRow, Cascade, CancelDies, ReadRow
<1> QED
  BY <1>1, <1>4, <1>5, <1>6, <1>7, <1>8, <1>9, <1>10, <1>11, <1>12, <1>13, <1>14
     DEF Next, Submits, Runs

LEMMA StopsStep ==
    ASSUME TypeOK, RowInv, Called, HandedOn, Stops, Next
    PROVE  Stops'
<1> USE DEF TypeOK, Stops, StoppedNeverRuns, rowVars, nodeVars, runVars
<1>1. Kept /\ Changes
  BY RowsStep, ChangesStep DEF Rows
<1>2. ASSUME UNCHANGED <<stopped, pc, job>> PROVE Stops'
  BY <1>1, <1>2, ComposedAssumption DEF Kept
<1>3. ASSUME NEW e \in Executor, Finish(e), stopped' = stopped PROVE Stops'
  BY <1>1, <1>3, ComposedAssumption DEF Finish, Kept
<1>4. ASSUME NEW c \in Canceller, CancelRow(c) PROVE Stops'
  <2>1. asked[c] \in Query /\ UNCHANGED runVars
    BY <1>4 DEF CancelRow, Called
  <2>2. CASE stopped' = stopped
    BY <1>2, <2>1, <2>2
  <2>3. CASE stopped' # stopped
    <3>1. /\ MayCancel(status[asked[c]]) /\ stopped' = stopped \union {asked[c]}
          /\ ~\E e \in Executor : job[e] = asked[c] /\ pc[e] \in {"recheck", "run"}
      BY <1>4, <2>3 DEF CancelRow, NoteStopped
    <3>2. status'[asked[c]] = "cancelled"
      BY <1>4, <2>1, <3>1 DEF CancelRow, UpdateToCancelled, SetStatus, RowTypeOK
    <3> QED BY <1>1, <2>1, <3>1, <3>2, ComposedAssumption DEF Kept
  <2> QED BY <2>2, <2>3
<1>5. ASSUME NEW e \in Executor, Claim(e) PROVE Stops'
  <2>1. CASE MayExecute(status[job[e]])
    <3>1. job[e] \notin stopped
      BY <2>1 DEF MayExecute
    <3> QED BY <1>1, <1>5, <2>1, <3>1, ComposedAssumption DEF Claim, Kept
  <2>2. CASE ~MayExecute(status[job[e]])
    BY <1>3, <1>5, <2>2 DEF Claim
  <2> QED BY <2>1, <2>2
<1>6. ASSUME NEW e \in Executor, Recheck(e) PROVE Stops'
  <2>1. CASE status[job[e]] # "cancelled"
    BY <1>1, <1>6, <2>1, ComposedAssumption DEF Recheck, Kept
  <2>2. CASE status[job[e]] = "cancelled"
    BY <1>3, <1>6, <2>2 DEF Recheck
  <2> QED BY <2>1, <2>2
<1>7. ASSUME NEW e \in Executor, BindReferences(e) PROVE Stops'
  BY <1>1, <1>7, ComposedAssumption DEF BindReferences, Kept
<1>8. ASSUME NEW q \in Query, HandOver(q) PROVE Stops'
  <2>1. q \in Executor /\ stopped' = stopped
    BY <1>8 DEF HandOver, Executor
  <2>2. \A e \in Executor : e # q => pc'[e] = pc[e] /\ job'[e] = job[e]
    BY <1>8 DEF HandOver
  <2>3. job'[q] = q /\ (q \in Join => pc'[q] = "claim")
    BY <1>8, <2>1 DEF HandOver
  <2> QED BY <1>1, <2>1, <2>2, <2>3, ComposedAssumption DEF Kept
<1>9. ASSUME NEW s \in Slot, Take(s) PROVE Stops'
  <2>1. stopped' = stopped /\ pc'[s] = "claim"
    BY <1>9 DEF Take, Executor
  <2>2. \A e \in Executor : e # s => pc'[e] = pc[e] /\ job'[e] = job[e]
    BY <1>9 DEF Take
  <2> QED BY <1>1, <2>1, <2>2, ComposedAssumption DEF Kept
<1>10. ASSUME NEW e \in Executor,
              \/ ExpireQueued(e) \/ WaitFails(e) \/ ExecutorDies(e) \/ Land(e)
              \/ \E r \in Query : ReferenceFails(e, r)
       PROVE Stops'
  BY <1>3, <1>10 DEF ExpireQueued, WaitFails, ExecutorDies, Land, ReferenceFails
<1>11. ASSUME NEW e \in Executor, NEW r \in Query, SeeReference(e, r) PROVE Stops'
  BY <1>2, <1>11 DEF SeeReference
<1>12. ASSUME NEW q \in Query,
              \/ CreateRow(q) \/ WriteSpec(q) \/ Publish(q) \/ PublishFails(q) \/ MarkQueued(q)
              \/ MarkEnqueueFailed(q) \/ Refuse(q) \/ SubmissionDies(q)
       PROVE Stops'
  BY <1>2, <1>12
     DEF CreateRow, WriteSpec, Publish, PublishFails, MarkQueued, MarkEnqueueFailed, Refuse,
         SubmissionDies
<1>13. ASSUME NEW c \in Canceller, Cascade(c) \/ CancelDies(c) \/ \E q \in Query : ReadRow(c, q)
       PROVE Stops'
  BY <1>2, <1>13 DEF Cascade, CancelDies, ReadRow
<1> QED
  BY <1>4, <1>5, <1>6, <1>7, <1>8, <1>9, <1>10, <1>11, <1>12, <1>13
     DEF Next, Submits, Runs, Cancels

(* What a cascade writes, with its two sets named.                         *)
LEMMA CascadeEffect ==
    ASSUME RowTypeOK, Called, NEW c \in Canceller, Cascade(c)
    PROVE  \E running, ended :
              /\ running = {l \in OwnLegs(asked[c]) : Running(l)}
              /\ ended = {l \in running : Readers(l) \subseteq {asked[c]}}
              /\ \A p \in Query : status'[p] = IF p \in ended THEN "cancelled" ELSE status[p]
              /\ cascaded' = cascaded \union ended
              /\ left' = left \union (running \ ended)
              /\ unseen' = unseen \union ({j \in Join : node[j] \in Unwritten} \X ended)
              /\ answered' \subseteq answered \union {asked[c]}
              /\ asked[c] \in Submitted /\ status[asked[c]] = "cancelled"
              /\ node' = node /\ refs' = refs
<1> DEFINE running == {l \in OwnLegs(asked[c]) : Running(l)}
           ended == {l \in running : Readers(l) \subseteq {asked[c]}}
<1>1. asked[c] \in Submitted /\ status[asked[c]] = "cancelled"
  BY ComposedAssumption DEF Cascade, Called, Submitted
<1>2. /\ status' = [r \in Query |-> IF r \in ended THEN "cancelled" ELSE status[r]]
      /\ cascaded' = cascaded \union ended
      /\ left' = left \union (running \ ended)
      /\ unseen' = unseen \union ({j \in Join : node[j] \in Unwritten} \X ended)
      /\ answered' \subseteq answered \union {asked[c]}
      /\ UNCHANGED nodeVars
  BY DEF Cascade
<1> HIDE DEF running, ended
<1>3. \A p \in Query : status'[p] = IF p \in ended THEN "cancelled" ELSE status[p]
  BY <1>2
<1>4. node' = node /\ refs' = refs
  BY <1>2 DEF nodeVars
<1>5. /\ running = {l \in OwnLegs(asked[c]) : Running(l)}
      /\ ended = {l \in running : Readers(l) \subseteq {asked[c]}}
  BY DEF running, ended
<1> QED BY <1>1, <1>2, <1>3, <1>4, <1>5

LEMMA CollateralStep ==
    ASSUME TypeOK, RowInv, Called, Collateral, Next
    PROVE  Collateral'
<1> USE DEF Collateral, NoCollateral, Running, cascadeVars
<1>0. Join \subseteq Query /\ refs \in [Join -> SUBSET Query]
  BY ComposedAssumption DEF TypeOK
<1> USE <1>0
<1>1. Changes /\ Rows
  BY RowsStep, ChangesStep
<1>2. ASSUME UNCHANGED cascadeVars, refs' = refs, NoneRevived PROVE Collateral'
  BY <1>1, <1>2 DEF Changes, NoneRevived
<1>3. ASSUME NEW q \in Query, CreateRow(q) PROVE Collateral'
  <2>1. /\ node[q] = "new" /\ UNCHANGED cascadeVars
        /\ \A p \in Query \ {q} : status'[p] = status[p]
    BY <1>3, InsertKeeps DEF CreateRow
  <2>2. \A j \in Join : j # q => refs'[j] = refs[j]
    BY <1>3 DEF CreateRow
  <2> QED BY <1>1, <2>1, <2>2 DEF Changes
<1>4. ASSUME NEW c \in Canceller, Cascade(c) PROVE Collateral'
  <2>0. RowTypeOK
    BY DEF RowInv
  <2>1. PICK running, ended :
          /\ running = {l \in OwnLegs(asked[c]) : Running(l)}
          /\ ended = {l \in running : Readers(l) \subseteq {asked[c]}}
          /\ \A p \in Query : status'[p] = IF p \in ended THEN "cancelled" ELSE status[p]
          /\ cascaded' = cascaded \union ended
          /\ unseen' = unseen \union ({j \in Join : node[j] \in Unwritten} \X ended)
          /\ status[asked[c]] = "cancelled"
          /\ node' = node /\ refs' = refs
    BY <1>4, <2>0, CascadeEffect
  <2>2. \A j \in Join, l \in ended : node[j] \in Unwritten => <<j, l>> \in unseen'
    BY <2>1
  <2>3. \A j \in Join, l \in cascaded' : node'[j] = "new" => <<j, l>> \in unseen'
    BY <2>1, <2>2 DEF Unwritten
  <2>4. ASSUME NEW j \in Join, NEW l \in refs[j], l \in ended, status'[j] \in Live
        PROVE  <<j, l>> \in unseen'
    <3>1. status[j] \in Live /\ j # asked[c]
      BY <2>1, <2>4 DEF Live
    <3>2. j \notin Readers(l)
      BY <2>1, <2>4, <3>1
    <3>3. node[j] \in Unwritten
      BY <2>4, <3>1, <3>2 DEF Readers
    <3> QED BY <2>2, <2>4, <3>3
  <2>5. ASSUME NEW j \in Join, NEW l \in refs[j], l \in cascaded, status'[j] \in Live
        PROVE  <<j, l>> \in unseen'
    BY <2>1, <2>5 DEF Live
  <2> QED BY <2>1, <2>3, <2>4, <2>5
<1> QED BY <1>1, <1>2, <1>3, <1>4 DEF Changes, Rows

LEMMA WholeStep ==
    ASSUME TypeOK, RowInv, Called, Whole, Next
    PROVE  Whole'
<1> USE DEF Whole, AnsweredCancelIsWhole, Running, OwnLegs, cascadeVars
<1>0. /\ Join \subseteq Query
      /\ \A j \in Join : Legs[j] \subseteq Query /\ Legs[j] \subseteq Before[j]
  BY ComposedAssumption
<1>1. Changes /\ Rows
  BY RowsStep, ChangesStep
<1>2. Submitted \subseteq Submitted'
  BY <1>1 DEF Changes, Submitted
<1>3. \A q \in Query : node'[q] \notin {"new", "refused"} => Before[q] \subseteq Submitted'
  BY <1>1, <1>2 DEF Changes, CreateRow
<1>4. ASSUME NEW c \in Canceller, Cascade(c) PROVE Whole'
  <2>0. RowTypeOK
    BY DEF RowInv
  <2>1. PICK running, ended :
          /\ running = {l \in OwnLegs(asked[c]) : Running(l)}
          /\ ended = {l \in running : Readers(l) \subseteq {asked[c]}}
          /\ \A p \in Query : status'[p] = IF p \in ended THEN "cancelled" ELSE status[p]
          /\ left' = left \union (running \ ended)
          /\ answered' \subseteq answered \union {asked[c]}
          /\ asked[c] \in Submitted
    BY <1>4, <2>0, CascadeEffect
  <2>2. answered' \subseteq Submitted'
    BY <1>2, <2>1
  <2>3. ASSUME NEW j \in answered', NEW l \in OwnLegs(j), status'[l] \in Live
        PROVE  l \in left'
    <3>1. l \in Query /\ status[l] \in Live /\ l \notin ended
      BY <1>0, <2>1, <2>3 DEF Live
    <3>2. CASE j = asked[c]
      BY <2>1, <2>3, <3>1, <3>2
    <3>3. CASE j \in answered
      BY <2>1, <2>3, <3>1, <3>3
    <3> QED BY <2>1, <2>3, <3>2, <3>3
  <2> QED BY <1>3, <2>2, <2>3
<1>5. ASSUME NEW q \in Query, CreateRow(q) PROVE Whole'
  <2>1. /\ node[q] = "new" /\ UNCHANGED cascadeVars
        /\ \A p \in Query \ {q} : status'[p] = status[p]
    BY <1>5, InsertKeeps DEF CreateRow
  <2>2. ASSUME NEW j \in answered, NEW l \in OwnLegs(j) PROVE l \in Query \ {q}
    <3>1. j \in Query /\ node[j] = "done"
      BY <2>2 DEF Submitted
    <3>2. l \in Submitted
      BY <1>0, <2>2, <3>1
    <3> QED BY <2>1, <3>2 DEF Submitted
  <2> QED BY <1>2, <1>3, <2>1, <2>2
<1>6. ASSUME UNCHANGED cascadeVars, NoneRevived PROVE Whole'
  BY <1>0, <1>2, <1>3, <1>6 DEF NoneRevived
<1> QED BY <1>1, <1>4, <1>5, <1>6 DEF Changes, Rows

-----------------------------------------------------------------------------
LEMMA Stutter ==
    ASSUME ComposedInv, UNCHANGED vars
    PROVE  ComposedInv'
<1> USE DEF ComposedInv, vars, rowVars, nodeVars, runVars, callVars, cascadeVars
<1>1. TypeOK' /\ RowInv' /\ Called' /\ HandedOn' /\ Fresh'
  BY DEF TypeOK, RowInv, RowTypeOK, FileOnlyWithAnswer, Called, HandedOn, Fresh, Submitted
<1>2. Answers' /\ Stops' /\ Collateral' /\ Whole'
  BY DEF Answers, Stops, StoppedNeverRuns, Collateral, NoCollateral, Whole,
         AnsweredCancelIsWhole, Submitted, Running
<1> QED BY <1>1, <1>2

(* The parts together are inductive.                                       *)
THEOREM Invariance == Spec => []ComposedInv
<1>1. ASSUME ComposedInv, [Next]_vars PROVE ComposedInv'
  <2>1. CASE Next
    <3>1. RowInv'
      BY <1>1, <2>1, RowsStep DEF ComposedInv, Rows
    <3> QED
      BY <1>1, <2>1, <3>1, TypeStep, CalledStep, HandedOnStep, FreshStep, AnswersStep,
         StopsStep, CollateralStep, WholeStep DEF ComposedInv
  <2> QED BY <1>1, <2>1, Stutter
<1> QED BY <1>1, InitInv, PTL DEF Spec

(* Every variable keeps its type.                                          *)
THEOREM TypeCorrect == Spec => []TypeOK
<1>1. ComposedInv => TypeOK
  BY DEF ComposedInv
<1> QED BY <1>1, Invariance, PTL

(* No SQL of a join is run, and no join is answered, over a reference      *)
(* without results, for any DAGs and whichever executors die.              *)
THEOREM JoinsReadAnswers == Spec => []ReadsAnswers
<1>1. ComposedInv => ReadsAnswers
  BY ComposedAssumption DEF ComposedInv, Answers, ReadsAnswers
<1> QED BY <1>1, Invariance, PTL

(* A join that was cancelled before it had its references never runs, from *)
(* whichever loop fetches it and however late.                             *)
THEOREM CancelledWaitsNeverRun == Spec => []StoppedNeverRuns
<1>1. ComposedInv => StoppedNeverRuns
  BY DEF ComposedInv, Stops
<1> QED BY <1>1, Invariance, PTL

(* However many cancels there are, the only reader a cascade can take a    *)
(* leg from is one that had no spec yet.                                   *)
THEOREM CascadeSparesReaders == Spec => []NoCollateral
<1>1. ComposedInv => NoCollateral
  BY DEF ComposedInv, Collateral
<1> QED BY <1>1, Invariance, PTL

(* A cancel that was answered has ended every leg that nobody else read,   *)
(* and none of them starts afterwards.                                     *)
THEOREM CancelEndsLegs == Spec => []AnsweredCancelIsWhole
<1>1. ComposedInv => AnsweredCancelIsWhole
  BY DEF ComposedInv, Whole
<1> QED BY <1>1, Invariance, PTL

-----------------------------------------------------------------------------
(* Nothing stands still. The steps sorted by what they do to the places of *)
(* the queries: the four that hand a query on are themselves.              *)

(* An executor claims its query, ...                                       *)
Starts(e) ==
    /\ pc[e] = "claim" /\ status[job[e]] \in {"pending", "queued"}
    /\ status' = [status EXCEPT ![job[e]] = "executing"]
    /\ \E p \in {"wait", "run"} : pc' = [pc EXCEPT ![e] = p]
    /\ UNCHANGED <<nodeVars, job, lost>>

(* ... gets its references, ...                                            *)
GoesOn(e) ==
    /\ pc[e] \in {"wait", "recheck"}
    /\ \E p \in {"recheck", "run"} : pc' = [pc EXCEPT ![e] = p]
    /\ UNCHANGED <<status, nodeVars, job, lost>>

(* ... and lets go of it, which is then ended or lost.                     *)
Ends(e) ==
    /\ pc[e] # "idle"
    /\ pc' = [pc EXCEPT ![e] = "idle"]
    /\ job' = [job EXCEPT ![e] = NoQuery]
    /\ UNCHANGED nodeVars
    /\ \/ /\ lost' = lost
          /\ \A q \in Query : q # job[e] => status'[q] = status[q]
          /\ status'[job[e]] \notin Live
          /\ status'[job[e]] = "none" => status[job[e]] = "none"
       \/ status' = status /\ lost' \in Nat /\ lost' > 0

(* Every other step moves no query.                                        *)
Elsewhere ==
    /\ UNCHANGED <<refs, stream, pc, job>>
    /\ lost' \in Nat /\ lost' >= lost
    /\ \A q \in Query :
          /\ \/ node'[q] = node[q]
             \/ <<node[q], node'[q]>> \in
                  {<<"row", "spec">>, <<"spec", "failed">>, <<"published", "done">>,
                   <<"new", "refused">>}
             \/ node[q] = "failed" /\ node'[q] = "done" /\ status'[q] \notin Live
             \/ lost' > 0 /\ node[q] = "row" /\ node'[q] = "cut"
             \/ lost' > 0 /\ node[q] \in {"spec", "published", "failed"} /\ node'[q] = "refused"
          /\ \/ status'[q] = status[q]
             \/ status[q] # "none" /\ status'[q] \in {"cancelled", "error"}
             \/ /\ status[q] = "pending" /\ status'[q] = "queued"
                /\ node[q] = "published" /\ node'[q] = "done"

Places ==
    \/ \E q \in Query : CreateRow(q) \/ Publish(q) \/ HandOver(q)
    \/ \E s \in Slot : Take(s)
    \/ \E e \in Executor : Starts(e) \/ GoesOn(e) \/ Ends(e)
    \/ Elsewhere

LEMMA FailedEnds ==
    ASSUME RowTypeOK, NEW q \in Query, UpdateToError(q)
    PROVE  /\ \A p \in Query : p # q => status'[p] = status[p]
           /\ status'[q] \notin Live /\ (status'[q] = "none" => status[q] = "none")
           /\ status'[q] = status[q] \/ (status[q] # "none" /\ status'[q] = "error")
  BY DEF UpdateToError, SetStatus, MayFail, RowTypeOK, Status, Live

LEMMA PlacesStep ==
    ASSUME ComposedInv, StandstillInv, Next
    PROVE  Places
<1> USE DEF Places, Elsewhere, nodeVars, runVars, rowVars
<1>0. /\ TypeOK /\ RowTypeOK /\ lost \in Nat /\ Join \subseteq Query
      /\ pc \in [Executor -> {"idle", "claim", "wait", "recheck", "run"}]
      /\ node \in [Query -> Node] /\ status \in [Query -> Status]
      /\ \A e \in Executor : pc[e] # "idle" => job[e] \in Query
  BY ComposedAssumption DEF ComposedInv, TypeOK, RowTypeOK
<1>1. ASSUME NEW q \in Query,
             CreateRow(q) \/ Publish(q) \/ HandOver(q)
      PROVE  Places
  BY <1>1
<1>2. ASSUME NEW q \in Query,
             WriteSpec(q) \/ PublishFails(q) \/ Refuse(q)
      PROVE  Places
  BY <1>0, <1>2 DEF WriteSpec, PublishFails, Refuse
<1>3. ASSUME NEW q \in Query, MarkQueued(q) PROVE Places
  <2>1. /\ node[q] = "published" /\ node' = [node EXCEPT ![q] = "done"]
        /\ UNCHANGED <<refs, stream, pc, job, lost>>
        /\ \A p \in Query : p # q => status'[p] = status[p]
        /\ status'[q] = status[q] \/ (status[q] = "pending" /\ status'[q] = "queued")
    BY <1>0, <1>3 DEF MarkQueued, UpdateToQueued, SetStatus, MayQueue
  <2> QED  BY <1>0, <2>1
<1>4. ASSUME NEW q \in Query, MarkEnqueueFailed(q) PROVE Places
  <2>1. /\ node[q] = "failed" /\ node' = [node EXCEPT ![q] = "done"]
        /\ UNCHANGED <<refs, stream, pc, job, lost>>
        /\ \A p \in Query : p # q => status'[p] = status[p]
        /\ status'[q] \notin Live
        /\ status'[q] = status[q] \/ (status[q] # "none" /\ status'[q] = "error")
    BY <1>0, <1>4, FailedEnds DEF MarkEnqueueFailed
  <2> QED  BY <1>0, <2>1
<1>5. ASSUME NEW q \in Query, SubmissionDies(q) PROVE Places
  <2>1. /\ UNCHANGED <<refs, stream, pc, job, status>> /\ lost' = lost + 1
        /\ node[q] \in {"row", "spec", "published", "failed"}
        /\ node' = [node EXCEPT ![q] = IF @ = "row" THEN "cut" ELSE "refused"]
    BY <1>5 DEF SubmissionDies
  <2>2. lost' \in Nat /\ lost' > 0 /\ lost' >= lost
    BY <1>0, <2>1
  <2> QED  BY <1>0, <2>1, <2>2
<1>6. ASSUME NEW s \in Slot, Take(s) PROVE Places
  BY <1>6
<1>7. ASSUME NEW e \in Executor, Claim(e) PROVE Places
  <2>1. pc[e] = "claim" /\ job[e] \in Query /\ status[job[e]] # "executing"
    BY <1>0, <1>7 DEF Claim, StandstillInv, Claims
  <2>2. CASE MayExecute(status[job[e]])
    <3>1. Starts(e)
      BY <1>0, <1>7, <2>1, <2>2 DEF Claim, Starts, MayExecute, UpdateToExecuting, SetStatus
    <3> QED  BY <3>1
  <2>3. CASE ~MayExecute(status[job[e]])
    <3>1. status' = status
      BY <1>0, <1>7, <2>1, <2>3 DEF Claim, UpdateToExecuting, SetStatus
    <3>2. Ends(e)
      BY <1>7, <2>1, <2>3, <3>1 DEF Claim, Ends, Finish, MayExecute, Live
    <3> QED  BY <3>2
  <2> QED  BY <2>2, <2>3
<1>8. ASSUME NEW e \in Executor, ExpireQueued(e) PROVE Places
  <2>1. pc[e] = "claim" /\ job[e] \in Query /\ status[job[e]] # "executing"
    BY <1>0, <1>8 DEF ExpireQueued, StandstillInv, Claims
  <2>2. Ends(e)
    BY <1>0, <1>8, <2>1
       DEF ExpireQueued, Ends, Finish, UpdateToExpired, SetStatus, MayExpire, Live
  <2> QED  BY <2>2
<1>9. ASSUME NEW e \in Executor, BindReferences(e) PROVE Places
  <2>1. GoesOn(e)
    BY <1>9 DEF BindReferences, GoesOn
  <2> QED  BY <2>1
<1>10. ASSUME NEW e \in Executor, Recheck(e) PROVE Places
  <2>1. CASE status[job[e]] = "cancelled"
    <3>1. Ends(e)
      BY <1>10, <2>1 DEF Recheck, Ends, Finish, Live
    <3> QED  BY <3>1
  <2>2. CASE status[job[e]] # "cancelled"
    <3>1. GoesOn(e)
      BY <1>10, <2>2 DEF Recheck, GoesOn
    <3> QED  BY <3>1
  <2> QED  BY <2>1, <2>2
<1>11. ASSUME NEW e \in Executor, Land(e) PROVE Places
  <2>1. pc[e] = "run" /\ job[e] \in Query /\ status[job[e]] # "queued"
    BY <1>0, <1>11 DEF Land, StandstillInv, Claims
  <2>2. /\ \A p \in Query : p # job[e] => status'[p] = status[p]
        /\ status'[job[e]] \notin Live
        /\ status'[job[e]] = "none" => status[job[e]] = "none"
    <3>1. CASE UpdateToError(job[e])
      BY <1>0, <2>1, <3>1, FailedEnds
    <3>2. CASE UpdateToReady(job[e], job[e])
      BY <1>0, <2>1, <3>2 DEF UpdateToReady, MayAnswer, Live, Status
    <3> QED  BY <1>11, <3>1, <3>2 DEF Land
  <2>3. Ends(e)
    BY <1>11, <2>1, <2>2 DEF Land, Ends, Finish
  <2> QED  BY <2>3
<1>12. ASSUME NEW e \in Executor,
              WaitFails(e) \/ \E r \in Query : ReferenceFails(e, r)
       PROVE  Places
  <2>1. pc[e] = "wait" /\ job[e] \in Query /\ UpdateToError(job[e])
        /\ Finish(e) /\ UNCHANGED nodeVars /\ lost' = lost
    BY <1>0, <1>12 DEF WaitFails, ReferenceFails
  <2>2. Ends(e)
    BY <1>0, <2>1, FailedEnds DEF Ends, Finish
  <2> QED  BY <2>2
<1>13. ASSUME NEW e \in Executor, NEW r \in Query, SeeReference(e, r) PROVE Places
  BY <1>0, <1>13 DEF SeeReference
<1>14. ASSUME NEW e \in Executor, ExecutorDies(e) PROVE Places
  <2>1. lost' \in Nat /\ lost' > 0
    BY <1>0, <1>14 DEF ExecutorDies
  <2>2. Ends(e)
    BY <1>14, <2>1 DEF ExecutorDies, Ends, Finish
  <2> QED  BY <2>2
<1>15. ASSUME NEW c \in Canceller, CancelRow(c) PROVE Places
  <2>1. asked[c] \in Query /\ UNCHANGED <<nodeVars, pc, job, lost>>
    BY <1>15 DEF CancelRow, ComposedInv, Called, TypeOK
  <2>2. \A p \in Query : \/ status'[p] = status[p]
                         \/ status[p] # "none" /\ status'[p] = "cancelled"
    BY <1>0, <1>15, <2>1
       DEF CancelRow, UpdateToCancelled, SetStatus, MayCancel, Live
  <2> QED  BY <1>0, <2>1, <2>2
<1>16. ASSUME NEW c \in Canceller, Cascade(c) PROVE Places
  <2>1. PICK ended : /\ \A p \in ended : status[p] \in Live
                     /\ \A p \in Query :
                           status'[p] = IF p \in ended THEN "cancelled" ELSE status[p]
    BY <1>0, <1>16, CascadeEffect DEF ComposedInv, Running
  <2>2. UNCHANGED <<nodeVars, pc, job, lost>>
    BY <1>16 DEF Cascade
  <2> QED  BY <1>0, <2>1, <2>2 DEF Live
<1>17. ASSUME NEW c \in Canceller,
              CancelDies(c) \/ \E q \in Query : ReadRow(c, q)
       PROVE  Places
  BY <1>0, <1>17 DEF CancelDies, ReadRow
<1> QED
  BY <1>1, <1>2, <1>3, <1>4, <1>5, <1>6, <1>7, <1>8, <1>9, <1>10, <1>11, <1>12,
     <1>13, <1>14, <1>15, <1>16, <1>17 DEF Next, Submits, Runs, Cancels

-----------------------------------------------------------------------------
(* Waits. A step that only takes waits away closes no circle, and neither  *)
(* does one that makes a query wait for which nobody waits.                *)

LEMMA FewerWaits ==
    ASSUME NoCircularWait, \A p \in Query : Blockers(p)' \subseteq Blockers(p)
    PROVE  NoCircularWait'
<1> SUFFICES ASSUME NEW S \in SUBSET Query, S # {}
             PROVE  \E p \in S : Blockers(p)' \intersect S = {}
  BY DEF NoCircularWait
<1>1. PICK p \in S : Blockers(p) \intersect S = {}
  BY DEF NoCircularWait
<1> QED  BY <1>1

LEMMA OneMoreWaits ==
    ASSUME NoCircularWait, NEW q \in Query,
           \A p \in Query : p # q => Blockers(p)' \subseteq Blockers(p),
           \A p \in Query : q \notin Blockers(p)'
    PROVE  NoCircularWait'
<1> SUFFICES ASSUME NEW S \in SUBSET Query, S # {}
             PROVE  \E p \in S : Blockers(p)' \intersect S = {}
  BY DEF NoCircularWait
<1>1. CASE S \ {q} = {}
  BY <1>1
<1>2. CASE S \ {q} # {}
  <2>1. PICK p \in S \ {q} : Blockers(p) \intersect (S \ {q}) = {}
    BY <1>2 DEF NoCircularWait
  <2> QED  BY <2>1
<1> QED  BY <1>1, <1>2

(* Nobody waits for a query that was not handed over.                      *)
LEMMA UnknownBlocksNobody ==
    ASSUME ComposedInv, StandstillInv, NEW q \in Query,
           node[q] \in {"new", "row", "spec"}
    PROVE  /\ q \notin Taken \union Waiting
           /\ \A p \in Query : q \notin Blockers(p)
<1>1. q \notin Taken \union Waiting
  BY DEF StandstillInv, HandedOver
<1>2. \A j \in Join : q \notin refs[j]
  BY DEF StandstillInv, ReadsSubmitted, Submitted
<1>3. ASSUME NEW p \in Query, NEW i \in 1..Len(stream), NEW k \in 1..(i - 1)
      PROVE  stream[k] # q
  <2>1. k \in 1..Len(stream)
    BY <1>3 DEF ComposedInv, TypeOK
  <2> QED  BY <1>1, <2>1 DEF Waiting
<1>4. \A s \in Slot : job[s] # q
  BY <1>1, ComposedAssumption DEF Taken, Executor
<1> QED  BY <1>1, <1>2, <1>3, <1>4 DEF Blockers

LEMMA TakenAndWaiting ==
    ASSUME TypeOK
    PROVE  Taken \union Waiting \subseteq Query
  BY DEF TypeOK, Taken, Waiting

LEMMA ChangesOfNodes ==
    ASSUME ComposedInv, StandstillInv, Next
    PROVE  Submitted \subseteq Submitted'
  BY ChangesStep DEF ComposedInv, Changes, Submitted

-----------------------------------------------------------------------------
(* Each kind of step keeps what nothing stands still for.                  *)

LEMMA CreateStandstill ==
    ASSUME ComposedInv, StandstillInv, ComposedInv', Next,
           NEW q \in Query, CreateRow(q)
    PROVE  StandstillInv'
<1>0. /\ Join \subseteq Query /\ node \in [Query -> Node] /\ status \in [Query -> Status]
      /\ refs \in [Join -> SUBSET Query]
      /\ \A e \in Executor : pc[e] # "idle" => job[e] \in Query
      /\ \A j \in Join : Legs[j] \subseteq Before[j]
  BY ComposedAssumption DEF ComposedInv, TypeOK, RowTypeOK
<1>1. /\ node[q] = "new" /\ node'[q] \in {"row", "spec"}
      /\ status'[q] = "pending"
      /\ UNCHANGED <<stream, pc, job, lost>>
      /\ \A p \in Query : p # q => node'[p] = node[p] /\ status'[p] = status[p]
  BY <1>0 DEF CreateRow, Insert, runVars
<1>2. /\ \A j \in Join : j # q => refs'[j] = refs[j]
      /\ q \in Join => refs'[q] \subseteq Submitted
  BY <1>0 DEF CreateRow
<1>3. q \notin Taken \union Waiting /\ \A p \in Query : q \notin Blockers(p)
  BY <1>1, UnknownBlocksNobody
<1>4. Taken' = Taken /\ Waiting' = Waiting
  BY <1>1 DEF Taken, Waiting
<1>5. Submitted \subseteq Submitted'
  BY ChangesOfNodes
<1>6. ReadsSubmitted' /\ HandedOver' /\ InOnePlace' /\ RowsExist'
  <2>1. ReadsSubmitted'
    BY <1>2, <1>5 DEF StandstillInv, ReadsSubmitted
  <2>2. HandedOver'
    BY <1>1, <1>3, <1>4, TakenAndWaiting
       DEF ComposedInv, StandstillInv, HandedOver
  <2>3. InOnePlace'
    BY <1>1, <1>4 DEF StandstillInv, InOnePlace
  <2>4. RowsExist'
    BY <1>1 DEF StandstillInv, RowsExist
  <2> QED  BY <2>1, <2>2, <2>3, <2>4
<1>7. \A e \in Executor : pc[e] # "idle" => job[e] # q /\ job[e] \in Query
  BY <1>0, <1>3, ComposedAssumption DEF Taken
<1>8. Claims' /\ Attended'
  BY <1>1, <1>3, <1>4, <1>7 DEF StandstillInv, Claims, Attended, Running
<1>9. NoCircularWait'
  <2>1. \A p \in Query : p # q => Blockers(p)' = Blockers(p)
    BY <1>1, <1>2 DEF Blockers
  <2>2. q \notin Blockers(q)'
    <3>1. \A i \in 1..Len(stream) : stream[i] # q
      BY <1>3 DEF Waiting
    <3> QED  BY <1>1, <1>2, <3>1 DEF Blockers, Submitted
  <2> QED  BY <1>3, <2>1, <2>2, OneMoreWaits DEF StandstillInv
<1> QED  BY <1>6, <1>8, <1>9 DEF StandstillInv

LEMMA PublishStandstill ==
    ASSUME ComposedInv, StandstillInv, ComposedInv', Next,
           NEW q \in Query, Publish(q)
    PROVE  StandstillInv'
<1>0. /\ node \in [Query -> Node] /\ stream \in Seq(Query)
      /\ \A e \in Executor : pc[e] # "idle" => job[e] \in Query
  BY DEF ComposedInv, TypeOK
<1>1. /\ node[q] = "spec" /\ node'[q] \in {"published", "failed"}
      /\ stream' = Append(stream, q)
      /\ status' = status /\ refs' = refs /\ pc' = pc /\ job' = job /\ lost' = lost
      /\ \A p \in Query : p # q => node'[p] = node[p]
  BY <1>0 DEF Publish, rowVars, runVars
<1>2. q \notin Taken \union Waiting /\ \A p \in Query : q \notin Blockers(p)
  BY <1>1, UnknownBlocksNobody
<1>3. /\ Len(stream) \in Nat /\ Len(stream') = Len(stream) + 1
      /\ stream'[Len(stream) + 1] = q
      /\ \A i \in 1..Len(stream) : stream'[i] = stream[i]
  BY <1>0, <1>1
<1>4. /\ Taken' = Taken /\ Waiting' = Waiting \union {q}
      /\ \A i \in 1..Len(stream) : stream[i] # q
  BY <1>1, <1>2, <1>3 DEF Taken, Waiting
<1>5. Submitted \subseteq Submitted'
  BY ChangesOfNodes
<1>6. ReadsSubmitted' /\ HandedOver' /\ RowsExist'
  <2>1. ReadsSubmitted'
    BY <1>1, <1>5 DEF StandstillInv, ReadsSubmitted
  <2>2. HandedOver'
    BY <1>1, <1>2, <1>4, TakenAndWaiting
       DEF ComposedInv, StandstillInv, HandedOver
  <2>3. RowsExist'
    BY <1>1 DEF StandstillInv, RowsExist
  <2> QED  BY <2>1, <2>2, <2>3
<1>7. InOnePlace'
  <2>1. \A i, k \in 1..Len(stream') : stream'[i] = stream'[k] => i = k
    BY <1>3, <1>4 DEF StandstillInv, InOnePlace
  <2> QED  BY <1>1, <1>2, <1>4, <2>1 DEF StandstillInv, InOnePlace
<1>8. Claims' /\ Attended'
  <2>1. status[q] # "executing"
    BY <1>1 DEF StandstillInv, Claims
  <2> QED
    BY <1>0, <1>1, <1>4, <2>1 DEF StandstillInv, Claims, Attended, Running
<1>9. NoCircularWait'
  <2>1. ASSUME NEW p \in Query, p # q PROVE Blockers(p)' = Blockers(p)
    <3>1. \A i \in 1..Len(stream') : stream'[i] = p => i \in 1..Len(stream)
      BY <1>3, <2>1
    <3>2. \A b \in Query :
            (\E i \in 1..Len(stream') :
              /\ stream'[i] = p
              /\ (\E k \in 1..(i - 1) : stream'[k] = b) \/ (\E s \in Slot : job'[s] = b))
            <=>
            (\E i \in 1..Len(stream) :
              /\ stream[i] = p
              /\ (\E k \in 1..(i - 1) : stream[k] = b) \/ (\E s \in Slot : job[s] = b))
      BY <1>1, <1>3, <3>1
    <3> QED  BY <1>1, <3>2 DEF Blockers
  <2>2. q \notin Blockers(q)'
    <3>1. \A i \in 1..Len(stream') : \A k \in 1..(i - 1) : stream'[k] # q
      BY <1>3, <1>4
    <3>2. \A s \in Slot : job'[s] # q
      BY <1>1, <1>2, ComposedAssumption DEF Taken, Executor
    <3>3. \A j \in Join : q \notin refs'[j]
      BY <1>1 DEF StandstillInv, ReadsSubmitted, Submitted
    <3> QED  BY <3>1, <3>2, <3>3 DEF Blockers
  <2> QED  BY <1>2, <2>1, <2>2, OneMoreWaits DEF StandstillInv
<1> QED  BY <1>6, <1>7, <1>8, <1>9 DEF StandstillInv

LEMMA HandOverStandstill ==
    ASSUME ComposedInv, StandstillInv, ComposedInv', Next,
           NEW q \in Query, HandOver(q)
    PROVE  StandstillInv'
<1>0. /\ node \in [Query -> Node] /\ q \in Executor /\ q \notin Slot
      /\ pc \in [Executor -> {"idle", "claim", "wait", "recheck", "run"}]
      /\ job \in [Executor -> Query \union {NoQuery}]
      /\ \A e \in Executor : pc[e] # "idle" => job[e] \in Query
  BY ComposedAssumption DEF ComposedInv, TypeOK, Executor
<1>1. /\ node[q] = "spec"
      /\ \E start \in {"claim", "run"} :
            /\ pc' = [pc EXCEPT ![q] = start]
            /\ node' = [node EXCEPT ![q] =
                  IF q \notin Join /\ start = "claim" THEN "published" ELSE "done"]
      /\ job' = [job EXCEPT ![q] = q]
      /\ status' = status /\ refs' = refs /\ stream' = stream /\ lost' = lost
  BY DEF HandOver, rowVars
<1>2. /\ pc'[q] \in {"claim", "run"} /\ job'[q] = q
      /\ node'[q] \in {"published", "done"} /\ (pc'[q] = "run" => node'[q] = "done")
      /\ \A e \in Executor : e # q => pc'[e] = pc[e] /\ job'[e] = job[e]
      /\ \A p \in Query : p # q => node'[p] = node[p]
  BY <1>0, <1>1
<1>3. q \notin Taken \union Waiting /\ \A p \in Query : q \notin Blockers(p)
  BY <1>1, UnknownBlocksNobody
<1>4. job[q] = NoQuery /\ NoQuery \notin Query
  BY <1>0, <1>3, ComposedAssumption DEF StandstillInv, InOnePlace, Taken
<1>5. Taken' = Taken \union {q} /\ Waiting' = Waiting
  <2>1. \A b \in Query :
          (\E e \in Executor : job'[e] = b) <=> (b = q \/ \E e \in Executor : job[e] = b)
    BY <1>0, <1>2, <1>4
  <2>2. \A e \in Executor : job'[e] \in Query \union {NoQuery}
    BY <1>0, <1>2
  <2> QED  BY <1>0, <1>1, <1>4, <2>1, <2>2 DEF Taken, Waiting
<1>6. Submitted \subseteq Submitted'
  BY ChangesOfNodes
<1>7. ReadsSubmitted' /\ HandedOver' /\ RowsExist'
  BY <1>1, <1>2, <1>5, <1>6 DEF StandstillInv, ReadsSubmitted, HandedOver, RowsExist
<1>8. InOnePlace'
  <2>1. \A e \in Executor : job[e] # q
    BY <1>3, <1>4 DEF Taken
  <2>2. \A e, d \in Executor : job'[e] = job'[d] /\ job'[e] # NoQuery => e = d
    BY <1>2, <2>1 DEF StandstillInv, InOnePlace
  <2>3. \A p \in Query : job'[p] \in {p, NoQuery}
    BY <1>2 DEF StandstillInv, InOnePlace, Executor
  <2> QED  BY <1>1, <1>3, <1>5, <2>2, <2>3 DEF StandstillInv, InOnePlace
<1>9. Claims' /\ Attended'
  <2>1. status[q] \notin {"queued", "executing"}
    BY <1>1 DEF StandstillInv, Claims
  <2>2. \A e \in Executor : pc[e] # "idle" => job[e] # q
    BY <1>3, <1>4 DEF Taken
  <2> QED
    BY <1>0, <1>1, <1>2, <1>5, <2>1, <2>2 DEF StandstillInv, Claims, Attended, Running
<1>10. NoCircularWait'
  <2>1. \A s \in Slot : job'[s] = job[s]
    BY <1>0, <1>2 DEF Executor
  <2>2. \A p \in Query : Blockers(p)' \subseteq Blockers(p)
    BY <1>1, <2>1 DEF Blockers
  <2> QED  BY <2>2, FewerWaits DEF StandstillInv
<1> QED  BY <1>7, <1>8, <1>9, <1>10 DEF StandstillInv

LEMMA TakeStandstill ==
    ASSUME ComposedInv, StandstillInv, ComposedInv', Next,
           NEW s \in Slot, Take(s)
    PROVE  StandstillInv'
<1> DEFINE q == Head(stream)
<1>0. /\ s \in Executor /\ s \notin Query /\ stream \in Seq(Query) /\ stream # <<>>
      /\ pc \in [Executor -> {"idle", "claim", "wait", "recheck", "run"}]
      /\ job \in [Executor -> Query \union {NoQuery}]
      /\ \A e \in Executor : pc[e] # "idle" => job[e] \in Query
      /\ job[s] = NoQuery /\ NoQuery \notin Query
  BY ComposedAssumption DEF ComposedInv, TypeOK, Executor, Take
<1>1. /\ pc' = [pc EXCEPT ![s] = "claim"] /\ job' = [job EXCEPT ![s] = q]
      /\ stream' = Tail(stream)
      /\ status' = status /\ node' = node /\ refs' = refs /\ lost' = lost
  BY DEF Take, rowVars
<1>2. /\ q \in Query /\ q = stream[1] /\ Len(stream) \in Nat /\ 1 \in 1..Len(stream)
      /\ Len(stream') = Len(stream) - 1
      /\ \A i \in 1..Len(stream') : stream'[i] = stream[i + 1] /\ i + 1 \in 1..Len(stream)
      /\ \A i \in 1..Len(stream) : i # 1 => i - 1 \in 1..Len(stream') /\ stream'[i - 1] = stream[i]
  BY <1>0, <1>1
<1> HIDE DEF q
<1>3. /\ pc'[s] = "claim" /\ job'[s] = q
      /\ \A e \in Executor : e # s => pc'[e] = pc[e] /\ job'[e] = job[e]
  BY <1>0, <1>1
<1>4. q \in Waiting /\ q \notin Taken
  BY <1>2 DEF Waiting, StandstillInv, InOnePlace
<1>5. \A i \in 1..Len(stream') : stream'[i] # q
  <2> SUFFICES ASSUME NEW i \in 1..Len(stream'), stream'[i] = q PROVE FALSE
    OBVIOUS
  <2>1. stream[i + 1] = stream[1] /\ i + 1 \in 1..Len(stream) /\ i + 1 # 1
    BY <1>2
  <2> QED  BY <1>2, <2>1 DEF StandstillInv, InOnePlace
<1>6. Taken' = Taken \union {q} /\ Waiting' = Waiting \ {q}
  <2>1. \A b \in Query :
          (\E e \in Executor : job'[e] = b) <=> (b = q \/ \E e \in Executor : job[e] = b)
    BY <1>0, <1>3
  <2>2. \A e \in Executor : job'[e] \in Query \union {NoQuery}
    BY <1>0, <1>2, <1>3
  <2>3. Taken' = Taken \union {q}
    BY <1>0, <1>2, <2>1, <2>2 DEF Taken
  <2>4. ASSUME NEW b \in Waiting' PROVE b \in Waiting \ {q}
    <3>1. PICK i \in 1..Len(stream') : stream'[i] = b
      BY <2>4 DEF Waiting
    <3> QED  BY <1>2, <1>5, <3>1 DEF Waiting
  <2>5. ASSUME NEW b \in Waiting, b # q PROVE b \in Waiting'
    <3>1. PICK i \in 1..Len(stream) : stream[i] = b
      BY <2>5 DEF Waiting
    <3>2. i - 1 \in 1..Len(stream') /\ stream'[i - 1] = b
      BY <1>2, <2>5, <3>1
    <3> QED  BY <3>2 DEF Waiting
  <2> QED  BY <2>3, <2>4, <2>5
<1>7. Submitted \subseteq Submitted'
  BY ChangesOfNodes
<1>8. ReadsSubmitted' /\ HandedOver' /\ RowsExist'
  BY <1>1, <1>4, <1>6, <1>7 DEF StandstillInv, ReadsSubmitted, HandedOver, RowsExist
<1>9. InOnePlace'
  <2>1. \A i, k \in 1..Len(stream') : stream'[i] = stream'[k] => i = k
    <3> SUFFICES ASSUME NEW i \in 1..Len(stream'), NEW k \in 1..Len(stream'),
                        stream'[i] = stream'[k]
                 PROVE  i = k
      OBVIOUS
    <3>1. i + 1 = k + 1
      BY <1>2 DEF StandstillInv, InOnePlace
    <3> QED  BY <1>2, <3>1
  <2>2. \A e, d \in Executor : job'[e] = job'[d] /\ job'[e] # NoQuery => e = d
    BY <1>0, <1>2, <1>3, <1>4 DEF StandstillInv, InOnePlace, Taken
  <2>3. \A p \in Query : job'[p] \in {p, NoQuery}
    BY <1>0, <1>3 DEF StandstillInv, InOnePlace, Executor
  <2>4. Taken' \intersect Waiting' = {}
    BY <1>6 DEF StandstillInv, InOnePlace
  <2> QED  BY <2>1, <2>2, <2>3, <2>4 DEF InOnePlace
<1>10. Claims' /\ Attended'
  <2>1. status[q] # "executing"
    BY <1>2, <1>4 DEF StandstillInv, Claims
  <2> QED
    BY <1>0, <1>1, <1>3, <1>6, <2>1 DEF StandstillInv, Claims, Attended, Running
<1>11. NoCircularWait'
  <2>1. ASSUME NEW p \in Query, NEW b \in Query, NEW i \in 1..Len(stream'),
               stream'[i] = p,
               (\E k \in 1..(i - 1) : stream'[k] = b) \/ (\E t \in Slot : job'[t] = b)
        PROVE  b \in Blockers(p)
    <3>1. i + 1 \in 1..Len(stream) /\ stream[i + 1] = p
      BY <1>2, <2>1
    <3>2. (\E k \in 1..(i + 1 - 1) : stream[k] = b) \/ (\E t \in Slot : job[t] = b)
      <4>1. CASE \E t \in Slot : job'[t] = b
        <5>1. PICK t \in Slot : job'[t] = b
          BY <4>1
        <5>2. CASE t = s
          BY <1>2, <1>3, <5>1, <5>2
        <5>3. CASE t # s
          BY <1>3, <5>1, <5>3 DEF Executor
        <5> QED  BY <5>2, <5>3
      <4>2. CASE \E k \in 1..(i - 1) : stream'[k] = b
        <5>1. PICK k \in 1..(i - 1) : stream'[k] = b
          BY <4>2
        <5>2. k + 1 \in 1..(i + 1 - 1) /\ stream[k + 1] = b
          BY <1>2, <5>1
        <5> QED  BY <5>2
      <4> QED  BY <2>1, <4>1, <4>2
    <3> QED  BY <3>1, <3>2 DEF Blockers
  <2>2. \A p \in Query : Blockers(p)' \subseteq Blockers(p)
    BY <1>1, <2>1 DEF Blockers
  <2> QED  BY <2>2, FewerWaits DEF StandstillInv
<1> QED  BY <1>8, <1>9, <1>10, <1>11 DEF StandstillInv

LEMMA RunStandstill ==
    ASSUME ComposedInv, StandstillInv, ComposedInv', Next,
           NEW e \in Executor, Starts(e) \/ GoesOn(e)
    PROVE  StandstillInv'
<1>0. /\ status \in [Query -> Status] /\ job[e] \in Query /\ job[e] # NoQuery
      /\ pc \in [Executor -> {"idle", "claim", "wait", "recheck", "run"}]
      /\ \A d \in Executor : pc[d] # "idle" => job[d] \in Query /\ job[d] # NoQuery
  BY ComposedAssumption DEF ComposedInv, TypeOK, RowTypeOK, Starts, GoesOn
<1>1. /\ node' = node /\ refs' = refs /\ stream' = stream /\ job' = job /\ lost' = lost
      /\ Taken' = Taken /\ Waiting' = Waiting
      /\ \A d \in Executor : d # e => pc'[d] = pc[d]
  BY <1>0 DEF Starts, GoesOn, nodeVars, Taken, Waiting
<1>2. job[e] \in Taken /\ \A d \in Executor : d # e /\ pc[d] # "idle" => job[d] # job[e]
  BY <1>0 DEF Taken, StandstillInv, InOnePlace
<1>3. /\ \A p \in Query : p # job[e] => status'[p] = status[p]
      /\ \/ /\ status[job[e]] \in {"pending", "queued"} /\ status'[job[e]] = "executing"
            /\ pc'[e] \in {"wait", "run"}
         \/ /\ status'[job[e]] = status[job[e]] /\ pc[e] \in {"wait", "recheck"}
            /\ pc'[e] \in {"recheck", "run"}
  BY <1>0 DEF Starts, GoesOn
<1>4. ReadsSubmitted' /\ HandedOver' /\ InOnePlace'
  BY <1>1 DEF StandstillInv, ReadsSubmitted, Submitted, HandedOver, InOnePlace
<1>5. RowsExist' /\ Attended'
  BY <1>1, <1>2, <1>3 DEF StandstillInv, RowsExist, Attended, Running
<1>6. Claims'
  <2>1. \A q \in Query :
          /\ node'[q] \in {"row", "spec"} => status'[q] \notin {"queued", "executing"}
          /\ q \in Waiting' => status'[q] # "executing"
          /\ q \notin Taken' /\ status'[q] = "executing" => lost' > 0
    <3>1. node[job[e]] \notin {"row", "spec"} /\ job[e] \notin Waiting
      BY <1>2 DEF StandstillInv, HandedOver, InOnePlace
    <3> QED  BY <1>1, <1>2, <1>3, <3>1 DEF StandstillInv, Claims
  <2>2. ASSUME NEW d \in Executor, d # e
        PROVE  /\ pc'[d] = "claim" => status'[job'[d]] # "executing"
               /\ pc'[d] \in {"wait", "recheck"} =>
                    status'[job'[d]] \notin {"pending", "queued"}
               /\ pc'[d] = "run" => status'[job'[d]] # "queued"
               /\ pc'[d] = "run" /\ status'[job'[d]] = "pending" => node'[job'[d]] = "done"
    BY <1>0, <1>1, <1>2, <1>3, <2>2 DEF StandstillInv, Claims
  <2>3. /\ pc'[e] = "claim" => status'[job'[e]] # "executing"
        /\ pc'[e] \in {"wait", "recheck"} =>
                    status'[job'[e]] \notin {"pending", "queued"}
        /\ pc'[e] = "run" => status'[job'[e]] # "queued"
        /\ pc'[e] = "run" /\ status'[job'[e]] = "pending" => node'[job'[e]] = "done"
    BY <1>1, <1>3 DEF StandstillInv, Claims
  <2> QED  BY <2>1, <2>2, <2>3 DEF Claims
<1>7. NoCircularWait'
  <2>1. \A p \in Query : Blockers(p)' \subseteq Blockers(p)
    BY <1>1 DEF Blockers
  <2> QED  BY <2>1, FewerWaits DEF StandstillInv
<1> QED  BY <1>4, <1>5, <1>6, <1>7 DEF StandstillInv

LEMMA EndStandstill ==
    ASSUME ComposedInv, StandstillInv, ComposedInv', Next,
           NEW e \in Executor, Ends(e)
    PROVE  StandstillInv'
<1>0. /\ status \in [Query -> Status] /\ job[e] \in Query /\ lost \in Nat
      /\ pc \in [Executor -> {"idle", "claim", "wait", "recheck", "run"}]
      /\ job \in [Executor -> Query \union {NoQuery}] /\ NoQuery \notin Query
      /\ \A d \in Executor : pc[d] # "idle" => job[d] \in Query /\ job[d] # NoQuery
  BY ComposedAssumption DEF ComposedInv, TypeOK, RowTypeOK, Ends
<1>1. /\ node' = node /\ refs' = refs /\ stream' = stream /\ Waiting' = Waiting
      /\ pc'[e] = "idle" /\ job'[e] = NoQuery
      /\ \A d \in Executor : d # e => pc'[d] = pc[d] /\ job'[d] = job[d]
  BY <1>0 DEF Ends, nodeVars, Waiting
<1>2. job[e] \in Taken /\ \A d \in Executor : d # e /\ pc[d] # "idle" => job[d] # job[e]
  BY <1>0 DEF Taken, StandstillInv, InOnePlace
<1>3. Taken' = Taken \ {job[e]}
  <2>1. \A b \in Query :
          (\E d \in Executor : job'[d] = b) <=> (b # job[e] /\ \E d \in Executor : job[d] = b)
    BY <1>0, <1>1 DEF StandstillInv, InOnePlace
  <2>2. \A d \in Executor : job'[d] \in Query \union {NoQuery}
    BY <1>0, <1>1
  <2> QED  BY <1>0, <2>1, <2>2 DEF Taken
<1>4. /\ \A p \in Query : p # job[e] => status'[p] = status[p]
      /\ \A p \in Query : status'[p] = "none" => status[p] = "none"
      /\ lost' \in Nat /\ (lost' = 0 => lost = 0)
      /\ \/ status'[job[e]] \notin Live
         \/ status'[job[e]] = status[job[e]] /\ lost' > 0
  <2>1. CASE /\ lost' = lost
             /\ \A q \in Query : q # job[e] => status'[q] = status[q]
             /\ status'[job[e]] \notin Live
             /\ status'[job[e]] = "none" => status[job[e]] = "none"
    BY <1>0, <2>1
  <2>2. CASE status' = status /\ lost' \in Nat /\ lost' > 0
    BY <1>0, <2>2
  <2> QED  BY <2>1, <2>2 DEF Ends
<1>5. ReadsSubmitted' /\ HandedOver' /\ RowsExist'
  BY <1>1, <1>3, <1>4 DEF StandstillInv, ReadsSubmitted, Submitted, HandedOver, RowsExist
<1>6. InOnePlace'
  <2>1. \A d, f \in Executor : job'[d] = job'[f] /\ job'[d] # NoQuery => d = f
    BY <1>1 DEF StandstillInv, InOnePlace
  <2>2. \A p \in Query : job'[p] \in {p, NoQuery}
    BY <1>1 DEF StandstillInv, InOnePlace, Executor
  <2> QED  BY <1>1, <1>3, <2>1, <2>2 DEF StandstillInv, InOnePlace
<1>7. Attended'
  BY <1>0, <1>1, <1>3, <1>4 DEF StandstillInv, Attended, Running
<1>8. Claims'
  <2>1. \A q \in Query :
          /\ node'[q] \in {"row", "spec"} => status'[q] \notin {"queued", "executing"}
          /\ q \in Waiting' => status'[q] # "executing"
          /\ q \notin Taken' /\ status'[q] = "executing" => lost' > 0
    <3>1. node[job[e]] \notin {"row", "spec"} /\ job[e] \notin Waiting
      BY <1>2 DEF StandstillInv, HandedOver, InOnePlace
    <3>2. lost > 0 => lost' > 0
      BY <1>0, <1>4
    <3> QED  BY <1>0, <1>1, <1>3, <1>4, <3>1, <3>2 DEF StandstillInv, Claims, Live
  <2>2. ASSUME NEW d \in Executor
        PROVE  /\ pc'[d] = "claim" => status'[job'[d]] # "executing"
               /\ pc'[d] \in {"wait", "recheck"} =>
                    status'[job'[d]] \notin {"pending", "queued"}
               /\ pc'[d] = "run" => status'[job'[d]] # "queued"
               /\ pc'[d] = "run" /\ status'[job'[d]] = "pending" => node'[job'[d]] = "done"
    <3>1. CASE d = e
      BY <1>1, <3>1
    <3>2. CASE d # e /\ pc[d] # "idle"
      BY <1>0, <1>1, <1>2, <1>4, <3>2 DEF StandstillInv, Claims
    <3>3. CASE d # e /\ pc[d] = "idle"
      BY <1>1, <3>3
    <3> QED  BY <3>1, <3>2, <3>3
  <2> QED  BY <2>1, <2>2 DEF Claims
<1>9. NoCircularWait'
  <2>1. \A s \in Slot : \A b \in Query : job'[s] = b => job[s] = b
    BY <1>0, <1>1 DEF Executor
  <2>2. \A p \in Query : Blockers(p)' \subseteq Blockers(p)
    BY <1>1, <2>1 DEF Blockers
  <2> QED  BY <2>2, FewerWaits DEF StandstillInv
<1> QED  BY <1>5, <1>6, <1>7, <1>8, <1>9 DEF StandstillInv

LEMMA ElsewhereStandstill ==
    ASSUME ComposedInv, StandstillInv, ComposedInv', Submitted \subseteq Submitted',
           Elsewhere
    PROVE  StandstillInv'
<1>0. /\ status \in [Query -> Status] /\ node \in [Query -> Node] /\ lost \in Nat
      /\ \A d \in Executor : pc[d] # "idle" => job[d] \in Query
  BY DEF ComposedInv, TypeOK, RowTypeOK
<1>1. /\ refs' = refs /\ stream' = stream /\ pc' = pc /\ job' = job
      /\ Taken' = Taken /\ Waiting' = Waiting
      /\ lost' \in Nat /\ (lost > 0 => lost' > 0) /\ (lost' = 0 => lost = 0)
  BY <1>0 DEF Elsewhere, Taken, Waiting
<1>2. \A q \in Query :
        /\ node'[q] \in {"published", "failed"} => node'[q] = node[q] \/ node[q] = "spec"
        /\ node[q] \in {"published", "failed", "done", "refused"} =>
              node'[q] \in {"published", "failed", "done", "refused"}
        /\ node'[q] \notin {"new", "refused"} => node[q] \notin {"new", "refused"}
        /\ node'[q] \in {"row", "spec"} => node[q] \in {"row", "spec"}
        /\ status'[q] = "none" => status[q] = "none"
  BY <1>0 DEF Elsewhere, Node
<1>3. \A q \in Query :
        /\ status'[q] = "executing" => status[q] = "executing"
        /\ status'[q] = "pending" => status[q] = "pending"
        /\ status'[q] = "queued" =>
              \/ status[q] = "queued"
              \/ /\ status[q] = "pending" /\ node[q] = "published" /\ node'[q] = "done"
        /\ node[q] = "done" => node'[q] = "done"
  BY DEF Elsewhere
<1>4. ReadsSubmitted' /\ HandedOver' /\ InOnePlace' /\ RowsExist'
  <2>1. Taken \union Waiting \subseteq Query
    BY <1>0 DEF Taken, Waiting, ComposedInv, TypeOK
  <2> QED
    BY <1>1, <1>2, <2>1
       DEF StandstillInv, ReadsSubmitted, HandedOver, InOnePlace, RowsExist
<1>5. Claims'
  BY <1>0, <1>1, <1>2, <1>3 DEF StandstillInv, Claims
<1>6. Attended'
  <2> SUFFICES ASSUME NEW q \in Query, status'[q] \in Live, lost' = 0,
                      q \notin Taken \union Waiting
               PROVE  node'[q] \in {"row", "spec", "failed"}
    BY <1>1 DEF Attended, Running
  <2>1. status[q] \in Live
    BY <1>3 DEF Elsewhere, Live
  <2>2. node[q] \in {"row", "spec", "failed"}
    BY <1>1, <2>1 DEF StandstillInv, Attended, Running
  <2> QED  BY <2>2 DEF Elsewhere
<1>7. NoCircularWait'
  <2>1. \A p \in Query : Blockers(p)' \subseteq Blockers(p)
    BY <1>1 DEF Blockers
  <2> QED  BY <2>1, FewerWaits DEF StandstillInv
<1> QED  BY <1>4, <1>5, <1>6, <1>7 DEF StandstillInv

LEMMA InitStandstill == Init => StandstillInv
<1> SUFFICES ASSUME Init PROVE StandstillInv
  OBVIOUS
<1>1. /\ Taken = {} /\ Waiting = {} /\ Len(stream) = 0
      /\ \A q \in Query : status[q] = "none" /\ node[q] = "new" /\ job[q] = NoQuery
      /\ \A j \in Join : refs[j] = {}
      /\ \A e \in Executor : pc[e] = "idle" /\ job[e] = NoQuery
  BY DEF Init, RowInit, Taken, Waiting, Executor
<1>2. \A q \in Query : Blockers(q) = {}
  <2>1. 1..Len(stream) = {}
    BY <1>1
  <2> QED  BY <1>1, <2>1 DEF Blockers
<1> QED
  BY <1>1, <1>2
     DEF StandstillInv, ReadsSubmitted, HandedOver, InOnePlace, Claims, RowsExist,
         Attended, Running, Live, NoCircularWait

LEMMA NextStandstill ==
    ASSUME ComposedInv, StandstillInv, ComposedInv', [Next]_vars
    PROVE  StandstillInv'
<1>1. CASE Next
  BY <1>1, PlacesStep, ChangesOfNodes, CreateStandstill, PublishStandstill,
     HandOverStandstill, TakeStandstill, RunStandstill, EndStandstill,
     ElsewhereStandstill DEF Places
<1>2. CASE UNCHANGED vars
  <2>1. UNCHANGED <<status, node, refs, stream, pc, job, lost>>
    BY <1>2 DEF vars, rowVars, nodeVars, runVars
  <2>2. Taken' = Taken /\ Waiting' = Waiting /\ Submitted' = Submitted
    BY <2>1 DEF Taken, Waiting, Submitted
  <2>3. NoCircularWait'
    <3>1. \A p \in Query : Blockers(p)' = Blockers(p)
      BY <2>1 DEF Blockers
    <3> QED  BY <3>1, FewerWaits DEF StandstillInv
  <2>4. ReadsSubmitted' /\ HandedOver'
    BY <2>1, <2>2 DEF StandstillInv, ReadsSubmitted, HandedOver
  <2>5. InOnePlace'
    BY <2>1, <2>2 DEF StandstillInv, InOnePlace
  <2>6. Claims'
    BY <2>1, <2>2 DEF StandstillInv, Claims
  <2>7. RowsExist' /\ Attended'
    BY <2>1, <2>2 DEF StandstillInv, RowsExist, Attended, Running
  <2> QED  BY <2>3, <2>4, <2>5, <2>6, <2>7 DEF StandstillInv
<1> QED  BY <1>1, <1>2

LEMMA StandstillInvariance == Spec => [](ComposedInv /\ StandstillInv)
<1>1. ComposedInv /\ ComposedInv' /\ StandstillInv /\ [Next]_vars => StandstillInv'
  BY NextStandstill
<1> QED  BY <1>1, InitStandstill, Invariance, PTL DEF Spec

(* No queries wait for each other in a circle: NoCircularWait. A join is   *)
(* published after the queries it reads, the stream is fetched in order,   *)
(* and what is fetched is executed or waits for what was fetched before.   *)
THEOREM NoCircles == Spec => []NoCircularWait
<1>1. StandstillInv => NoCircularWait
  BY DEF StandstillInv
<1> QED  BY <1>1, StandstillInvariance, PTL

-----------------------------------------------------------------------------
(* Of the running queries and those that are fetched, one waits for none   *)
(* of the others. If an executor has it, the executor can go on; if it is  *)
(* in the stream, a loop can fetch; and if not, its submission goes on.    *)

(* An executor that waits for nothing that is still running can go on.     *)
LEMMA WaitIsDecided ==
    ASSUME ComposedInv, StandstillInv, NEW e \in Executor, pc[e] # "idle",
           \A r \in Blockers(job[e]) : ~Running(r)
    PROVE  Progressing
<1>1. CASE pc[e] \in {"claim", "recheck", "run"}
  BY <1>1 DEF Progressing
<1>2. CASE pc[e] = "wait"
  <2>1. job[e] \in Join /\ job[e] \in Query
    BY <1>2, ComposedAssumption DEF ComposedInv, HandedOn
  <2>2. CASE bound[job[e]] = refs[job[e]]
    BY <1>2, <2>2 DEF Progressing
  <2>3. CASE bound[job[e]] # refs[job[e]]
    <3>1. PICK r \in refs[job[e]] \ bound[job[e]] : TRUE
      BY <2>1, <2>3 DEF ComposedInv, TypeOK
    <3>2. ~Running(r)
      BY <2>1, <3>1 DEF Blockers
    <3>3. r \in Submitted
      BY <2>1, <3>1 DEF StandstillInv, ReadsSubmitted
    <3>4. status[r] \in Status /\ status[r] # "none"
      BY <3>3 DEF Submitted, StandstillInv, RowsExist, ComposedInv, TypeOK, RowTypeOK
    <3>5. Completed(status[r]) \/ HasFailed(status[r])
      BY <3>2, <3>4 DEF Running, Live, Terminal, Status, Completed, HasFailed
    <3> QED  BY <1>2, <3>1, <3>5 DEF Progressing
  <2> QED  BY <2>2, <2>3
<1> QED  BY <1>1, <1>2 DEF ComposedInv, TypeOK

LEMMA SomebodyGoesOn ==
    ASSUME ComposedInv, StandstillInv
    PROVE  NoStandstill
<1> SUFFICES ASSUME lost = 0, NEW s \in Slot, NEW q \in Query, Running(q)
             PROVE  Progressing
  BY DEF NoStandstill
<1> DEFINE S == {p \in Query : Running(p)} \union Taken
<1>1. S \in SUBSET Query /\ q \in S
  BY TakenAndWaiting DEF ComposedInv
<1>2. PICK p \in S : Blockers(p) \intersect S = {}
  <2> HIDE DEF S
  <2> QED  BY <1>1 DEF StandstillInv, NoCircularWait
<1>3. /\ p \in Query
      /\ \A r \in Blockers(p) : r \in Query => ~Running(r) /\ r \notin Taken
  BY <1>1, <1>2
<1>4. Blockers(p) \subseteq Query
  BY <1>3 DEF Blockers, ComposedInv, TypeOK
<1>5. CASE p \in Taken
  <2>1. PICK e \in Executor : job[e] = p /\ job[e] # NoQuery
    BY <1>5 DEF Taken
  <2>2. pc[e] # "idle"
    BY <2>1 DEF ComposedInv, TypeOK
  <2> QED  BY <1>3, <1>4, <2>1, <2>2, WaitIsDecided
<1>6. CASE p \notin Taken
  <2>1. Running(p)
    BY <1>2, <1>6
  <2>2. node[p] \in {"row", "spec", "failed"} \/ p \in Waiting
    BY <1>3, <1>6, <2>1 DEF StandstillInv, Attended
  <2>3. CASE node[p] \in {"row", "spec", "failed"}
    BY <1>3, <2>3 DEF Progressing
  <2>4. CASE p \in Waiting
    <3>1. PICK i \in 1..Len(stream) : stream[i] = p
      BY <2>4 DEF Waiting
    <3>2. stream # <<>>
      BY <3>1
    <3>3. s \in Executor
      BY DEF Executor
    <3>4. CASE pc[s] = "idle"
      BY <3>2, <3>4 DEF Progressing
    <3>5. CASE pc[s] # "idle"
      <4>1. job[s] \in Query /\ job[s] # NoQuery
        BY <3>3, <3>5, ComposedAssumption DEF ComposedInv, TypeOK
      <4>2. job[s] \in Blockers(p)
        BY <1>3, <3>1, <4>1 DEF Blockers
      <4>3. job[s] \in Taken
        BY <3>3, <4>1 DEF Taken
      <4> QED  BY <1>3, <4>1, <4>2, <4>3
    <3> QED  BY <3>4, <3>5
  <2> QED  BY <2>2, <2>3, <2>4
<1> QED  BY <1>5, <1>6

(* Without losses somebody can always go on while a query is running, and  *)
(* without a wait timing out: NoStandstill, for every number of queries,   *)
(* joins and loops.                                                        *)
THEOREM NothingStandsStill == Spec => []NoStandstill
<1>1. ComposedInv /\ StandstillInv => NoStandstill
  BY SomebodyGoesOn
<1> QED  BY <1>1, StandstillInvariance, PTL

-----------------------------------------------------------------------------
(* The promise of QueryPromise, made to one query. What a step does to its *)
(* row, whatever it does to others.                                        *)
RowMoves(q) ==
    \/ status[q] = "none" /\ status'[q] = "pending" /\ file'[q] = file[q]
    \/ status[q] \in Live /\ status'[q] = "ready" /\ file'[q] \in File
    \/ /\ status[q] \in Live /\ file'[q] = file[q]
       /\ status'[q] \in {"queued", "executing", "expired", "cancelled", "error"}
    \/ /\ status[q] \in {"ready", "expired", "error"} /\ file'[q] = file[q]
       /\ status'[q] = "error"
    \/ status'[q] = status[q] /\ file'[q] = file[q]

LEMMA RowStepMoves ==
    ASSUME RowTypeOK, NEW p \in Query, RowStep(p), NEW q \in Query
    PROVE  RowMoves(q)
<1>1. CASE p = q
  BY <1>1 DEF RowStep, RowMoves, RowTypeOK, rowVars
<1>2. CASE p # q
  BY <1>2 DEF RowStep, RowMoves, RowTypeOK, rowVars
<1> QED  BY <1>1, <1>2

LEMMA MoveKeepsPromise ==
    ASSUME NEW q \in Query, RowMoves(q)
    PROVE  [PromiseTo(q)!PromiseNext]_(PromiseTo(q)!promiseVars)
<1> DEFINE outcome == [p \in {q} |-> OutcomeOf(status[p])]
           answer == [p \in {q} |-> file[p]]
<1>0. /\ outcome' = [outcome EXCEPT ![q] = OutcomeOf(status'[q])]
      /\ answer' = [answer EXCEPT ![q] = file'[q]]
      /\ outcome[q] = OutcomeOf(status[q])
      /\ file'[q] = file[q] => answer' = answer
  OBVIOUS
<1>1. CASE status[q] = "none" /\ status'[q] = "pending" /\ file'[q] = file[q]
  <2>1. PromiseTo(q)!Submit(q)
    BY <1>0, <1>1, OutcomeOfStatus DEF Live, PromiseTo!Submit
  <2> QED  BY <2>1 DEF PromiseTo!PromiseNext
<1>2. CASE status[q] \in Live /\ status'[q] = "ready" /\ file'[q] \in File
  <2>1. PromiseTo(q)!Answer(q)
    BY <1>0, <1>2, OutcomeOfStatus DEF PromiseTo!Answer
  <2> QED  BY <2>1 DEF PromiseTo!PromiseNext
<1>3. CASE /\ status[q] \in Live /\ file'[q] = file[q]
           /\ status'[q] \in {"queued", "executing", "expired", "cancelled", "error"}
  <2>0. outcome[q] = "running" /\ answer' = answer
    BY <1>0, <1>3, OutcomeOfStatus
  <2>1. CASE status'[q] \in {"queued", "executing"}
    <3>1. outcome' = outcome
      BY <1>0, <2>0, <2>1, OutcomeOfStatus DEF Live
    <3> QED  BY <2>0, <3>1 DEF PromiseTo!promiseVars
  <2>2. CASE status'[q] = "expired"
    <3>1. PromiseTo(q)!Expire(q)
      BY <1>0, <2>0, <2>2, OutcomeOfStatus DEF PromiseTo!Expire
    <3> QED  BY <3>1 DEF PromiseTo!PromiseNext
  <2>3. CASE status'[q] = "cancelled"
    <3>1. PromiseTo(q)!Cancel(q)
      BY <1>0, <2>0, <2>3, OutcomeOfStatus DEF PromiseTo!Cancel
    <3> QED  BY <3>1 DEF PromiseTo!PromiseNext
  <2>4. CASE status'[q] = "error"
    <3>1. PromiseTo(q)!Fail(q)
      BY <1>0, <2>0, <2>4, OutcomeOfStatus DEF PromiseTo!Fail
    <3> QED  BY <3>1 DEF PromiseTo!PromiseNext
  <2> QED  BY <1>3, <2>1, <2>2, <2>3, <2>4
<1>4. CASE /\ status[q] \in {"ready", "expired", "error"} /\ file'[q] = file[q]
           /\ status'[q] = "error"
  <2>1. CASE status[q] = "error"
    <3>1. outcome' = outcome /\ answer' = answer
      BY <1>0, <1>4, <2>1
    <3> QED  BY <3>1 DEF PromiseTo!promiseVars
  <2>2. CASE status[q] \in {"ready", "expired"}
    <3>1. PromiseTo(q)!Fail(q)
      BY <1>0, <1>4, <2>2, OutcomeOfStatus DEF PromiseTo!Fail
    <3> QED  BY <3>1 DEF PromiseTo!PromiseNext
  <2> QED  BY <1>4, <2>1, <2>2
<1>5. CASE status'[q] = status[q] /\ file'[q] = file[q]
  <2>1. outcome' = outcome /\ answer' = answer
    BY <1>0, <1>5
  <2> QED  BY <2>1 DEF PromiseTo!promiseVars
<1> QED  BY <1>1, <1>2, <1>3, <1>4, <1>5 DEF RowMoves

LEMMA NextMovesRows ==
    ASSUME TypeOK, Called, [Next]_vars, NEW q \in Query
    PROVE  RowMoves(q)
<1>0. RowTypeOK /\ \A e \in Executor : pc[e] # "idle" => job[e] \in Query /\ job[e] \in File
  BY ComposedAssumption DEF TypeOK
<1>1. CASE UNCHANGED rowVars
  BY <1>1 DEF rowVars, RowMoves
<1>2. CASE \E p \in Query : RowStep(p)
  BY <1>0, <1>2, RowStepMoves
<1>3. ASSUME NEW c \in Canceller, Cascade(c) PROVE RowMoves(q)
  <2>1. PICK ended : /\ \A p \in ended : status[p] \in Live
                     /\ \A p \in Query :
                           status'[p] = IF p \in ended THEN "cancelled" ELSE status[p]
    BY <1>0, <1>3, CascadeEffect DEF Running
  <2>2. file' = file
    BY <1>3 DEF Cascade
  <2> QED  BY <2>1, <2>2 DEF RowMoves
<1>4. ASSUME Next, ~UNCHANGED rowVars, ~\E c \in Canceller : Cascade(c)
      PROVE  \E p \in Query : RowStep(p)
  <2>1. ASSUME NEW p \in Query, CreateRow(p) \/ MarkQueued(p) \/ MarkEnqueueFailed(p)
        PROVE  RowStep(p)
    BY <1>0, <2>1, StatementIsRowStep DEF CreateRow, MarkQueued, MarkEnqueueFailed
  <2>2. ASSUME NEW e \in Executor,
               \/ Claim(e) \/ ExpireQueued(e) \/ Land(e) \/ WaitFails(e)
               \/ \E r \in Query : ReferenceFails(e, r)
        PROVE  RowStep(job[e])
    <3>1. pc[e] # "idle" /\ job[e] \in Query /\ job[e] \in File
      BY <1>0, <2>2 DEF Claim, ExpireQueued, Land, WaitFails, ReferenceFails
    <3>2. \/ UpdateToExecuting(job[e]) \/ UpdateToExpired(job[e])
          \/ UpdateToReady(job[e], job[e]) \/ UpdateToError(job[e])
      BY <2>2 DEF Claim, ExpireQueued, Land, WaitFails, ReferenceFails
    <3> QED  BY <1>0, <3>1, <3>2, StatementIsRowStep
  <2>3. ASSUME NEW c \in Canceller, CancelRow(c) PROVE RowStep(asked[c])
    <3>1. asked[c] \in Query
      BY <2>3 DEF CancelRow, Called, TypeOK
    <3> QED  BY <1>0, <2>3, <3>1, StatementIsRowStep DEF CancelRow
  <2>4. ASSUME NEW e \in Executor,
               \/ Claim(e) \/ ExpireQueued(e) \/ Land(e) \/ WaitFails(e)
               \/ \E r \in Query : ReferenceFails(e, r)
        PROVE  job[e] \in Query
    BY <1>0, <2>4 DEF Claim, ExpireQueued, Land, WaitFails, ReferenceFails
  <2>5. ASSUME NEW c \in Canceller, CancelRow(c) PROVE asked[c] \in Query
    BY <2>5 DEF CancelRow, Called, TypeOK
  <2>6. ASSUME NEW p \in Query,
               \/ WriteSpec(p) \/ Publish(p) \/ PublishFails(p) \/ HandOver(p)
               \/ Refuse(p) \/ SubmissionDies(p)
        PROVE  UNCHANGED rowVars
    BY <2>6 DEF WriteSpec, Publish, PublishFails, HandOver, Refuse, SubmissionDies
  <2>7. ASSUME NEW s \in Slot, Take(s) PROVE UNCHANGED rowVars
    BY <2>7 DEF Take
  <2>8. ASSUME NEW e \in Executor,
               \/ BindReferences(e) \/ Recheck(e) \/ ExecutorDies(e)
               \/ \E r \in Query : SeeReference(e, r)
        PROVE  UNCHANGED rowVars
    BY <2>8 DEF BindReferences, Recheck, ExecutorDies, SeeReference
  <2>9. ASSUME NEW c \in Canceller, CancelDies(c) \/ \E p \in Query : ReadRow(c, p)
        PROVE  UNCHANGED rowVars
    BY <2>9 DEF CancelDies, ReadRow
  <2> QED
    BY <1>4, <2>1, <2>2, <2>3, <2>4, <2>5, <2>6, <2>7, <2>8, <2>9
       DEF Next, Submits, Runs, Cancels
<1>5. CASE UNCHANGED vars
  BY <1>1, <1>5 DEF vars
<1> QED  BY <1>1, <1>2, <1>3, <1>4, <1>5

(* Whoever polls a leg, a join or a query that reads a join sees what      *)
(* QueryPromise promises: cancelled is final, by a cascade too, an answer  *)
(* is never replaced, and a query that failed is never answered.           *)
THEOREM EveryQueryKeepsPromise == Spec => EveryPromiseKept
<1> DEFINE EachKept == \A q \in Query :
                      [PromiseTo(q)!PromiseNext]_(PromiseTo(q)!promiseVars)
<1>1. Init => \A q \in Query : PromiseTo(q)!PromiseInit
  <2> SUFFICES ASSUME Init, NEW q \in Query PROVE PromiseTo(q)!PromiseInit
    OBVIOUS
  <2>1. status[q] = "none" /\ file[q] = NoFile
    BY DEF Init, RowInit
  <2> QED  BY <2>1, OutcomeOfStatus DEF PromiseTo!PromiseInit
<1>2. ComposedInv /\ [Next]_vars => [EachKept]_rowVars
  BY NextMovesRows, MoveKeepsPromise DEF ComposedInv
<1> QED
  BY <1>1, <1>2, Invariance, PTL DEF Spec, EveryPromiseKept
=============================================================================
