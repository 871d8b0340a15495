------------------------- MODULE QueryHistoryProofs -------------------------
(***************************************************************************)
(* What the WHERE clauses of QueryHistory guarantee by themselves, for any *)
(* number of rows and files and for callers that send any update at any    *)
(* time.                                                                   *)
(***************************************************************************)
EXTENDS QueryHistory, TLAPS

(* What the statements have in common: whichever is executed, one row at   *)
(* most changes, and it changes as one of these lines says. Every module   *)
(* that uses the table cites this lemma and not the statements.            *)
RowStep(q) ==
    \/ /\ status[q] = "none"
       /\ status' = [status EXCEPT ![q] = "pending"]
       /\ file' = file
    \/ /\ status[q] \in Live
       /\ status' = [status EXCEPT ![q] = "ready"]
       /\ \E f \in File : file' = [file EXCEPT ![q] = f]
    \/ /\ status[q] \in Live
       /\ \E s \in {"queued", "executing", "expired", "cancelled", "error"} :
             status' = [status EXCEPT ![q] = s]
       /\ file' = file
    \/ /\ status[q] \in {"ready", "expired", "error"}
       /\ status' = [status EXCEPT ![q] = "error"]
       /\ file' = file
    \/ UNCHANGED rowVars

(* A statement of the form SetStatus whose WHERE clause only matches live  *)
(* rows, or rows that become ERROR, is a RowStep.                          *)
LEMMA SetStatusStep ==
    ASSUME RowTypeOK, NEW q \in Query,
           NEW s \in {"queued", "executing", "expired", "cancelled", "error"},
           NEW STATE where, SetStatus(q, where, s),
           where => \/ status[q] \in Live
                    \/ status[q] \in {"ready", "expired", "error"} /\ s = "error"
    PROVE  RowStep(q)
<1>1. CASE where
  <2>1. status' = [status EXCEPT ![q] = s] /\ file' = file
    BY <1>1 DEF SetStatus
  <2>2. CASE status[q] \in Live
    BY <2>1, <2>2 DEF RowStep
  <2>3. CASE status[q] \in {"ready", "expired", "error"} /\ s = "error"
    BY <2>1, <2>3 DEF RowStep
  <2> QED  BY <1>1, <2>2, <2>3
<1>2. CASE ~where
  <2>1. status' = [status EXCEPT ![q] = status[q]] /\ file' = file
    BY <1>2 DEF SetStatus
  <2> QED  BY <2>1 DEF RowTypeOK, RowStep, rowVars
<1> QED  BY <1>1, <1>2

(* Every statement of the table is a RowStep of the row it names.          *)
LEMMA StatementIsRowStep ==
    ASSUME RowTypeOK, NEW q \in Query,
           \/ Insert(q)
           \/ UpdateToQueued(q)
           \/ UpdateToExecuting(q)
           \/ UpdateToExpired(q)
           \/ UpdateToCancelled(q)
           \/ UpdateToError(q)
           \/ UpdateClaimedToError(q)
           \/ \E f \in File : UpdateToReady(q, f)
    PROVE  RowStep(q)
<1>0. status[q] \in Status
  BY DEF RowTypeOK
<1>1. CASE Insert(q)
  BY <1>1 DEF Insert, RowStep
<1>2. CASE UpdateToQueued(q)
  BY <1>2, SetStatusStep DEF UpdateToQueued, MayQueue, Live
<1>3. CASE UpdateToExecuting(q)
  BY <1>3, SetStatusStep DEF UpdateToExecuting, MayExecute, Live
<1>4. CASE UpdateToExpired(q)
  BY <1>4, SetStatusStep DEF UpdateToExpired, MayExpire, Live
<1>5. CASE UpdateToCancelled(q)
  BY <1>5, SetStatusStep DEF UpdateToCancelled, MayCancel, Live
<1>6. CASE UpdateToError(q)
  BY <1>0, <1>6, SetStatusStep
     DEF UpdateToError, MayFail, Live, Terminal, Status
<1>7. CASE UpdateClaimedToError(q)
  BY <1>7, SetStatusStep DEF UpdateClaimedToError, MayFailClaimed, Live
<1>8. CASE \E f \in File : UpdateToReady(q, f)
  <2>1. PICK f \in File : UpdateToReady(q, f)
    BY <1>8
  <2>2. CASE MayAnswer(status[q])
    BY <2>1, <2>2 DEF UpdateToReady, MayAnswer, Live, RowStep
  <2>3. CASE ~MayAnswer(status[q])
    BY <2>1, <2>3 DEF UpdateToReady, RowTypeOK, RowStep, rowVars
  <2> QED  BY <2>2, <2>3
<1> QED  BY <1>1, <1>2, <1>3, <1>4, <1>5, <1>6, <1>7, <1>8

(* A row step keeps the table well formed: a READY row has its file.       *)
LEMMA RowStepInv ==
    ASSUME RowInv, NEW q \in Query, RowStep(q)
    PROVE  RowInv'
<1> USE NoFileAssumption DEF RowInv, RowTypeOK, FileOnlyWithAnswer, RowStep,
        Status, Live, Terminal
<1>1. CASE /\ status[q] = "none"
           /\ status' = [status EXCEPT ![q] = "pending"]
           /\ file' = file
  BY <1>1
<1>2. CASE /\ status[q] \in Live
           /\ status' = [status EXCEPT ![q] = "ready"]
           /\ \E f \in File : file' = [file EXCEPT ![q] = f]
  BY <1>2
<1>3. CASE /\ status[q] \in Live
           /\ \E s \in {"queued", "executing", "expired", "cancelled", "error"} :
                 status' = [status EXCEPT ![q] = s]
           /\ file' = file
  BY <1>3
<1>4. CASE /\ status[q] \in {"ready", "expired", "error"}
           /\ status' = [status EXCEPT ![q] = "error"]
           /\ file' = file
  BY <1>4
<1>5. CASE UNCHANGED rowVars
  BY <1>5 DEF rowVars
<1> QED  BY <1>1, <1>2, <1>3, <1>4, <1>5

LEMMA RowInitInv == RowInit => RowInv
  BY NoFileAssumption
     DEF RowInit, RowInv, RowTypeOK, FileOnlyWithAnswer, Status

(* Whatever updates the callers send, every READY row has a results file   *)
(* and no row that was never answered has one.                             *)
THEOREM RowInvariant == TableSpec => []RowInv
<1>1. ASSUME RowInv, [TableNext]_rowVars
      PROVE  RowInv'
  <2>1. CASE TableNext
    <3>1. PICK q \in Query :
              \/ Insert(q)
              \/ UpdateToQueued(q)
              \/ UpdateToExecuting(q)
              \/ UpdateToExpired(q)
              \/ UpdateToCancelled(q)
              \/ UpdateToError(q)
              \/ UpdateClaimedToError(q)
              \/ \E f \in File : UpdateToReady(q, f)
      BY <2>1 DEF TableNext
    <3>2. RowStep(q)
      BY <1>1, <3>1, StatementIsRowStep DEF RowInv
    <3> QED  BY <1>1, <3>2, RowStepInv
  <2>2. CASE UNCHANGED rowVars
    BY <1>1, <2>2 DEF rowVars, RowInv, RowTypeOK, FileOnlyWithAnswer
  <2> QED  BY <1>1, <2>1, <2>2
<1> QED  BY RowInitInv, <1>1, PTL DEF TableSpec

-----------------------------------------------------------------------------
(* The refinement mapping, row by row.                                     *)

LEMMA OutcomeOfStatus ==
    /\ OutcomeOf("none") = "absent"
    /\ \A s \in Live : OutcomeOf(s) = "running"
    /\ OutcomeOf("error") = "failed"
    /\ OutcomeOf("ready") = "ready"
    /\ OutcomeOf("cancelled") = "cancelled"
    /\ OutcomeOf("expired") = "expired"
  BY DEF OutcomeOf, Live

(* Writing s to the row of q writes OutcomeOf(s) to the outcome of q.      *)
LEMMA OutcomeOfWrite ==
    ASSUME RowTypeOK, NEW q \in Query, NEW s,
           status' = [status EXCEPT ![q] = s]
    PROVE  [p \in Query |-> OutcomeOf(status[p])]'
           = [[p \in Query |-> OutcomeOf(status[p])] EXCEPT ![q] = OutcomeOf(s)]
<1>1. \A p \in Query : status'[p] = IF p = q THEN s ELSE status[p]
  BY DEF RowTypeOK
<1>2. \A p \in Query :
        OutcomeOf(status'[p]) = IF p = q THEN OutcomeOf(s) ELSE OutcomeOf(status[p])
  BY <1>1
<1> QED  BY <1>2

(* Every row step is a step of the promise, or invisible to a poll.        *)
LEMMA RowStepKeepsPromise ==
    ASSUME RowInv, NEW q \in Query, RowStep(q)
    PROVE  [Promise!PromiseNext]_(Promise!promiseVars)
<1> DEFINE outcome == [p \in Query |-> OutcomeOf(status[p])]
<1>0. RowTypeOK
  BY DEF RowInv
<1>1. CASE /\ status[q] = "none"
           /\ status' = [status EXCEPT ![q] = "pending"]
           /\ file' = file
  <2>0. outcome' = [outcome EXCEPT ![q] = OutcomeOf("pending")]
    BY <1>0, <1>1, OutcomeOfWrite
  <2>1. outcome' = [outcome EXCEPT ![q] = "running"]
    BY <2>0, OutcomeOfStatus DEF Live
  <2>2. outcome[q] = "absent"
    BY <1>1, OutcomeOfStatus
  <2>3. Promise!Submit(q)
    BY <1>1, <2>1, <2>2 DEF Promise!Submit
  <2> QED  BY <2>3 DEF Promise!PromiseNext
<1>2. CASE /\ status[q] \in Live
           /\ status' = [status EXCEPT ![q] = "ready"]
           /\ \E f \in File : file' = [file EXCEPT ![q] = f]
  <2>0. outcome' = [outcome EXCEPT ![q] = OutcomeOf("ready")]
    BY <1>0, <1>2, OutcomeOfWrite
  <2>1. outcome' = [outcome EXCEPT ![q] = "ready"]
    BY <2>0, OutcomeOfStatus
  <2>2. outcome[q] = "running"
    BY <1>2, OutcomeOfStatus
  <2>3. Promise!Answer(q)
    BY <1>2, <2>1, <2>2 DEF Promise!Answer
  <2> QED  BY <2>3 DEF Promise!PromiseNext
<1>3. CASE /\ status[q] \in Live
           /\ \E s \in {"queued", "executing", "expired", "cancelled", "error"} :
                 status' = [status EXCEPT ![q] = s]
           /\ file' = file
  <2>0. PICK s \in {"queued", "executing", "expired", "cancelled", "error"} :
          status' = [status EXCEPT ![q] = s]
    BY <1>3
  <2>1. outcome' = [outcome EXCEPT ![q] = OutcomeOf(s)]
    BY <1>0, <2>0, OutcomeOfWrite
  <2>2. outcome[q] = "running"
    BY <1>3, OutcomeOfStatus
  <2>3. CASE s \in Live
    <3>1. OutcomeOf(s) = "running"
      BY <2>3, OutcomeOfStatus
    <3>2. UNCHANGED Promise!promiseVars
      BY <1>3, <2>1, <2>2, <3>1 DEF Promise!promiseVars
    <3> QED  BY <3>2
  <2>4. CASE s = "expired"
    <3>1. Promise!Expire(q)
      BY <1>3, <2>1, <2>2, <2>4, OutcomeOfStatus DEF Promise!Expire
    <3> QED  BY <3>1 DEF Promise!PromiseNext
  <2>5. CASE s = "cancelled"
    <3>1. Promise!Cancel(q)
      BY <1>3, <2>1, <2>2, <2>5, OutcomeOfStatus DEF Promise!Cancel
    <3> QED  BY <3>1 DEF Promise!PromiseNext
  <2>6. CASE s = "error"
    <3>1. Promise!Fail(q)
      BY <1>3, <2>1, <2>2, <2>6, OutcomeOfStatus DEF Promise!Fail
    <3> QED  BY <3>1 DEF Promise!PromiseNext
  <2> QED  BY <2>3, <2>4, <2>5, <2>6 DEF Live
<1>4. CASE /\ status[q] \in {"ready", "expired", "error"}
           /\ status' = [status EXCEPT ![q] = "error"]
           /\ file' = file
  <2>0. outcome' = [outcome EXCEPT ![q] = OutcomeOf("error")]
    BY <1>0, <1>4, OutcomeOfWrite
  <2>1. outcome' = [outcome EXCEPT ![q] = "failed"]
    BY <2>0, OutcomeOfStatus
  <2>2. CASE status[q] = "error"
    <3>1. UNCHANGED Promise!promiseVars
      BY <1>4, <2>1, <2>2, OutcomeOfStatus DEF Promise!promiseVars
    <3> QED  BY <3>1
  <2>3. CASE status[q] \in {"ready", "expired"}
    <3>1. Promise!Fail(q)
      BY <1>4, <2>1, <2>3, OutcomeOfStatus DEF Promise!Fail
    <3> QED  BY <3>1 DEF Promise!PromiseNext
  <2> QED  BY <1>4, <2>2, <2>3
<1>5. CASE UNCHANGED rowVars
  BY <1>5 DEF rowVars, Promise!promiseVars
<1> QED  BY <1>1, <1>2, <1>3, <1>4, <1>5 DEF RowStep

(* The table implements the promise, whatever its callers do.              *)
THEOREM TableKeepsPromise == TableSpec => PromiseKept
<1>1. RowInit => Promise!PromiseInit
  BY OutcomeOfStatus DEF RowInit, Promise!PromiseInit
<1>2. ASSUME RowInv, [TableNext]_rowVars
      PROVE  [Promise!PromiseNext]_(Promise!promiseVars)
  <2>1. CASE TableNext
    BY <1>2, <2>1, StatementIsRowStep, RowStepKeepsPromise DEF TableNext, RowInv
  <2>2. CASE UNCHANGED rowVars
    BY <2>2 DEF rowVars, Promise!promiseVars
  <2> QED  BY <1>2, <2>1, <2>2
<1> QED
  BY <1>1, <1>2, RowInvariant, PTL DEF TableSpec, PromiseKept, Promise!PromiseSpec
=============================================================================
