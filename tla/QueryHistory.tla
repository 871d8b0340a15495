---------------------------- MODULE QueryHistory ----------------------------
(***************************************************************************)
(* The query_history table: one row per asynchronous query, and the        *)
(* guarded single-statement updates QueryHistoryModel offers on it.        *)
(*                                                                         *)
(* Every process of the system (the API server that submits, the workers   *)
(* that run, the user who cancels) changes a row only through these        *)
(* statements, and no process holds a lock on a row between two of them,   *)
(* so the WHERE clauses are all that orders the processes. An update whose *)
(* WHERE clause matches no row changes nothing and is not an error.        *)
(*                                                                         *)
(* TableSpec below lets any caller send any update at any time: what holds *)
(* of it holds whatever the callers do.                                    *)
(***************************************************************************)
CONSTANTS
    Query,    \* query_uuids
    File,     \* names of results files
    NoFile    \* results_file_name IS NULL

ASSUME NoFileAssumption == NoFile \notin File

VARIABLES
    status,   \* status[q], "none" before the row is inserted
    file      \* results_file_name[q]

rowVars == <<status, file>>

Live == {"pending", "queued", "executing"}
Terminal == {"ready", "error", "cancelled", "expired"}
Status == {"none"} \union Live \union Terminal

RowTypeOK ==
    /\ status \in [Query -> Status]
    /\ file \in [Query -> File \union {NoFile}]

RowInit ==
    /\ status = [q \in Query |-> "none"]
    /\ file = [q \in Query |-> NoFile]

-----------------------------------------------------------------------------
(* The WHERE clauses on status.                                            *)

MayQueue(s) == s = "pending"

MayExecuteTerminal(s) == s \in {"pending", "queued", "ready", "cancelled"}
MayExecute(s) == s \in {"pending", "queued"}

MayExpireExecuting(s) == s \in Live
MayExpire(s) == s \in {"pending", "queued"}

MayAnswer(s) == s \in {"pending", "executing"}

MayCancelAnyRow(s) == s # "none"
MayCancel(s) == s \in Live

MayFailAnyRow(s) == s # "none"
MayFail(s) == s \notin {"none", "cancelled"}

MayFailClaimed(s) == s = "executing"

-----------------------------------------------------------------------------
(* The statements. An action with a false WHERE clause leaves the row.     *)

SetStatus(q, where, s) ==
    /\ status' = [status EXCEPT ![q] = IF where THEN s ELSE @]
    /\ UNCHANGED file

Insert(q) ==
    /\ status[q] = "none"
    /\ status' = [status EXCEPT ![q] = "pending"]
    /\ UNCHANGED file

UpdateToQueued(q) == SetStatus(q, MayQueue(status[q]), "queued")

UpdateToExecuting(q) == SetStatus(q, MayExecute(status[q]), "executing")

UpdateToExpired(q) == SetStatus(q, MayExpire(status[q]), "expired")

UpdateToCancelled(q) == SetStatus(q, MayCancel(status[q]), "cancelled")

UpdateToError(q) == SetStatus(q, MayFail(status[q]), "error")

UpdateClaimedToError(q) == SetStatus(q, MayFailClaimed(status[q]), "error")

(* READY and the results file are one statement: the mutated form writes   *)
(* the file in a second statement that lost the guard.                     *)
UpdateToReadyFileUnguarded(q, f) ==
    /\ status' = [status EXCEPT ![q] = IF MayAnswer(@) THEN "ready" ELSE @]
    /\ file' = [file EXCEPT ![q] = f]
UpdateToReady(q, f) ==
    /\ status' = [status EXCEPT ![q] = IF MayAnswer(@) THEN "ready" ELSE @]
    /\ file' = [file EXCEPT ![q] = IF MayAnswer(status[q]) THEN f ELSE @]

TableNext ==
    \E q \in Query :
        \/ Insert(q)
        \/ UpdateToQueued(q)
        \/ UpdateToExecuting(q)
        \/ UpdateToExpired(q)
        \/ UpdateToCancelled(q)
        \/ UpdateToError(q)
        \/ UpdateClaimedToError(q)
        \/ \E f \in File : UpdateToReady(q, f)

TableSpec == RowInit /\ [][TableNext]_rowVars

-----------------------------------------------------------------------------
(* A row has a results file exactly when it was answered: a READY row      *)
(* always has one, and the only other row that may have one is a READY row *)
(* later marked ERROR. getAsyncQueryResults reads the file of a READY row  *)
(* without looking further.                                                *)
FileOnlyWithAnswer ==
    \A q \in Query :
        /\ status[q] = "ready" => file[q] \in File
        /\ file[q] # NoFile => status[q] \in {"ready", "error"}

RowInv == RowTypeOK /\ FileOnlyWithAnswer

OutcomeOf(s) ==
    CASE s = "none" -> "absent"
      [] s \in Live -> "running"
      [] s = "error" -> "failed"
      [] OTHER -> s

Promise == INSTANCE QueryPromise WITH
    outcome <- [q \in Query |-> OutcomeOf(status[q])],
    answer <- file

(* The WHERE clauses alone keep the promise of QueryPromise, whatever      *)
(* updates the callers send and in whatever order: cancelled is final, an  *)
(* answer's file is never replaced, a failed or expired query is never     *)
(* answered.                                                               *)
PromiseKept == Promise!PromiseSpec
=============================================================================
