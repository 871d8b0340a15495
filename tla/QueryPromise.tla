---------------------------- MODULE QueryPromise ----------------------------
(***************************************************************************)
(* What an asynchronous query promises to whoever polls it, with none of   *)
(* the machinery that keeps the promise.                                   *)
(*                                                                         *)
(* A query is submitted once. While it is running it may be answered with  *)
(* one results file, fail, be cancelled by its creator, or expire in the   *)
(* queue. A cancelled query stays cancelled. An answered or expired query  *)
(* may still be reported as failed (a connection that could not be         *)
(* released, an enqueue call that failed although the job was stored), but *)
(* the file of an answer is never replaced by another one and a failed     *)
(* query is never answered afterwards.                                     *)
(***************************************************************************)
CONSTANTS Query, File, NoFile

VARIABLES
    outcome,   \* what a poll of the query reports
    answer     \* the results file the query was answered with

promiseVars == <<outcome, answer>>

Outcome == {"absent", "running", "ready", "failed", "cancelled", "expired"}

PromiseTypeOK ==
    /\ outcome \in [Query -> Outcome]
    /\ answer \in [Query -> File \union {NoFile}]

PromiseInit ==
    /\ outcome = [q \in Query |-> "absent"]
    /\ answer = [q \in Query |-> NoFile]

Submit(q) ==
    /\ outcome[q] = "absent"
    /\ outcome' = [outcome EXCEPT ![q] = "running"]
    /\ UNCHANGED answer

Answer(q) ==
    \E f \in File :
        /\ outcome[q] = "running"
        /\ outcome' = [outcome EXCEPT ![q] = "ready"]
        /\ answer' = [answer EXCEPT ![q] = f]

Fail(q) ==
    /\ outcome[q] \in {"running", "ready", "expired"}
    /\ outcome' = [outcome EXCEPT ![q] = "failed"]
    /\ UNCHANGED answer

Cancel(q) ==
    /\ outcome[q] = "running"
    /\ outcome' = [outcome EXCEPT ![q] = "cancelled"]
    /\ UNCHANGED answer

Expire(q) ==
    /\ outcome[q] = "running"
    /\ outcome' = [outcome EXCEPT ![q] = "expired"]
    /\ UNCHANGED answer

PromiseNext ==
    \E q \in Query :
        Submit(q) \/ Answer(q) \/ Fail(q) \/ Cancel(q) \/ Expire(q)

PromiseSpec == PromiseInit /\ [][PromiseNext]_promiseVars
=============================================================================
