----------------------- MODULE MCAsyncQueryExecution -----------------------
(* Instances of AsyncQueryExecution for TLC. Behaviours with losses and    *)
(* the fair ones without are checked together, told apart by a variable    *)
(* that never changes.                                                     *)
EXTENDS AsyncQueryExecution, TLC

CONSTANTS q1, q2, w1, w2, cached

(* Every file a run of the instance could write, and one found in a cache. *)
MCFile == (({w1, w2, q1, q2}) \X {q1, q2} \X Attempt) \union {cached}

VARIABLE lossy

MCInit == Init /\ lossy \in BOOLEAN
MCNext == (Work \/ (lossy /\ Loss)) /\ UNCHANGED lossy

LossySpec == Init /\ lossy = TRUE /\ [][MCNext]_<<vars, lossy>>

MCSpec == MCInit /\ [][MCNext]_<<vars, lossy>> /\ Fairness

(* Where nothing is lost every query that is submitted ends, whichever of  *)
(* its steps fail (runAsyncWarehouseQueryInScope and its callers):         *)
(* EventuallyTerminal.                                                     *)
EndsUnlessLost == ~lossy => EventuallyTerminal
=============================================================================
