---------------------------- MODULE MigrationLease ----------------------------
(***************************************************************************)
(* The migrate command. Every pod of a new release starts `up` or `wait`,  *)
(* and one of them migrates the database: it claims the lease, keeps it    *)
(* with a heartbeat, runs the pending Knex migrations one by one and then  *)
(* those of Graphile Worker, retries, and completes or parks. The others   *)
(* follow, and take over a lease whose heartbeat has gone. An operator     *)
(* may unlock.                                                             *)
(*                                                                         *)
(* A process claims at most once, so the claim token is the process. That  *)
(* a heartbeat is older than the expiry is the flag `expired`.             *)
(***************************************************************************)
EXTENDS Integers, FiniteSets

CONSTANTS
    Migrator,        \* processes, each runs one command
    Version,         \* application versions
    AppVersion,      \* of each process
    Files,           \* Knex migrations in the image of a version
    Jobs,            \* Graphile Worker schema of a version
    MaxAttempts,     \* migrationMaxAttempts
    Nobody           \* NULL

ASSUME MigrationAssumption ==
    /\ AppVersion \in [Migrator -> Version]
    /\ Files \in [Version -> Nat]
    /\ Jobs \in [Version -> Nat]
    /\ MaxAttempts \in Nat \ {0}
    /\ Nobody \notin Migrator \union Version

VARIABLES
    holder,      \* claim_token
    expired,     \* last_heartbeat is older than MIGRATION_LEASE_EXPIRY_MS
    current,     \* current_migration: NULL, a Knex migration or Graphile's
    parked,      \* parked_app_version
    applied,     \* length of knex_migrations
    graphile,    \* schema of Graphile Worker
    knexLock,    \* who locked knex_migrations_lock
    pc,
    attempt,
    next,        \* the first pending migration when it looked, 0 for none
    lost,        \* leaseLoss of its MigrationHeartbeat
    outcome,     \* migration_run_ledger, a row per attempt
    operator,    \* the migrate unlock command
    late,        \* history: migrations begun without owning the lease
    overdue      \* history: who lived when its lease expired or was forced open

leaseVars == <<holder, expired, current, parked>>
databaseVars == <<applied, graphile, knexLock>>
processVars == <<pc, attempt, next, lost, outcome>>
historyVars == <<late, overdue>>
vars == <<leaseVars, databaseVars, processVars, operator, historyVars>>

Ended == {"done", "failed", "crashed", "gaveup"}
Following == {"follow", "look", "promote"}
(* The holder's life, with the heartbeat running until it stops it.        *)
Beating == {"attempt", "clear", "announce", "migrate", "running", "migrated",
            "graphile", "graphiled", "broken", "retry"}
Stopped == {"park", "complete"}
Holding == Beating \union Stopped
Working == {"running", "graphile"}

TypeOK ==
    /\ holder \in Migrator \union {Nobody}
    /\ expired \in BOOLEAN
    /\ current \in {"none", "knex", "graphile"}
    /\ parked \in Version \union {Nobody}
    /\ applied \in Nat /\ graphile \in Nat
    /\ knexLock \in Migrator \union {Nobody}
    /\ pc \in [Migrator -> {"idle", "ready"} \union Following \union Holding \union Ended]
    /\ attempt \in [Migrator -> 1..MaxAttempts]
    /\ next \in [Migrator -> Nat]
    /\ lost \in [Migrator -> BOOLEAN]
    /\ outcome \in [Migrator ->
          [1..MaxAttempts -> {"none", "running", "retrying", "succeeded", "parked"}]]
    /\ operator \in {"idle", "unlock", "force", "clear"}
    /\ late \in [Migrator -> Nat]
    /\ overdue \subseteq Migrator

Init ==
    /\ holder = Nobody /\ expired = FALSE /\ current = "none" /\ parked = Nobody
    /\ applied = 0 /\ graphile = 0 /\ knexLock = Nobody
    /\ pc = [m \in Migrator |-> "idle"]
    /\ attempt = [m \in Migrator |-> 1]
    /\ next = [m \in Migrator |-> 0]
    /\ lost = [m \in Migrator |-> FALSE]
    /\ outcome = [m \in Migrator |-> [a \in 1..MaxAttempts |-> "none"]]
    /\ operator = "idle"
    /\ late = [m \in Migrator |-> 0]
    /\ overdue = {}

Goto(m, step) == pc' = [pc EXCEPT ![m] = step]

(* The first file of this image that knex_migrations lacks.                *)
Pending(m) == IF applied < Files[AppVersion[m]] THEN applied + 1 ELSE 0

Claimable == holder = Nobody \/ expired

-----------------------------------------------------------------------------
(* runUp, runWait and followMigrations.                                    *)

Up(m) ==
    /\ pc[m] = "idle"
    /\ Goto(m, "ready")
    /\ UNCHANGED <<leaseVars, databaseVars, attempt, next, lost, outcome, operator, historyVars>>

Wait(m) ==
    /\ pc[m] = "idle"
    /\ Goto(m, "follow")
    /\ UNCHANGED <<leaseVars, databaseVars, attempt, next, lost, outcome, operator, historyVars>>

(* One UPDATE decides. Whether the version is parked is part of it.        *)
MayClaimParked(m) == Claimable
MayClaimHeld(m) == parked # AppVersion[m]
MayClaim(m) == Claimable /\ parked # AppVersion[m]

Claim(m) ==
    /\ pc[m] \in {"ready", "promote"}
    /\ IF MayClaim(m)
       THEN /\ holder' = m
            /\ expired' = FALSE
            /\ current' = "none"
            /\ Goto(m, "attempt")
       ELSE /\ Goto(m, "follow")
            /\ UNCHANGED <<holder, expired, current>>
    /\ UNCHANGED <<parked, databaseVars, attempt, next, lost, outcome, operator, historyVars>>

(* A follower reads the migrations and then the lease.                     *)
ReadState(m) ==
    /\ pc[m] = "follow"
    /\ next' = [next EXCEPT ![m] = Pending(m)]
    /\ Goto(m, "look")
    /\ UNCHANGED <<leaseVars, databaseVars, attempt, lost, outcome, operator, historyVars>>

HasPendingWork(m) == next[m] # 0 \/ current # "none"

AfterLookHeld(m) ==
    IF parked = AppVersion[m] THEN "failed"
    ELSE IF ~HasPendingWork(m) /\ Claimable THEN "done"
    ELSE IF HasPendingWork(m) /\ holder = Nobody THEN "promote"
    ELSE "follow"
AfterLook(m) ==
    IF parked = AppVersion[m] THEN "failed"
    ELSE IF ~HasPendingWork(m) /\ Claimable THEN "done"
    ELSE IF HasPendingWork(m) /\ Claimable THEN "promote"
    ELSE "follow"

ReadLease(m) ==
    /\ pc[m] = "look"
    /\ Goto(m, AfterLook(m))
    /\ UNCHANGED <<leaseVars, databaseVars, attempt, next, lost, outcome, operator, historyVars>>

(* MigrationWaitTimeoutError.                                              *)
GiveUp(m) ==
    /\ pc[m] = "follow"
    /\ Goto(m, "gaveup")
    /\ UNCHANGED <<leaseVars, databaseVars, attempt, next, lost, outcome, operator, historyVars>>

-----------------------------------------------------------------------------
(* The heartbeat of a holder, on a connection of its own.                  *)

Beat(m) ==
    /\ pc[m] \in Beating
    /\ ~lost[m]
    /\ IF holder = m
       THEN expired' = FALSE /\ UNCHANGED lost
       ELSE lost' = [lost EXCEPT ![m] = TRUE] /\ UNCHANGED expired
    /\ UNCHANGED <<holder, current, parked, databaseVars, pc, attempt, next, outcome,
                   operator, historyVars>>

(* The database did not answer for as long as the lease lasts.             *)
BeatFails(m) ==
    /\ pc[m] \in Beating
    /\ ~lost[m]
    /\ holder = m => expired
    /\ lost' = [lost EXCEPT ![m] = TRUE]
    /\ UNCHANGED <<leaseVars, databaseVars, pc, attempt, next, outcome, operator, historyVars>>

Living(h) == {m \in {h} \intersect Migrator : pc[m] \notin Ended}

(* No beat for MIGRATION_LEASE_EXPIRY_MS: the holder died, or stalls.      *)
Expire ==
    /\ holder # Nobody
    /\ ~expired
    /\ expired' = TRUE
    /\ overdue' = overdue \union Living(holder)
    /\ UNCHANGED <<holder, current, parked, databaseVars, processVars, operator, late>>

(* A crash, an error nothing catches, or the exit onLeaseLost asks for.    *)
(* The Knex lock of a migration outside a transaction stays, and the       *)
(* memory of the process goes.                                             *)
Dies(m, step) ==
    /\ pc[m] \notin Ended \union {"idle"}
    /\ Goto(m, step)
    /\ knexLock' \in IF knexLock = m THEN {m, Nobody} ELSE {knexLock}
    /\ attempt' = [attempt EXCEPT ![m] = 1]
    /\ next' = [next EXCEPT ![m] = 0]
    /\ lost' = [lost EXCEPT ![m] = FALSE]
    /\ UNCHANGED <<leaseVars, applied, graphile, outcome, operator, historyVars>>

Crash(m) == Dies(m, "crashed")
ExitOnLoss(m) == lost[m] /\ pc[m] \in Holding /\ Dies(m, "failed")

-----------------------------------------------------------------------------
(* runHolderAttempt. The ledger row asks for no lease.                     *)
StartRun(m) ==
    /\ pc[m] = "attempt"
    /\ next' = [next EXCEPT ![m] = Pending(m)]
    /\ outcome' = [outcome EXCEPT ![m][attempt[m]] = "running"]
    /\ Goto(m, "clear")
    /\ UNCHANGED <<leaseVars, databaseVars, attempt, lost, operator, historyVars>>

(* The stale Knex lock goes, then invalid indexes. assertHeld follows.     *)
ClearKnexLock(m) ==
    /\ pc[m] = "clear"
    /\ knexLock' = Nobody
    /\ Goto(m, IF lost[m] THEN "broken" ELSE "announce")
    /\ UNCHANGED <<leaseVars, applied, graphile, attempt, next, lost, outcome, operator, historyVars>>

(* setCurrentMigration, whose UPDATE finds the row only under its token.   *)
AnnounceUnchecked(m) ==
    /\ pc[m] = "announce"
    /\ current' = IF holder # m THEN current ELSE IF next[m] # 0 THEN "knex" ELSE "graphile"
    /\ Goto(m, IF lost[m] THEN "broken" ELSE IF next[m] # 0 THEN "migrate" ELSE "graphile")
    /\ UNCHANGED <<holder, expired, parked, databaseVars, attempt, next, lost, outcome,
                   operator, historyVars>>
Announce(m) ==
    /\ pc[m] = "announce"
    /\ current' = IF holder # m THEN current ELSE IF next[m] # 0 THEN "knex" ELSE "graphile"
    /\ Goto(m, IF holder # m \/ lost[m] THEN "broken"
               ELSE IF next[m] # 0 THEN "migrate" ELSE "graphile")
    /\ UNCHANGED <<holder, expired, parked, databaseVars, attempt, next, lost, outcome,
                   operator, historyVars>>

(* database.migrate.up: nothing to do, the lock, or an error.              *)
BeginMigration(m) ==
    /\ pc[m] = "migrate"
    /\ \/ /\ next[m] <= applied
          /\ Goto(m, "migrated")
          /\ UNCHANGED <<knexLock, late>>
       \/ /\ next[m] > applied
          /\ knexLock = Nobody
          /\ knexLock' = m
          /\ late' = [late EXCEPT ![m] = IF holder = m THEN @ ELSE @ + 1]
          /\ Goto(m, "running")
       \/ /\ next[m] > applied
          /\ knexLock # Nobody
          /\ Goto(m, "broken")
          /\ UNCHANGED <<knexLock, late>>
    /\ UNCHANGED <<leaseVars, applied, graphile, attempt, next, lost, outcome, operator,
                   overdue>>

(* It is recorded, unless another process has recorded it.                 *)
EndMigration(m) ==
    /\ pc[m] = "running"
    /\ \/ /\ next[m] = applied + 1
          /\ applied' = next[m]
          /\ Goto(m, "migrated")
       \/ /\ Goto(m, "broken")
          /\ UNCHANGED applied
    /\ knexLock' = Nobody
    /\ UNCHANGED <<leaseVars, graphile, attempt, next, lost, outcome, operator, historyVars>>

(* assertHeld, then getMigrationState again.                               *)
NextMigrationUnread(m) ==
    /\ pc[m] = "migrated"
    /\ next' = [next EXCEPT ![m] = IF lost[m] THEN @ ELSE 0]
    /\ Goto(m, IF lost[m] THEN "broken" ELSE "announce")
    /\ UNCHANGED <<leaseVars, databaseVars, attempt, lost, outcome, operator, historyVars>>
NextMigration(m) ==
    /\ pc[m] = "migrated"
    /\ next' = [next EXCEPT ![m] = IF lost[m] THEN @ ELSE Pending(m)]
    /\ Goto(m, IF lost[m] THEN "broken" ELSE "announce")
    /\ UNCHANGED <<leaseVars, databaseVars, attempt, lost, outcome, operator, historyVars>>

RunGraphile(m) ==
    /\ pc[m] = "graphile"
    /\ \/ /\ graphile' = IF graphile < Jobs[AppVersion[m]] THEN Jobs[AppVersion[m]] ELSE graphile
          /\ Goto(m, IF lost[m] THEN "broken" ELSE "graphiled")
       \/ /\ Goto(m, "broken")
          /\ UNCHANGED graphile
    /\ late' = [late EXCEPT ![m] = IF holder = m THEN @ ELSE @ + 1]
    /\ UNCHANGED <<leaseVars, applied, knexLock, attempt, next, lost, outcome, operator,
                   overdue>>

(* setCurrentMigration(token, null).                                       *)
ClearCurrent(m) ==
    /\ pc[m] = "graphiled"
    /\ current' = IF holder = m THEN "none" ELSE current
    /\ Goto(m, IF holder # m \/ lost[m] THEN "broken" ELSE "complete")
    /\ UNCHANGED <<holder, expired, parked, databaseVars, attempt, next, lost, outcome,
                   operator, historyVars>>

(* Any call of the attempt may throw.                                      *)
AttemptFails(m) ==
    /\ pc[m] \in {"clear", "announce", "migrate", "migrated", "graphiled"}
    /\ Goto(m, "broken")
    /\ UNCHANGED <<leaseVars, databaseVars, attempt, next, lost, outcome, operator, historyVars>>

-----------------------------------------------------------------------------
(* runHolderAttempts and runAsHolder.                                      *)

Record(m, result) == outcome' = [outcome EXCEPT ![m][attempt[m]] = result]

(* A retry is recorded on the ledger only, or there is none left.          *)
RetryOnceLess(m) ==
    /\ pc[m] = "broken"
    /\ IF attempt[m] < MaxAttempts - 1
       THEN Record(m, "retrying") /\ Goto(m, IF lost[m] THEN "failed" ELSE "retry")
       ELSE Goto(m, IF lost[m] THEN "failed" ELSE "park") /\ UNCHANGED outcome
    /\ UNCHANGED <<leaseVars, databaseVars, attempt, next, lost, operator, historyVars>>
Retry(m) ==
    /\ pc[m] = "broken"
    /\ IF attempt[m] < MaxAttempts
       THEN Record(m, "retrying") /\ Goto(m, IF lost[m] THEN "failed" ELSE "retry")
       ELSE Goto(m, IF lost[m] THEN "failed" ELSE "park") /\ UNCHANGED outcome
    /\ UNCHANGED <<leaseVars, databaseVars, attempt, next, lost, operator, historyVars>>

(* After the delay.                                                        *)
NextAttempt(m) ==
    /\ pc[m] = "retry"
    /\ IF lost[m] THEN Goto(m, "failed") /\ UNCHANGED attempt
       ELSE Goto(m, "attempt") /\ attempt' = [attempt EXCEPT ![m] = @ + 1]
    /\ UNCHANGED <<leaseVars, databaseVars, next, lost, outcome, operator, historyVars>>

(* parkRun and completeRun: ledger and lease in one transaction, which is  *)
(* rolled back when the lease is another's.                                *)
Release(m, result, version) ==
    IF holder = m
    THEN /\ Record(m, result)
         /\ holder' = Nobody /\ expired' = FALSE /\ current' = "none"
         /\ parked' = version
    ELSE UNCHANGED <<leaseVars, outcome>>

ParkAnyLease(m) ==
    /\ pc[m] = "park"
    /\ Record(m, "parked")
    /\ holder' = Nobody /\ expired' = FALSE /\ current' = "none"
    /\ parked' = AppVersion[m]
    /\ Goto(m, "failed")
    /\ UNCHANGED <<databaseVars, attempt, next, lost, operator, historyVars>>
Park(m) ==
    /\ pc[m] = "park"
    /\ Release(m, "parked", AppVersion[m])
    /\ Goto(m, "failed")
    /\ UNCHANGED <<databaseVars, attempt, next, lost, operator, historyVars>>

Complete(m) ==
    /\ pc[m] = "complete"
    /\ Release(m, "succeeded", Nobody)
    /\ Goto(m, IF holder = m THEN "done" ELSE "failed")
    /\ UNCHANGED <<databaseVars, attempt, next, lost, operator, historyVars>>

-----------------------------------------------------------------------------
(* runUnlock: the check, the UPDATE, the Knex lock.                        *)

CheckUnlock ==
    /\ operator = "idle"
    /\ \/ operator' = "force"
       \/ (holder # Nobody \/ knexLock = Nobody) /\ operator' = "unlock"
    /\ UNCHANGED <<leaseVars, databaseVars, processVars, historyVars>>

Unlock ==
    /\ operator \in {"unlock", "force"}
    /\ IF operator = "force" \/ Claimable
       THEN /\ holder' = Nobody /\ expired' = FALSE /\ current' = "none" /\ parked' = Nobody
            /\ operator' = "clear"
            /\ overdue' = overdue \union Living(holder)
       ELSE operator' = "idle" /\ UNCHANGED <<leaseVars, overdue>>
    /\ UNCHANGED <<databaseVars, processVars, late>>

ClearUnlocked ==
    /\ operator = "clear"
    /\ knexLock' = Nobody
    /\ operator' = "idle"
    /\ UNCHANGED <<leaseVars, applied, graphile, processVars, historyVars>>

-----------------------------------------------------------------------------
Follower(m) == Claim(m) \/ ReadState(m) \/ ReadLease(m)
Holder(m) ==
    \/ StartRun(m) \/ ClearKnexLock(m) \/ Announce(m) \/ BeginMigration(m) \/ EndMigration(m)
    \/ NextMigration(m) \/ RunGraphile(m) \/ ClearCurrent(m)
    \/ Retry(m) \/ NextAttempt(m) \/ Park(m) \/ Complete(m)

Next ==
    \/ \E m \in Migrator :
        \/ Up(m) \/ Wait(m) \/ Follower(m) \/ GiveUp(m)
        \/ Beat(m) \/ BeatFails(m) \/ Crash(m) \/ ExitOnLoss(m)
        \/ Holder(m) \/ AttemptFails(m)
    \/ Expire
    \/ CheckUnlock \/ Unlock \/ ClearUnlocked

Spec == Init /\ [][Next]_vars

(* A step's promise settles, polls go on, and the clock runs.              *)
Fairness ==
    /\ \A m \in Migrator : WF_vars(Follower(m)) /\ WF_vars(Holder(m))
    /\ WF_vars(Expire /\ pc[holder] \in Ended)

FairSpec == Spec /\ Fairness

-----------------------------------------------------------------------------
(* Processes whose heartbeat is in time migrate one at a time, whatever    *)
(* crashes, takeovers and unlocks there are: each owns the lease.          *)
OneMigrator == \A m \in Migrator \ overdue : pc[m] \in Holding => holder = m

(* A holder that lost its lease unawares, to a takeover or to a forced     *)
(* unlock, does at most one more step of the migration.                    *)
LateBounded == \A m \in Migrator : late[m] <= 1

(* A run recorded as succeeded has done every migration of its version,    *)
(* even when its process had lost and regained the database in between.    *)
SucceededMeansMigrated ==
    \A m \in Migrator : (\E a \in 1..MaxAttempts : outcome[m][a] = "succeeded")
        => applied >= Files[AppVersion[m]] /\ graphile >= Jobs[AppVersion[m]]

(* While a version is parked nobody of that version works on the database: *)
(* the mark is put and the lease given up in one transaction.              *)
ParkedIsIdle ==
    \A m \in Migrator \ overdue : pc[m] \in Holding => parked # AppVersion[m]

(* The lease is parked for a version only by a run of that version whose   *)
(* attempts are all used, and which the ledger calls parked.               *)
ParkedIsRecorded ==
    parked # Nobody =>
        \E m \in Migrator : AppVersion[m] = parked /\ outcome[m][MaxAttempts] = "parked"

(* A process that lost its lease does not end that of its successor: a     *)
(* lease passes from a holder only by its own end, an expiry or an unlock. *)
TakenOnlyWhenFree ==
    [][\A m \in Migrator : holder = m /\ holder' # m =>
          \/ expired
          \/ operator \in {"unlock", "force"}
          \/ pc[m] \in Stopped /\ pc'[m] \in Ended]_vars

(* Every command ends though nobody gives up waiting: a lease whose holder *)
(* died is taken over.                                                     *)
EveryCommandEnds ==
    \A m \in Migrator : pc[m] # "idle" ~> pc[m] \in Ended

(* What a run has before it: the attempts, in each the migrations that are *)
(* left, and in each of these its steps.                                   *)
Left(m) ==
    IF pc[m] = "attempt" THEN Files[AppVersion[m]] + 1
    ELSE IF pc[m] \in {"clear", "announce", "migrate", "running", "migrated"} /\ next[m] # 0
    THEN Files[AppVersion[m]] + 1 - next[m]
    ELSE 0
StepsOf == [attempt |-> 0, clear |-> 6, announce |-> 5, migrate |-> 4, running |-> 3, migrated |-> 2,
            graphile |-> 4, graphiled |-> 3, complete |-> 2, broken |-> 1, retry |-> 0, park |-> 0]
Onward(m) ==
    \/ pc'[m] \in Ended
    \/ attempt'[m] > attempt[m]
    \/ attempt'[m] = attempt[m] /\ Left(m)' < Left(m)
    \/ attempt'[m] = attempt[m] /\ Left(m)' = Left(m) /\ StepsOf[pc'[m]] < StepsOf[pc[m]]

(* Whatever others do to the database and the lease, a run never does      *)
(* again what it has done in its attempt: each of its steps brings it      *)
(* nearer to its end, so that no run goes on for ever.                     *)
RunsGoForward ==
    [][\A m \in Migrator : pc[m] \in Holding /\ pc'[m] # pc[m] => Onward(m)]_vars

(* Why it does: a migration that a run takes for done is recorded, so the  *)
(* next one that it finds is a later one.                                  *)
ForwardInv ==
    \A m \in Migrator :
        /\ next[m] <= Files[AppVersion[m]]
        /\ pc[m] = "migrated" => next[m] <= applied
        /\ pc[m] \in {"migrate", "running", "migrated"} => next[m] # 0
=============================================================================
