------------------------- MODULE MigrationLeaseProofs -------------------------
(***************************************************************************)
(* For any number of processes and versions. Each part of the invariant    *)
(* has a lemma of its own.                                                 *)
(***************************************************************************)
EXTENDS MigrationLease, TLAPS

(* Whoever is in its run, and never overdue, owns a lease that has not     *)
(* expired.                                                                *)
HeldInv ==
    \A m \in Migrator \ overdue : pc[m] \in Holding =>
        holder = m /\ ~expired /\ parked # AppVersion[m]

(* Who began a migration late has no lease and never will, so it does not  *)
(* pass another announcement.                                              *)
LateInv ==
    \A m \in Migrator :
        /\ late[m] <= 1
        /\ late[m] = 1 => holder # m /\ pc[m] \in (Holding \union Ended) \ {"migrate", "graphile"}

Migrated(m) == applied >= Files[AppVersion[m]] /\ graphile >= Jobs[AppVersion[m]]

(* What a holder knows of the database as it goes on.                      *)
DoneInv ==
    \A m \in Migrator :
        /\ pc[m] \in {"clear", "announce"} /\ next[m] = 0 => applied >= Files[AppVersion[m]]
        /\ pc[m] = "graphile" => applied >= Files[AppVersion[m]]
        /\ pc[m] \in {"graphiled", "complete"} => Migrated(m)
        /\ (\E a \in 1..MaxAttempts : outcome[m][a] = "succeeded") => Migrated(m)

(* Only the last attempt parks, and its process ends with it.              *)
RecordInv ==
    /\ \A m \in Migrator :
          /\ pc[m] = "park" => attempt[m] = MaxAttempts
          /\ outcome[m][MaxAttempts] = "parked" => pc[m] \in Ended
    /\ ParkedIsRecorded

(* An attempt is retried only when there is another one.                  *)
RetryInv == \A m \in Migrator : pc[m] = "retry" => attempt[m] < MaxAttempts

LeaseInv == TypeOK /\ RetryInv /\ HeldInv /\ LateInv /\ DoneInv /\ RecordInv

LEMMA InitInv == Init => LeaseInv
<1> SUFFICES ASSUME Init PROVE LeaseInv
  OBVIOUS
<1> USE MigrationAssumption DEF Init, Holding, Beating, Stopped, Ended
<1>1. TypeOK /\ RetryInv
  <2>1. [m \in Migrator |-> 1] \in [Migrator -> 1..MaxAttempts]
    OBVIOUS
  <2> QED BY <2>1 DEF TypeOK, RetryInv
<1>2. HeldInv /\ LateInv
  BY DEF HeldInv, LateInv
<1>3. DoneInv
  BY DEF DoneInv
<1>4. RecordInv
  BY DEF RecordInv, ParkedIsRecorded
<1> QED BY <1>1, <1>2, <1>3, <1>4 DEF LeaseInv

(* One entry of the ledger changes.                                        *)
Outcome == {"none", "running", "retrying", "succeeded", "parked"}

LEMMA RecordEffect ==
    ASSUME TypeOK, NEW m \in Migrator, NEW result \in Outcome, Record(m, result)
    PROVE  /\ outcome' \in [Migrator -> [1..MaxAttempts -> Outcome]]
           /\ outcome'[m][attempt[m]] = result
           /\ \A x \in Migrator, a \in 1..MaxAttempts :
                 x # m \/ a # attempt[m] => outcome'[x][a] = outcome[x][a]
<1> DEFINE row == [outcome[m] EXCEPT ![attempt[m]] = result]
<1>1. attempt[m] \in 1..MaxAttempts /\ outcome \in [Migrator -> [1..MaxAttempts -> Outcome]]
  BY DEF TypeOK, Outcome
<1>2. row \in [1..MaxAttempts -> Outcome]
  BY <1>1
<1>3. outcome' = [outcome EXCEPT ![m] = row]
  BY DEF Record
<1>4. outcome'[m] = row /\ \A x \in Migrator \ {m} : outcome'[x] = outcome[x]
  BY <1>1, <1>3
<1>5. row[attempt[m]] = result /\ \A a \in 1..MaxAttempts : a # attempt[m] => row[a] = outcome[m][a]
  BY <1>1
<1> QED BY <1>1, <1>2, <1>3, <1>4, <1>5

LEMMA RecordOnly ==
    ASSUME TypeOK, NEW m \in Migrator, NEW result \in Outcome, Record(m, result)
    PROVE  \A x \in Migrator, a \in 1..MaxAttempts :
              outcome'[x][a] = outcome[x][a] \/ (outcome'[x][a] = result /\ x = m /\ a = attempt[m])
BY RecordEffect

LEMMA TypeStep ==
    ASSUME TypeOK, RetryInv, [Next]_vars
    PROVE  TypeOK'
<1> USE MigrationAssumption
    DEF TypeOK, leaseVars, databaseVars, processVars, historyVars, Goto,
        Ended, Following, Holding, Beating, Stopped
<1>1. ASSUME NEW m \in Migrator, Up(m) PROVE TypeOK'
  BY <1>1 DEF Up
<1>2. ASSUME NEW m \in Migrator, Wait(m) PROVE TypeOK'
  BY <1>2 DEF Wait
<1>3. ASSUME NEW m \in Migrator, Claim(m) PROVE TypeOK'
  BY <1>3 DEF Claim, MayClaim, Claimable
<1>4. ASSUME NEW m \in Migrator, ReadState(m) PROVE TypeOK'
  <2>1. Pending(m) \in Nat
    BY DEF Pending
  <2> QED BY <1>4, <2>1 DEF ReadState
<1>5. ASSUME NEW m \in Migrator, ReadLease(m) PROVE TypeOK'
  BY <1>5 DEF ReadLease, AfterLook, HasPendingWork, Claimable
<1>6. ASSUME NEW m \in Migrator, GiveUp(m) PROVE TypeOK'
  BY <1>6 DEF GiveUp
<1>7. ASSUME NEW m \in Migrator, Beat(m) PROVE TypeOK'
  BY <1>7 DEF Beat
<1>8. ASSUME NEW m \in Migrator, BeatFails(m) PROVE TypeOK'
  BY <1>8 DEF BeatFails
<1>9. ASSUME NEW m \in Migrator, Crash(m) PROVE TypeOK'
  BY <1>9 DEF Crash, Dies
<1>10. ASSUME NEW m \in Migrator, ExitOnLoss(m) PROVE TypeOK'
  BY <1>10 DEF ExitOnLoss, Dies
<1>11. ASSUME NEW m \in Migrator, StartRun(m) PROVE TypeOK'
  <2>1. Record(m, "running")
    BY <1>11 DEF StartRun, Record
  <2>2. outcome' \in [Migrator -> [1..MaxAttempts -> Outcome]]
    BY <2>1, RecordEffect DEF Outcome
  <2>3. Pending(m) \in Nat
    BY DEF Pending
  <2>4. next' \in [Migrator -> Nat]
    BY <1>11, <2>3 DEF StartRun
  <2>5. pc' \in [Migrator -> {"idle", "ready"} \union Following \union Holding \union Ended]
    BY <1>11 DEF StartRun
  <2> QED BY <1>11, <2>2, <2>4, <2>5 DEF StartRun, Outcome
<1>12. ASSUME NEW m \in Migrator, ClearKnexLock(m) PROVE TypeOK'
  BY <1>12 DEF ClearKnexLock
<1>13. ASSUME NEW m \in Migrator, Announce(m) PROVE TypeOK'
  BY <1>13 DEF Announce
<1>14. ASSUME NEW m \in Migrator, BeginMigration(m) PROVE TypeOK'
  <2>1. late' \in [Migrator -> Nat] /\ knexLock' \in Migrator \union {Nobody}
    BY <1>14 DEF BeginMigration
  <2>2. pc' \in [Migrator -> {"idle", "ready"} \union Following \union Holding \union Ended]
    BY <1>14 DEF BeginMigration
  <2> QED BY <1>14, <2>1, <2>2 DEF BeginMigration
<1>15. ASSUME NEW m \in Migrator, EndMigration(m) PROVE TypeOK'
  <2>1. applied' \in Nat
    BY <1>15 DEF EndMigration
  <2>2. pc' \in [Migrator -> {"idle", "ready"} \union Following \union Holding \union Ended]
    BY <1>15 DEF EndMigration
  <2> QED BY <1>15, <2>1, <2>2 DEF EndMigration
<1>16. ASSUME NEW m \in Migrator, NextMigration(m) PROVE TypeOK'
  BY <1>16 DEF NextMigration, Pending
<1>17. ASSUME NEW m \in Migrator, RunGraphile(m) PROVE TypeOK'
  <2>1. graphile' \in Nat
    <3>1. Jobs[AppVersion[m]] \in Nat
      OBVIOUS
    <3> QED BY <1>17, <3>1 DEF RunGraphile
  <2>2. late' \in [Migrator -> Nat]
    BY <1>17 DEF RunGraphile
  <2>3. pc' \in [Migrator -> {"idle", "ready"} \union Following \union Holding \union Ended]
    BY <1>17 DEF RunGraphile
  <2> QED BY <1>17, <2>1, <2>2, <2>3 DEF RunGraphile
<1>18. ASSUME NEW m \in Migrator, ClearCurrent(m) PROVE TypeOK'
  BY <1>18 DEF ClearCurrent
<1>19. ASSUME NEW m \in Migrator, AttemptFails(m) PROVE TypeOK'
  BY <1>19 DEF AttemptFails
<1>20. ASSUME NEW m \in Migrator, Retry(m) PROVE TypeOK'
  <2>1. outcome' \in [Migrator -> [1..MaxAttempts -> Outcome]]
    BY <1>20, RecordEffect DEF Retry, Outcome
  <2>2. pc' \in [Migrator -> {"idle", "ready"} \union Following \union Holding \union Ended]
    BY <1>20 DEF Retry
  <2> QED BY <1>20, <2>1, <2>2 DEF Retry, Outcome
<1>21. ASSUME NEW m \in Migrator, NextAttempt(m) PROVE TypeOK'
  <2>1. attempt' \in [Migrator -> 1..MaxAttempts]
    <3>1. ~lost[m] => attempt' = [attempt EXCEPT ![m] = @ + 1]
      BY <1>21, Zenon DEF NextAttempt
    <3>2. lost[m] => attempt' = attempt
      BY <1>21, Zenon DEF NextAttempt
    <3>3. ~lost[m] => attempt[m] + 1 \in 1..MaxAttempts
      BY <1>21 DEF NextAttempt, RetryInv
    <3> QED BY <3>1, <3>2, <3>3
  <2>2. pc' \in [Migrator -> {"idle", "ready"} \union Following \union Holding \union Ended]
    BY <1>21 DEF NextAttempt
  <2> QED BY <1>21, <2>1, <2>2 DEF NextAttempt
<1>22. ASSUME NEW m \in Migrator, Park(m) PROVE TypeOK'
  <2>1. outcome' \in [Migrator -> [1..MaxAttempts -> Outcome]]
    BY <1>22, RecordEffect DEF Park, Release, Outcome
  <2>2. pc' \in [Migrator -> {"idle", "ready"} \union Following \union Holding \union Ended]
    BY <1>22 DEF Park
  <2>a. AppVersion[m] \in Version
    OBVIOUS
  <2>3. parked' \in Version \union {Nobody} /\ holder' \in Migrator \union {Nobody}
        /\ current' \in {"none", "knex", "graphile"} /\ expired' \in BOOLEAN
    BY <1>22, <2>a DEF Park, Release
  <2> QED BY <1>22, <2>1, <2>2, <2>3 DEF Park, Outcome
<1>23. ASSUME NEW m \in Migrator, Complete(m) PROVE TypeOK'
  <2>1. outcome' \in [Migrator -> [1..MaxAttempts -> Outcome]]
    BY <1>23, RecordEffect DEF Complete, Release, Outcome
  <2>2. pc' \in [Migrator -> {"idle", "ready"} \union Following \union Holding \union Ended]
    BY <1>23 DEF Complete
  <2>a. AppVersion[m] \in Version
    OBVIOUS
  <2>3. parked' \in Version \union {Nobody} /\ holder' \in Migrator \union {Nobody}
        /\ current' \in {"none", "knex", "graphile"} /\ expired' \in BOOLEAN
    BY <1>23, <2>a DEF Complete, Release
  <2> QED BY <1>23, <2>1, <2>2, <2>3 DEF Complete, Outcome
<1>24. CASE Expire
  BY <1>24 DEF Expire, Living
<1>25. CASE CheckUnlock
  BY <1>25 DEF CheckUnlock
<1>26. CASE Unlock
  BY <1>26 DEF Unlock, Claimable, Living
<1>27. CASE ClearUnlocked
  BY <1>27 DEF ClearUnlocked
<1>28. CASE UNCHANGED vars
  BY <1>28 DEF vars
<1> QED
  BY <1>1, <1>2, <1>3, <1>4, <1>5, <1>6, <1>7, <1>8, <1>9, <1>10, <1>11,
     <1>12, <1>13, <1>14, <1>15, <1>16, <1>17, <1>18, <1>19, <1>20, <1>21,
     <1>22, <1>23, <1>24, <1>25, <1>26, <1>27, <1>28 DEF Next, Follower, Holder

LEMMA RetryStep ==
    ASSUME TypeOK, RetryInv, [Next]_vars
    PROVE  RetryInv'
<1> USE MigrationAssumption
    DEF TypeOK, RetryInv, leaseVars, databaseVars, processVars, historyVars, Goto,
        Ended, Following, Holding, Beating, Stopped
<1>1. ASSUME NEW m \in Migrator, Up(m) PROVE RetryInv'
  BY <1>1 DEF Up
<1>2. ASSUME NEW m \in Migrator, Wait(m) PROVE RetryInv'
  BY <1>2 DEF Wait
<1>3. ASSUME NEW m \in Migrator, Claim(m) PROVE RetryInv'
  BY <1>3 DEF Claim, MayClaim, Claimable
<1>4. ASSUME NEW m \in Migrator, ReadState(m) PROVE RetryInv'
  BY <1>4 DEF ReadState, Pending
<1>5. ASSUME NEW m \in Migrator, ReadLease(m) PROVE RetryInv'
  BY <1>5 DEF ReadLease, AfterLook, HasPendingWork, Claimable
<1>6. ASSUME NEW m \in Migrator, GiveUp(m) PROVE RetryInv'
  BY <1>6 DEF GiveUp
<1>7. ASSUME NEW m \in Migrator, Beat(m) PROVE RetryInv'
  BY <1>7 DEF Beat
<1>8. ASSUME NEW m \in Migrator, BeatFails(m) PROVE RetryInv'
  BY <1>8 DEF BeatFails
<1>9. ASSUME NEW m \in Migrator, Crash(m) PROVE RetryInv'
  BY <1>9 DEF Crash, Dies
<1>10. ASSUME NEW m \in Migrator, ExitOnLoss(m) PROVE RetryInv'
  BY <1>10 DEF ExitOnLoss, Dies
<1>11. ASSUME NEW m \in Migrator, StartRun(m) PROVE RetryInv'
  BY <1>11 DEF StartRun, Pending
<1>12. ASSUME NEW m \in Migrator, ClearKnexLock(m) PROVE RetryInv'
  BY <1>12 DEF ClearKnexLock
<1>13. ASSUME NEW m \in Migrator, Announce(m) PROVE RetryInv'
  BY <1>13 DEF Announce
<1>14. ASSUME NEW m \in Migrator, BeginMigration(m) PROVE RetryInv'
  BY <1>14 DEF BeginMigration
<1>15. ASSUME NEW m \in Migrator, EndMigration(m) PROVE RetryInv'
  BY <1>15 DEF EndMigration
<1>16. ASSUME NEW m \in Migrator, NextMigration(m) PROVE RetryInv'
  BY <1>16 DEF NextMigration, Pending
<1>17. ASSUME NEW m \in Migrator, RunGraphile(m) PROVE RetryInv'
  BY <1>17 DEF RunGraphile
<1>18. ASSUME NEW m \in Migrator, ClearCurrent(m) PROVE RetryInv'
  BY <1>18 DEF ClearCurrent
<1>19. ASSUME NEW m \in Migrator, AttemptFails(m) PROVE RetryInv'
  BY <1>19 DEF AttemptFails
<1>20. ASSUME NEW m \in Migrator, Retry(m) PROVE RetryInv'
  BY <1>20 DEF Retry, Record
<1>21. ASSUME NEW m \in Migrator, NextAttempt(m) PROVE RetryInv'
  BY <1>21 DEF NextAttempt
<1>22. ASSUME NEW m \in Migrator, Park(m) PROVE RetryInv'
  BY <1>22 DEF Park, Release, Record
<1>23. ASSUME NEW m \in Migrator, Complete(m) PROVE RetryInv'
  BY <1>23 DEF Complete, Release, Record
<1>24. CASE Expire
  BY <1>24 DEF Expire, Living
<1>25. CASE CheckUnlock
  BY <1>25 DEF CheckUnlock
<1>26. CASE Unlock
  BY <1>26 DEF Unlock, Claimable, Living
<1>27. CASE ClearUnlocked
  BY <1>27 DEF ClearUnlocked
<1>28. CASE UNCHANGED vars
  BY <1>28 DEF vars
<1> QED
  BY <1>1, <1>2, <1>3, <1>4, <1>5, <1>6, <1>7, <1>8, <1>9, <1>10, <1>11,
     <1>12, <1>13, <1>14, <1>15, <1>16, <1>17, <1>18, <1>19, <1>20, <1>21,
     <1>22, <1>23, <1>24, <1>25, <1>26, <1>27, <1>28 DEF Next, Follower, Holder

LEMMA HeldStep ==
    ASSUME TypeOK, HeldInv, [Next]_vars
    PROVE  HeldInv'
<1> USE MigrationAssumption
    DEF TypeOK, HeldInv, leaseVars, databaseVars, processVars, historyVars, Goto,
        Ended, Following, Holding, Beating, Stopped
<1>1. ASSUME NEW m \in Migrator, Up(m) PROVE HeldInv'
  BY <1>1 DEF Up
<1>2. ASSUME NEW m \in Migrator, Wait(m) PROVE HeldInv'
  BY <1>2 DEF Wait
<1>3. ASSUME NEW m \in Migrator, Claim(m) PROVE HeldInv'
  BY <1>3 DEF Claim, MayClaim, Claimable
<1>4. ASSUME NEW m \in Migrator, ReadState(m) PROVE HeldInv'
  BY <1>4 DEF ReadState, Pending
<1>5. ASSUME NEW m \in Migrator, ReadLease(m) PROVE HeldInv'
  BY <1>5 DEF ReadLease, AfterLook, HasPendingWork, Claimable
<1>6. ASSUME NEW m \in Migrator, GiveUp(m) PROVE HeldInv'
  BY <1>6 DEF GiveUp
<1>7. ASSUME NEW m \in Migrator, Beat(m) PROVE HeldInv'
  BY <1>7 DEF Beat
<1>8. ASSUME NEW m \in Migrator, BeatFails(m) PROVE HeldInv'
  BY <1>8 DEF BeatFails
<1>9. ASSUME NEW m \in Migrator, Crash(m) PROVE HeldInv'
  BY <1>9 DEF Crash, Dies
<1>10. ASSUME NEW m \in Migrator, ExitOnLoss(m) PROVE HeldInv'
  BY <1>10 DEF ExitOnLoss, Dies
<1>11. ASSUME NEW m \in Migrator, StartRun(m) PROVE HeldInv'
  BY <1>11 DEF StartRun, Pending
<1>12. ASSUME NEW m \in Migrator, ClearKnexLock(m) PROVE HeldInv'
  BY <1>12 DEF ClearKnexLock
<1>13. ASSUME NEW m \in Migrator, Announce(m) PROVE HeldInv'
  BY <1>13 DEF Announce
<1>14. ASSUME NEW m \in Migrator, BeginMigration(m) PROVE HeldInv'
  BY <1>14 DEF BeginMigration
<1>15. ASSUME NEW m \in Migrator, EndMigration(m) PROVE HeldInv'
  BY <1>15 DEF EndMigration
<1>16. ASSUME NEW m \in Migrator, NextMigration(m) PROVE HeldInv'
  BY <1>16 DEF NextMigration, Pending
<1>17. ASSUME NEW m \in Migrator, RunGraphile(m) PROVE HeldInv'
  BY <1>17 DEF RunGraphile
<1>18. ASSUME NEW m \in Migrator, ClearCurrent(m) PROVE HeldInv'
  BY <1>18 DEF ClearCurrent
<1>19. ASSUME NEW m \in Migrator, AttemptFails(m) PROVE HeldInv'
  BY <1>19 DEF AttemptFails
<1>20. ASSUME NEW m \in Migrator, Retry(m) PROVE HeldInv'
  BY <1>20 DEF Retry, Record
<1>21. ASSUME NEW m \in Migrator, NextAttempt(m) PROVE HeldInv'
  BY <1>21 DEF NextAttempt
<1>22. ASSUME NEW m \in Migrator, Park(m) PROVE HeldInv'
  BY <1>22 DEF Park, Release, Record
<1>23. ASSUME NEW m \in Migrator, Complete(m) PROVE HeldInv'
  BY <1>23 DEF Complete, Release, Record
<1>24. CASE Expire
  BY <1>24 DEF Expire, Living
<1>25. CASE CheckUnlock
  BY <1>25 DEF CheckUnlock
<1>26. CASE Unlock
  BY <1>26 DEF Unlock, Claimable, Living
<1>27. CASE ClearUnlocked
  BY <1>27 DEF ClearUnlocked
<1>28. CASE UNCHANGED vars
  BY <1>28 DEF vars
<1> QED
  BY <1>1, <1>2, <1>3, <1>4, <1>5, <1>6, <1>7, <1>8, <1>9, <1>10, <1>11,
     <1>12, <1>13, <1>14, <1>15, <1>16, <1>17, <1>18, <1>19, <1>20, <1>21,
     <1>22, <1>23, <1>24, <1>25, <1>26, <1>27, <1>28 DEF Next, Follower, Holder

LEMMA LateStep ==
    ASSUME TypeOK, LateInv, [Next]_vars
    PROVE  LateInv'
<1> USE MigrationAssumption
    DEF TypeOK, LateInv, leaseVars, databaseVars, processVars, historyVars, Goto,
        Ended, Following, Holding, Beating, Stopped
<1>1. ASSUME NEW m \in Migrator, Up(m) PROVE LateInv'
  BY <1>1 DEF Up
<1>2. ASSUME NEW m \in Migrator, Wait(m) PROVE LateInv'
  BY <1>2 DEF Wait
<1>3. ASSUME NEW m \in Migrator, Claim(m) PROVE LateInv'
  BY <1>3 DEF Claim, MayClaim, Claimable
<1>4. ASSUME NEW m \in Migrator, ReadState(m) PROVE LateInv'
  BY <1>4 DEF ReadState, Pending
<1>5. ASSUME NEW m \in Migrator, ReadLease(m) PROVE LateInv'
  BY <1>5 DEF ReadLease, AfterLook, HasPendingWork, Claimable
<1>6. ASSUME NEW m \in Migrator, GiveUp(m) PROVE LateInv'
  BY <1>6 DEF GiveUp
<1>7. ASSUME NEW m \in Migrator, Beat(m) PROVE LateInv'
  BY <1>7 DEF Beat
<1>8. ASSUME NEW m \in Migrator, BeatFails(m) PROVE LateInv'
  BY <1>8 DEF BeatFails
<1>9. ASSUME NEW m \in Migrator, Crash(m) PROVE LateInv'
  BY <1>9 DEF Crash, Dies
<1>10. ASSUME NEW m \in Migrator, ExitOnLoss(m) PROVE LateInv'
  BY <1>10 DEF ExitOnLoss, Dies
<1>11. ASSUME NEW m \in Migrator, StartRun(m) PROVE LateInv'
  BY <1>11 DEF StartRun, Pending
<1>12. ASSUME NEW m \in Migrator, ClearKnexLock(m) PROVE LateInv'
  BY <1>12 DEF ClearKnexLock
<1>13. ASSUME NEW m \in Migrator, Announce(m) PROVE LateInv'
  BY <1>13 DEF Announce
<1>14. ASSUME NEW m \in Migrator, BeginMigration(m) PROVE LateInv'
  BY <1>14 DEF BeginMigration
<1>15. ASSUME NEW m \in Migrator, EndMigration(m) PROVE LateInv'
  BY <1>15 DEF EndMigration
<1>16. ASSUME NEW m \in Migrator, NextMigration(m) PROVE LateInv'
  BY <1>16 DEF NextMigration, Pending
<1>17. ASSUME NEW m \in Migrator, RunGraphile(m) PROVE LateInv'
  BY <1>17 DEF RunGraphile
<1>18. ASSUME NEW m \in Migrator, ClearCurrent(m) PROVE LateInv'
  BY <1>18 DEF ClearCurrent
<1>19. ASSUME NEW m \in Migrator, AttemptFails(m) PROVE LateInv'
  BY <1>19 DEF AttemptFails
<1>20. ASSUME NEW m \in Migrator, Retry(m) PROVE LateInv'
  BY <1>20 DEF Retry, Record
<1>21. ASSUME NEW m \in Migrator, NextAttempt(m) PROVE LateInv'
  BY <1>21 DEF NextAttempt
<1>22. ASSUME NEW m \in Migrator, Park(m) PROVE LateInv'
  BY <1>22 DEF Park, Release, Record
<1>23. ASSUME NEW m \in Migrator, Complete(m) PROVE LateInv'
  BY <1>23 DEF Complete, Release, Record
<1>24. CASE Expire
  BY <1>24 DEF Expire, Living
<1>25. CASE CheckUnlock
  BY <1>25 DEF CheckUnlock
<1>26. CASE Unlock
  BY <1>26 DEF Unlock, Claimable, Living
<1>27. CASE ClearUnlocked
  BY <1>27 DEF ClearUnlocked
<1>28. CASE UNCHANGED vars
  BY <1>28 DEF vars
<1> QED
  BY <1>1, <1>2, <1>3, <1>4, <1>5, <1>6, <1>7, <1>8, <1>9, <1>10, <1>11,
     <1>12, <1>13, <1>14, <1>15, <1>16, <1>17, <1>18, <1>19, <1>20, <1>21,
     <1>22, <1>23, <1>24, <1>25, <1>26, <1>27, <1>28 DEF Next, Follower, Holder

LEMMA DoneStep ==
    ASSUME TypeOK, DoneInv, [Next]_vars
    PROVE  DoneInv'
<1> USE MigrationAssumption
    DEF TypeOK, DoneInv, Migrated, leaseVars, databaseVars, processVars, historyVars, Goto,
        Ended, Following, Holding, Beating, Stopped
<1>1. ASSUME NEW m \in Migrator, Up(m) PROVE DoneInv'
  BY <1>1 DEF Up
<1>2. ASSUME NEW m \in Migrator, Wait(m) PROVE DoneInv'
  BY <1>2 DEF Wait
<1>3. ASSUME NEW m \in Migrator, Claim(m) PROVE DoneInv'
  BY <1>3 DEF Claim, MayClaim, Claimable
<1>4. ASSUME NEW m \in Migrator, ReadState(m) PROVE DoneInv'
  BY <1>4 DEF ReadState, Pending
<1>5. ASSUME NEW m \in Migrator, ReadLease(m) PROVE DoneInv'
  BY <1>5 DEF ReadLease, AfterLook, HasPendingWork, Claimable
<1>6. ASSUME NEW m \in Migrator, GiveUp(m) PROVE DoneInv'
  BY <1>6 DEF GiveUp
<1>7. ASSUME NEW m \in Migrator, Beat(m) PROVE DoneInv'
  BY <1>7 DEF Beat
<1>8. ASSUME NEW m \in Migrator, BeatFails(m) PROVE DoneInv'
  BY <1>8 DEF BeatFails
<1>9. ASSUME NEW m \in Migrator, Crash(m) PROVE DoneInv'
  BY <1>9 DEF Crash, Dies
<1>10. ASSUME NEW m \in Migrator, ExitOnLoss(m) PROVE DoneInv'
  BY <1>10 DEF ExitOnLoss, Dies
<1>11. ASSUME NEW m \in Migrator, StartRun(m) PROVE DoneInv'
  <2>1. Record(m, "running")
    BY <1>11 DEF StartRun, Record
  <2>2. \A x \in Migrator : \A a \in 1..MaxAttempts :
            outcome'[x][a] = "succeeded" => outcome[x][a] = "succeeded"
    <3>1. CASE Record(m, "running")
      <4>1. \A x \in Migrator, a \in 1..MaxAttempts :
                outcome'[x][a] = outcome[x][a] \/ outcome'[x][a] = "running"
        BY <3>1, RecordOnly DEF Outcome
      <4> QED BY <4>1, Zenon
    <3>2. CASE outcome' = outcome
      BY <3>2, Zenon
    <3> QED BY <2>1, <3>1, <3>2
  <2>3. pc[m] = "attempt" /\ pc'[m] = "clear"
        /\ \A x \in Migrator \ {m} : pc'[x] = pc[x] /\ next'[x] = next[x]
    BY <1>11 DEF StartRun
  <2>4. next'[m] = Pending(m) /\ applied' = applied /\ graphile' = graphile
    BY <1>11 DEF StartRun
  <2>5. next'[m] = 0 => applied >= Files[AppVersion[m]]
    <3>1. Files[AppVersion[m]] \in Nat
      OBVIOUS
    <3> QED BY <2>4, <3>1 DEF Pending
  <2> QED BY <2>2, <2>3, <2>4, <2>5
<1>12. ASSUME NEW m \in Migrator, ClearKnexLock(m) PROVE DoneInv'
  BY <1>12 DEF ClearKnexLock
<1>13. ASSUME NEW m \in Migrator, Announce(m) PROVE DoneInv'
  BY <1>13 DEF Announce
<1>14. ASSUME NEW m \in Migrator, BeginMigration(m) PROVE DoneInv'
  BY <1>14 DEF BeginMigration
<1>15. ASSUME NEW m \in Migrator, EndMigration(m) PROVE DoneInv'
  <2>1. pc[m] = "running" /\ pc'[m] \in {"migrated", "broken"}
        /\ \A x \in Migrator \ {m} : pc'[x] = pc[x]
    BY <1>15 DEF EndMigration
  <2>2. applied' >= applied /\ applied' \in Nat /\ graphile' = graphile
    BY <1>15 DEF EndMigration
  <2>3. \A x \in Migrator : Files[AppVersion[x]] \in Nat
    OBVIOUS
  <2>4. \A x \in Migrator : applied >= Files[AppVersion[x]] => applied' >= Files[AppVersion[x]]
    BY <2>2, <2>3
  <2>5. next' = next /\ outcome' = outcome
    BY <1>15 DEF EndMigration
  <2> QED BY <2>1, <2>2, <2>4, <2>5
<1>16. ASSUME NEW m \in Migrator, NextMigration(m) PROVE DoneInv'
  <2>1. pc[m] = "migrated" /\ pc'[m] \in {"broken", "announce"}
        /\ \A x \in Migrator \ {m} : pc'[x] = pc[x] /\ next'[x] = next[x]
    BY <1>16 DEF NextMigration
  <2>2. pc'[m] = "announce" => next'[m] = Pending(m)
    BY <1>16 DEF NextMigration
  <2>3. applied' = applied /\ graphile' = graphile /\ outcome' = outcome
    BY <1>16 DEF NextMigration
  <2>4. Pending(m) = 0 => applied >= Files[AppVersion[m]]
    <3>1. Files[AppVersion[m]] \in Nat
      OBVIOUS
    <3> QED BY <3>1 DEF Pending
  <2> QED BY <2>1, <2>2, <2>3, <2>4
<1>17. ASSUME NEW m \in Migrator, RunGraphile(m) PROVE DoneInv'
  BY <1>17 DEF RunGraphile
<1>18. ASSUME NEW m \in Migrator, ClearCurrent(m) PROVE DoneInv'
  BY <1>18 DEF ClearCurrent
<1>19. ASSUME NEW m \in Migrator, AttemptFails(m) PROVE DoneInv'
  BY <1>19 DEF AttemptFails
<1>20. ASSUME NEW m \in Migrator, Retry(m) PROVE DoneInv'
  <2>1. outcome' = outcome \/ Record(m, "retrying")
    BY <1>20 DEF Retry
  <2>2. \A x \in Migrator : \A a \in 1..MaxAttempts :
            outcome'[x][a] = "succeeded" => outcome[x][a] = "succeeded"
    <3>1. CASE Record(m, "retrying")
      <4>1. \A x \in Migrator, a \in 1..MaxAttempts :
                outcome'[x][a] = outcome[x][a] \/ outcome'[x][a] = "retrying"
        BY <3>1, RecordOnly DEF Outcome
      <4> QED BY <4>1, Zenon
    <3>2. CASE outcome' = outcome
      BY <3>2, Zenon
    <3> QED BY <2>1, <3>1, <3>2
  <2>3. applied' = applied /\ graphile' = graphile /\ next' = next
    BY <1>20 DEF Retry
  <2>4. pc'[m] \in {"failed", "retry", "park"} /\ \A x \in Migrator \ {m} : pc'[x] = pc[x]
    BY <1>20 DEF Retry
  <2> QED BY <2>2, <2>3, <2>4
<1>21. ASSUME NEW m \in Migrator, NextAttempt(m) PROVE DoneInv'
  BY <1>21 DEF NextAttempt
<1>22. ASSUME NEW m \in Migrator, Park(m) PROVE DoneInv'
  <2>1. outcome' = outcome \/ Record(m, "parked")
    BY <1>22 DEF Park, Release
  <2>2. \A x \in Migrator : \A a \in 1..MaxAttempts :
            outcome'[x][a] = "succeeded" => outcome[x][a] = "succeeded"
    <3>1. CASE Record(m, "parked")
      <4>1. \A x \in Migrator, a \in 1..MaxAttempts :
                outcome'[x][a] = outcome[x][a] \/ outcome'[x][a] = "parked"
        BY <3>1, RecordOnly DEF Outcome
      <4> QED BY <4>1, Zenon
    <3>2. CASE outcome' = outcome
      BY <3>2, Zenon
    <3> QED BY <2>1, <3>1, <3>2
  <2>3. applied' = applied /\ graphile' = graphile /\ next' = next
    BY <1>22 DEF Park
  <2>4. pc'[m] \in {"failed", "retry", "park"} /\ \A x \in Migrator \ {m} : pc'[x] = pc[x]
    BY <1>22 DEF Park
  <2> QED BY <2>2, <2>3, <2>4
<1>23. ASSUME NEW m \in Migrator, Complete(m) PROVE DoneInv'
  BY <1>23 DEF Complete, Release, Record
<1>24. CASE Expire
  BY <1>24 DEF Expire, Living
<1>25. CASE CheckUnlock
  BY <1>25 DEF CheckUnlock
<1>26. CASE Unlock
  BY <1>26 DEF Unlock, Claimable, Living
<1>27. CASE ClearUnlocked
  BY <1>27 DEF ClearUnlocked
<1>28. CASE UNCHANGED vars
  BY <1>28 DEF vars
<1> QED
  BY <1>1, <1>2, <1>3, <1>4, <1>5, <1>6, <1>7, <1>8, <1>9, <1>10, <1>11,
     <1>12, <1>13, <1>14, <1>15, <1>16, <1>17, <1>18, <1>19, <1>20, <1>21,
     <1>22, <1>23, <1>24, <1>25, <1>26, <1>27, <1>28 DEF Next, Follower, Holder

LEMMA RecordStep ==
    ASSUME TypeOK, RecordInv, [Next]_vars
    PROVE  RecordInv'
<1> USE MigrationAssumption
    DEF TypeOK, RecordInv, ParkedIsRecorded, leaseVars, databaseVars, processVars, historyVars, Goto,
        Ended, Following, Holding, Beating, Stopped
<1>1. ASSUME NEW m \in Migrator, Up(m) PROVE RecordInv'
  BY <1>1 DEF Up
<1>2. ASSUME NEW m \in Migrator, Wait(m) PROVE RecordInv'
  BY <1>2 DEF Wait
<1>3. ASSUME NEW m \in Migrator, Claim(m) PROVE RecordInv'
  BY <1>3 DEF Claim, MayClaim, Claimable
<1>4. ASSUME NEW m \in Migrator, ReadState(m) PROVE RecordInv'
  BY <1>4 DEF ReadState, Pending
<1>5. ASSUME NEW m \in Migrator, ReadLease(m) PROVE RecordInv'
  BY <1>5 DEF ReadLease, AfterLook, HasPendingWork, Claimable
<1>6. ASSUME NEW m \in Migrator, GiveUp(m) PROVE RecordInv'
  BY <1>6 DEF GiveUp
<1>7. ASSUME NEW m \in Migrator, Beat(m) PROVE RecordInv'
  BY <1>7 DEF Beat
<1>8. ASSUME NEW m \in Migrator, BeatFails(m) PROVE RecordInv'
  BY <1>8 DEF BeatFails
<1>9. ASSUME NEW m \in Migrator, Crash(m) PROVE RecordInv'
  BY <1>9 DEF Crash, Dies
<1>10. ASSUME NEW m \in Migrator, ExitOnLoss(m) PROVE RecordInv'
  BY <1>10 DEF ExitOnLoss, Dies
<1>11. ASSUME NEW m \in Migrator, StartRun(m) PROVE RecordInv'
  <2>1. Record(m, "running")
    BY <1>11 DEF StartRun, Record
  <2>2. pc[m] = "attempt" /\ pc'[m] = "clear"
        /\ \A x \in Migrator \ {m} : pc'[x] = pc[x]
    BY <1>11 DEF StartRun
  <2>3. \A x \in Migrator : outcome'[x][MaxAttempts] = "parked" <=> outcome[x][MaxAttempts] = "parked"
    <3>1. \A x \in Migrator, a \in 1..MaxAttempts :
              outcome'[x][a] = outcome[x][a] \/ (outcome'[x][a] = "running" /\ x = m)
      BY <2>1, RecordOnly DEF Outcome
    <3>2. MaxAttempts \in 1..MaxAttempts /\ outcome[m][MaxAttempts] # "parked"
      <4>1. pc[m] \notin Ended
        BY <2>2
      <4>2. outcome[m][MaxAttempts] = "parked" => pc[m] \in Ended
        BY Zenon
      <4> QED BY <4>1, <4>2
    <3> QED BY <3>1, <3>2
  <2>4. attempt' = attempt /\ parked' = parked
    BY <1>11 DEF StartRun
  <2> QED BY <2>2, <2>3, <2>4
<1>12. ASSUME NEW m \in Migrator, ClearKnexLock(m) PROVE RecordInv'
  BY <1>12 DEF ClearKnexLock
<1>13. ASSUME NEW m \in Migrator, Announce(m) PROVE RecordInv'
  BY <1>13 DEF Announce
<1>14. ASSUME NEW m \in Migrator, BeginMigration(m) PROVE RecordInv'
  BY <1>14 DEF BeginMigration
<1>15. ASSUME NEW m \in Migrator, EndMigration(m) PROVE RecordInv'
  BY <1>15 DEF EndMigration
<1>16. ASSUME NEW m \in Migrator, NextMigration(m) PROVE RecordInv'
  BY <1>16 DEF NextMigration, Pending
<1>17. ASSUME NEW m \in Migrator, RunGraphile(m) PROVE RecordInv'
  BY <1>17 DEF RunGraphile
<1>18. ASSUME NEW m \in Migrator, ClearCurrent(m) PROVE RecordInv'
  BY <1>18 DEF ClearCurrent
<1>19. ASSUME NEW m \in Migrator, AttemptFails(m) PROVE RecordInv'
  BY <1>19 DEF AttemptFails
<1>20. ASSUME NEW m \in Migrator, Retry(m) PROVE RecordInv'
  <2>1. pc[m] = "broken" /\ pc'[m] \in {"failed", "retry", "park"}
        /\ \A x \in Migrator \ {m} : pc'[x] = pc[x]
    BY <1>20 DEF Retry
  <2>2. \A x \in Migrator : outcome'[x][MaxAttempts] = "parked" <=> outcome[x][MaxAttempts] = "parked"
    <3>1. CASE attempt[m] < MaxAttempts
      <4>1. Record(m, "retrying")
        BY <1>20, <3>1 DEF Retry
      <4>2. \A x \in Migrator, a \in 1..MaxAttempts :
                outcome'[x][a] = outcome[x][a] \/ (outcome'[x][a] = "retrying" /\ x = m)
        BY <4>1, RecordOnly DEF Outcome
      <4>3. MaxAttempts \in 1..MaxAttempts /\ outcome[m][MaxAttempts] # "parked"
        <5>1. pc[m] \notin Ended
          BY <2>1
        <5>2. outcome[m][MaxAttempts] = "parked" => pc[m] \in Ended
          BY Zenon
        <5> QED BY <5>1, <5>2
      <4> QED BY <4>2, <4>3
    <3>2. CASE ~(attempt[m] < MaxAttempts)
      BY <1>20, <3>2 DEF Retry
    <3> QED BY <3>1, <3>2
  <2>3. pc'[m] = "park" => attempt[m] = MaxAttempts
    <3>1. attempt[m] \in 1..MaxAttempts
      OBVIOUS
    <3>2. pc'[m] = "park" => ~(attempt[m] < MaxAttempts)
      BY <1>20 DEF Retry
    <3> QED BY <3>1, <3>2
  <2>4. attempt' = attempt /\ parked' = parked
    BY <1>20 DEF Retry
  <2> QED BY <2>1, <2>2, <2>3, <2>4
<1>21. ASSUME NEW m \in Migrator, NextAttempt(m) PROVE RecordInv'
  BY <1>21 DEF NextAttempt
<1>22. ASSUME NEW m \in Migrator, Park(m) PROVE RecordInv'
  BY <1>22 DEF Park, Release, Record
<1>23. ASSUME NEW m \in Migrator, Complete(m) PROVE RecordInv'
  BY <1>23 DEF Complete, Release, Record
<1>24. CASE Expire
  BY <1>24 DEF Expire, Living
<1>25. CASE CheckUnlock
  BY <1>25 DEF CheckUnlock
<1>26. CASE Unlock
  BY <1>26 DEF Unlock, Claimable, Living
<1>27. CASE ClearUnlocked
  BY <1>27 DEF ClearUnlocked
<1>28. CASE UNCHANGED vars
  BY <1>28 DEF vars
<1> QED
  BY <1>1, <1>2, <1>3, <1>4, <1>5, <1>6, <1>7, <1>8, <1>9, <1>10, <1>11,
     <1>12, <1>13, <1>14, <1>15, <1>16, <1>17, <1>18, <1>19, <1>20, <1>21,
     <1>22, <1>23, <1>24, <1>25, <1>26, <1>27, <1>28 DEF Next, Follower, Holder

(* What each process knows of the lease, the database and the ledger, for  *)
(* any number of processes, versions and attempts (cli.ts).                *)
THEOREM LeaseInvariance == Spec => []LeaseInv
<1>1. LeaseInv /\ [Next]_vars => LeaseInv'
  BY TypeStep, RetryStep, HeldStep, LateStep, DoneStep, RecordStep DEF LeaseInv
<1> QED BY InitInv, <1>1, PTL DEF Spec

(* OneMigrator: a claim needs an expired or absent holder, and a holder    *)
(* that is not overdue is neither.                                         *)
THEOREM OneMigratorAtATime == Spec => []OneMigrator
<1>1. LeaseInv => OneMigrator
  BY DEF LeaseInv, HeldInv, OneMigrator
<1> QED BY LeaseInvariance, <1>1, PTL

(* LateBounded: a displaced holder does one more step at most, under any   *)
(* clock and any forced unlocks.                                           *)
THEOREM LatenessIsBounded == Spec => []LateBounded
<1>1. LeaseInv => LateBounded
  BY DEF LeaseInv, LateInv, LateBounded
<1> QED BY LeaseInvariance, <1>1, PTL

(* SucceededMeansMigrated: a run recorded as succeeded has migrated both   *)
(* schemas of its version, under any clock and any forced unlocks.         *)
THEOREM SuccessIsMigration == Spec => []SucceededMeansMigrated
<1>1. LeaseInv => SucceededMeansMigrated
  BY DEF LeaseInv, DoneInv, Migrated, SucceededMeansMigrated
<1> QED BY LeaseInvariance, <1>1, PTL

(* ParkedIsIdle: nobody works on a version that is parked.                 *)
THEOREM ParkedVersionsRest == Spec => []ParkedIsIdle
<1>1. LeaseInv => ParkedIsIdle
  BY DEF LeaseInv, HeldInv, ParkedIsIdle
<1> QED BY LeaseInvariance, <1>1, PTL

(* ParkedIsRecorded: a parked lease has its row in the ledger.             *)
THEOREM ParkedLeasesAreRecorded == Spec => []ParkedIsRecorded
<1>1. LeaseInv => ParkedIsRecorded
  BY DEF LeaseInv, RecordInv
<1> QED BY LeaseInvariance, <1>1, PTL

(* TypeOK, and with it that no attempt is counted past the last one.       *)
THEOREM TypeCorrect == Spec => []TypeOK
<1>1. LeaseInv => TypeOK
  BY DEF LeaseInv
<1> QED BY LeaseInvariance, <1>1, PTL

(* TakenOnlyWhenFree: a process that lost its lease never ends that of its *)
(* successor.                                                              *)
THEOREM LeasesAreNotTaken == Spec => TakenOnlyWhenFree
<1> DEFINE Free == \A m \in Migrator : holder = m /\ holder' # m =>
                      \/ expired
                      \/ operator \in {"unlock", "force"}
                      \/ pc[m] \in Stopped /\ pc'[m] \in Ended
<1>1. ASSUME LeaseInv, [Next]_vars PROVE [Free]_vars
  <2>0. TypeOK /\ Nobody \notin Migrator
    BY <1>1, MigrationAssumption DEF LeaseInv
  <2>1. CASE holder' = holder \/ operator \in {"unlock", "force"}
    BY <2>1
  <2>2. ASSUME NEW m \in Migrator, Claim(m) PROVE Free
    BY <2>0, <2>2 DEF Claim, MayClaim, Claimable
  <2>3. ASSUME NEW m \in Migrator, Park(m) \/ Complete(m) PROVE Free
    BY <2>0, <2>3 DEF Park, Complete, Release, Record, Goto, leaseVars, TypeOK, Stopped, Ended
  <2>4. CASE Next /\ holder' # holder /\ operator \notin {"unlock", "force"}
    <3>1. \/ \E m \in Migrator : Claim(m) \/ Park(m) \/ Complete(m)
          \/ holder' = holder
      <4> USE <2>4 DEF leaseVars, databaseVars, processVars, historyVars
      <4>1. ASSUME NEW m \in Migrator,
                   Up(m) \/ Wait(m) \/ ReadState(m) \/ ReadLease(m) \/ GiveUp(m) \/ Beat(m)
                   \/ BeatFails(m) \/ Crash(m) \/ ExitOnLoss(m) \/ AttemptFails(m)
            PROVE  holder' = holder
        BY <4>1 DEF Up, Wait, ReadState, ReadLease, GiveUp, Beat, BeatFails, Crash, ExitOnLoss,
                    Dies, AttemptFails
      <4>2. ASSUME NEW m \in Migrator,
                   StartRun(m) \/ ClearKnexLock(m) \/ Announce(m) \/ BeginMigration(m)
                   \/ EndMigration(m) \/ NextMigration(m) \/ RunGraphile(m) \/ ClearCurrent(m)
                   \/ Retry(m) \/ NextAttempt(m)
            PROVE  holder' = holder
        BY <4>2 DEF StartRun, ClearKnexLock, Announce, BeginMigration, EndMigration, NextMigration,
                    RunGraphile, ClearCurrent, Retry, NextAttempt
      <4>3. CASE Expire \/ CheckUnlock \/ Unlock \/ ClearUnlocked
        BY <4>3 DEF Expire, CheckUnlock, Unlock, ClearUnlocked
      <4> QED BY <4>1, <4>2, <4>3 DEF Next, Follower, Holder
    <3> QED BY <2>2, <2>3, <2>4, <3>1
  <2> QED BY <1>1, <2>1, <2>4 DEF vars, leaseVars
<1>2. Spec => [][Free]_vars
  BY <1>1, LeaseInvariance, PTL DEF Spec
<1> QED BY <1>2 DEF TakenOnlyWhenFree

-----------------------------------------------------------------------------
(* A run goes forward.                                                     *)

LEMMA StepsValues ==
    /\ StepsOf["attempt"] = 0 /\ StepsOf["clear"] = 6 /\ StepsOf["announce"] = 5
    /\ StepsOf["migrate"] = 4 /\ StepsOf["running"] = 3 /\ StepsOf["migrated"] = 2
    /\ StepsOf["graphile"] = 4 /\ StepsOf["graphiled"] = 3 /\ StepsOf["complete"] = 2
    /\ StepsOf["broken"] = 1 /\ StepsOf["retry"] = 0 /\ StepsOf["park"] = 0
BY DEF StepsOf

(* The migration found to be the next one is of the image, and follows     *)
(* what is recorded.                                                       *)
LEMMA PendingIs ==
    ASSUME TypeOK, NEW m \in Migrator
    PROVE  /\ Files[AppVersion[m]] \in Nat /\ Pending(m) \in Nat
           /\ Pending(m) <= Files[AppVersion[m]]
           /\ Pending(m) # 0 => Pending(m) = applied + 1
BY MigrationAssumption DEF TypeOK, Pending

(* Only its own step takes a process out of its place.                     *)
Steps(m) ==
    \/ Up(m) \/ Wait(m) \/ Follower(m) \/ GiveUp(m) \/ Crash(m) \/ ExitOnLoss(m)
    \/ Holder(m) \/ AttemptFails(m)

LEMMA OthersStay ==
    ASSUME TypeOK, [Next]_vars, NEW m \in Migrator, ~Steps(m)
    PROVE  pc'[m] = pc[m] /\ next'[m] = next[m]
<1> USE DEF TypeOK, Goto
<1>1. CASE Expire \/ CheckUnlock \/ Unlock \/ ClearUnlocked \/ UNCHANGED vars
  BY <1>1 DEF Expire, CheckUnlock, Unlock, ClearUnlocked, processVars, vars
<1>2. ASSUME NEW k \in Migrator, Beat(k) \/ BeatFails(k) PROVE pc' = pc /\ next' = next
  BY <1>2 DEF Beat, BeatFails
<1>3. ASSUME NEW k \in Migrator, Steps(k) PROVE pc'[m] = pc[m] /\ next'[m] = next[m]
  <2>1. k # m
    BY <1>3
  <2>2. CASE Up(k) \/ Wait(k) \/ Follower(k) \/ GiveUp(k) \/ Crash(k) \/ ExitOnLoss(k)
    BY <2>1, <2>2 DEF Up, Wait, Follower, Claim, ReadState, ReadLease, GiveUp, Crash, ExitOnLoss, Dies
  <2>3. CASE StartRun(k) \/ ClearKnexLock(k) \/ Announce(k) \/ BeginMigration(k) \/ EndMigration(k)
    BY <2>1, <2>3 DEF StartRun, ClearKnexLock, Announce, BeginMigration, EndMigration
  <2>4. CASE NextMigration(k) \/ RunGraphile(k) \/ ClearCurrent(k) \/ AttemptFails(k)
    BY <2>1, <2>4 DEF NextMigration, RunGraphile, ClearCurrent, AttemptFails
  <2>5. CASE Retry(k) \/ NextAttempt(k) \/ Park(k) \/ Complete(k)
    BY <2>1, <2>5 DEF Retry, NextAttempt, Park, Complete
  <2> QED BY <1>3, <2>2, <2>3, <2>4, <2>5 DEF Steps, Holder
<1> QED BY <1>1, <1>2, <1>3 DEF Next, Steps

(* What is recorded stays recorded.                                        *)
LEMMA AppliedGrows ==
    ASSUME TypeOK, [Next]_vars
    PROVE  applied' \in Nat /\ applied <= applied'
<1> USE DEF TypeOK, databaseVars
<1>1. CASE Expire \/ CheckUnlock \/ Unlock \/ ClearUnlocked \/ UNCHANGED vars
  BY <1>1 DEF Expire, CheckUnlock, Unlock, ClearUnlocked, vars
<1>2. ASSUME NEW m \in Migrator, EndMigration(m) PROVE applied' = applied \/ applied' = applied + 1
  BY <1>2 DEF EndMigration
<1>3. ASSUME NEW m \in Migrator,
             Up(m) \/ Wait(m) \/ Follower(m) \/ GiveUp(m) \/ Beat(m) \/ BeatFails(m)
                \/ Crash(m) \/ ExitOnLoss(m) \/ AttemptFails(m)
      PROVE  applied' = applied
  BY <1>3 DEF Up, Wait, Follower, Claim, ReadState, ReadLease, GiveUp, Beat, BeatFails, Crash,
              ExitOnLoss, Dies, AttemptFails
<1>4. ASSUME NEW m \in Migrator, Holder(m), ~EndMigration(m) PROVE applied' = applied
  BY <1>4 DEF Holder, StartRun, ClearKnexLock, Announce, BeginMigration, NextMigration, RunGraphile,
              ClearCurrent, Retry, NextAttempt, Park, Complete
<1> QED BY <1>1, <1>2, <1>3, <1>4 DEF Next

LEMMA ForwardStep ==
    ASSUME TypeOK, ForwardInv, [Next]_vars
    PROVE  ForwardInv'
<1> SUFFICES ASSUME NEW m \in Migrator
             PROVE  /\ next'[m] <= Files[AppVersion[m]]
                    /\ pc'[m] = "migrated" => next'[m] <= applied'
                    /\ pc'[m] \in {"migrate", "running", "migrated"} => next'[m] # 0
  BY DEF ForwardInv
<1>1. /\ next[m] \in Nat /\ applied \in Nat /\ next[m] <= Files[AppVersion[m]]
      /\ pc[m] = "migrated" => next[m] <= applied
      /\ pc[m] \in {"migrate", "running", "migrated"} => next[m] # 0
  BY DEF TypeOK, ForwardInv
<1>2. applied' \in Nat /\ applied <= applied'
  BY AppliedGrows
<1>3. CASE ~Steps(m)
  BY <1>1, <1>2, <1>3, OthersStay
<1> USE DEF TypeOK, Goto
<1>4. CASE Up(m) \/ Wait(m) \/ GiveUp(m) \/ Crash(m) \/ ExitOnLoss(m)
  BY <1>1, <1>4, PendingIs DEF Up, Wait, GiveUp, Crash, ExitOnLoss, Dies
<1>5. CASE Follower(m)
  BY <1>1, <1>5, PendingIs DEF Follower, Claim, ReadState, ReadLease, AfterLook
<1>6. CASE StartRun(m) \/ ClearKnexLock(m) \/ AttemptFails(m) \/ NextMigration(m)
  BY <1>1, <1>6, PendingIs DEF StartRun, ClearKnexLock, AttemptFails, NextMigration
<1>7. CASE Announce(m)
  BY <1>1, <1>7 DEF Announce
<1>8. CASE BeginMigration(m)
  BY <1>1, <1>8 DEF BeginMigration, databaseVars
<1>9. CASE EndMigration(m)
  BY <1>1, <1>9 DEF EndMigration
<1>10. CASE RunGraphile(m) \/ ClearCurrent(m) \/ Retry(m) \/ NextAttempt(m) \/ Park(m) \/ Complete(m)
  BY <1>1, <1>10 DEF RunGraphile, ClearCurrent, Retry, NextAttempt, Park, Complete
<1> QED BY <1>3, <1>4, <1>5, <1>6, <1>7, <1>8, <1>9, <1>10 DEF Steps, Holder

(* A step of a run.                                                        *)
LEMMA OnwardStep ==
    ASSUME TypeOK, ForwardInv, [Next]_vars, NEW m \in Migrator,
           pc[m] \in Holding, pc'[m] # pc[m]
    PROVE  Onward(m)
<1>1. /\ next[m] \in Nat /\ applied \in Nat /\ next[m] <= Files[AppVersion[m]]
      /\ pc[m] = "migrated" => next[m] <= applied
      /\ pc[m] \in {"migrate", "running", "migrated"} => next[m] # 0
      /\ Files[AppVersion[m]] \in Nat
  BY PendingIs DEF TypeOK, ForwardInv
<1>2. pc \in [Migrator -> {"idle", "ready"} \union Following \union Holding \union Ended]
  BY DEF TypeOK
<1>3. attempt \in [Migrator -> 1..MaxAttempts] /\ next \in [Migrator -> Nat]
  BY DEF TypeOK
<1>4. Steps(m)
  BY OthersStay
<1> USE DEF Goto, Onward, Left
<1>5. CASE Up(m) \/ Wait(m) \/ Follower(m) \/ GiveUp(m)
  BY <1>5 DEF Up, Wait, Follower, Claim, ReadState, ReadLease, GiveUp, Holding, Beating, Stopped
<1>6. CASE Crash(m) \/ ExitOnLoss(m)
  BY <1>2, <1>6 DEF Crash, ExitOnLoss, Dies, Ended
<1>7. CASE StartRun(m)
  BY <1>1, <1>2, <1>3, <1>7, PendingIs DEF StartRun
<1>8. CASE ClearKnexLock(m)
  BY <1>1, <1>2, <1>8, StepsValues DEF ClearKnexLock
<1>9. CASE Announce(m)
  BY <1>1, <1>2, <1>9, StepsValues DEF Announce
<1>10. CASE BeginMigration(m)
  BY <1>1, <1>2, <1>10, StepsValues DEF BeginMigration
<1>11. CASE EndMigration(m)
  BY <1>1, <1>2, <1>11, StepsValues DEF EndMigration
<1>12. CASE NextMigration(m)
  BY <1>1, <1>2, <1>3, <1>12, PendingIs DEF NextMigration
<1>13. CASE RunGraphile(m) \/ ClearCurrent(m) \/ AttemptFails(m)
  BY <1>1, <1>2, <1>13, StepsValues DEF RunGraphile, ClearCurrent, AttemptFails
<1>14. CASE Retry(m)
  BY <1>1, <1>2, <1>14, StepsValues DEF Retry, Ended
<1>15. CASE NextAttempt(m)
  BY <1>2, <1>3, <1>15 DEF NextAttempt, Ended
<1>16. CASE Park(m) \/ Complete(m)
  BY <1>2, <1>16 DEF Park, Complete, Ended
<1> QED
  BY <1>4, <1>5, <1>6, <1>7, <1>8, <1>9, <1>10, <1>11, <1>12, <1>13, <1>14, <1>15, <1>16
     DEF Steps, Holder

(* The part of EveryCommandEnds that is about safety: for any number of    *)
(* processes, migrations and attempts each step of a run leaves less of it *)
(* before it, so that a run whose calls settle ends.                       *)
THEOREM RunsComeToAnEnd == Spec => RunsGoForward
<1> DEFINE Forward == \A m \in Migrator : pc[m] \in Holding /\ pc'[m] # pc[m] => Onward(m)
<1>1. Init => ForwardInv
  BY MigrationAssumption DEF Init, ForwardInv
<1>2. TypeOK /\ ForwardInv /\ [Next]_vars => ForwardInv'
  BY ForwardStep
<1>3. TypeOK /\ ForwardInv /\ [Next]_vars => [Forward]_vars
  BY OnwardStep
<1>4. Spec => [][Forward]_vars
  BY <1>1, <1>2, <1>3, TypeCorrect, PTL DEF Spec
<1> QED BY <1>4 DEF RunsGoForward
=============================================================================
