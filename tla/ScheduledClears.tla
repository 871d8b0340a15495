--------------------------- MODULE ScheduledClears ---------------------------
(***************************************************************************)
(* The scheduled clear of a project's results cache. Every hour a sweep    *)
(* reads the projects whose clear is due, asks for the feature flag of     *)
(* each, and claims the clear by moving the next run on, provided it still *)
(* is the one that was read. Sweeps of several scheduler workers overlap,  *)
(* and the schedule may be edited between the read and the claim.          *)
(***************************************************************************)
EXTENDS Integers, FiniteSets

CONSTANTS
    Sweep,       \* processes that run the hourly task
    Never,       \* results_cache_clear_next_run_at IS NULL
    MaxTime      \* bound: end of the clock

ASSUME SweepAssumption == MaxTime \in Nat /\ Never \notin Int

VARIABLES
    now,
    nextRun,     \* results_cache_clear_next_run_at
    pc,          \* of each sweep
    startedAt,   \* the now of its call of clearDueResultsCaches
    due,         \* the run it read
    timezoneEdit, \* an updateSchedulerSettings, "moving" once it has seen a
                 \* schedule to move
    clears,      \* history: clears made by sweeps
    served,      \* history: the runs they were made for
    edited       \* history: sweeps that have read before the latest edit

scheduleVars == <<now, nextRun, timezoneEdit>>
sweepVars == <<pc, startedAt, due>>
historyVars == <<clears, served, edited>>
vars == <<scheduleVars, sweepVars, historyVars>>

Time == 0..MaxTime + 1

TypeOK ==
    /\ now \in 0..MaxTime
    /\ nextRun \in Time \union {Never}
    /\ pc \in [Sweep -> {"idle", "due"}]
    /\ startedAt \in [Sweep -> 0..MaxTime]
    /\ due \in [Sweep -> 0..MaxTime]
    /\ timezoneEdit \in {"idle", "moving"}
    /\ clears \in Nat
    /\ served \subseteq 0..MaxTime
    /\ edited \subseteq Sweep

Init ==
    /\ now = 0
    /\ nextRun = Never
    /\ pc = [s \in Sweep |-> "idle"]
    /\ startedAt = [s \in Sweep |-> 0]
    /\ due = [s \in Sweep |-> 0]
    /\ timezoneEdit = "idle"
    /\ clears = 0
    /\ served = {}
    /\ edited = {}

(* A run the cron and the time zone may name after time t: always a later  *)
(* hour, however daylight saving moves it.                                 *)
NextAfter(t) == {u \in Time : u > t}

IsDueExactly(t) == nextRun = t
IsDue(t) == nextRun # Never /\ nextRun <= t

-----------------------------------------------------------------------------
(* The hourly task.                                                        *)

ReadDue(s) ==
    /\ pc[s] = "idle"
    /\ IsDue(now)
    /\ pc' = [pc EXCEPT ![s] = "due"]
    /\ startedAt' = [startedAt EXCEPT ![s] = now]
    /\ due' = [due EXCEPT ![s] = nextRun]
    /\ edited' = edited \ {s}
    /\ UNCHANGED <<scheduleVars, clears, served>>

(* The compare-and-swap. With the feature flag off the run passes without  *)
(* a clear.                                                                *)
ClaimUnchecked(s, clear) ==
    /\ pc[s] = "due"
    /\ pc' = [pc EXCEPT ![s] = "idle"]
    /\ nextRun' \in NextAfter(startedAt[s])
    /\ clears' = IF clear THEN clears + 1 ELSE clears
    /\ served' = IF clear THEN served \union {due[s]} ELSE served
    /\ UNCHANGED <<now, timezoneEdit, startedAt, due, edited>>
Claim(s, clear) ==
    /\ pc[s] = "due"
    /\ nextRun = due[s]
    /\ pc' = [pc EXCEPT ![s] = "idle"]
    /\ nextRun' \in NextAfter(startedAt[s])
    /\ clears' = IF clear THEN clears + 1 ELSE clears
    /\ served' = IF clear THEN served \union {due[s]} ELSE served
    /\ UNCHANGED <<now, timezoneEdit, startedAt, due, edited>>

(* Another sweep or an edit came first, or a query failed: the error is    *)
(* logged, and what is still due waits for the next sweep.                 *)
GiveUp(s) ==
    /\ pc[s] = "due"
    /\ pc' = [pc EXCEPT ![s] = "idle"]
    /\ UNCHANGED <<scheduleVars, startedAt, due, historyVars>>

-----------------------------------------------------------------------------
(* Edits. The next run is counted from the present.                        *)

SetSchedule ==
    /\ nextRun' \in NextAfter(now) \union {Never}
    /\ edited' = Sweep
    /\ UNCHANGED <<now, timezoneEdit, sweepVars, clears, served>>

(* A new time zone moves a schedule that is enabled, in two statements.    *)
ReadTimezoneEdit ==
    /\ nextRun # Never
    /\ timezoneEdit' = "moving"
    /\ UNCHANGED <<now, nextRun, sweepVars, historyVars>>

WriteTimezoneEdit ==
    /\ timezoneEdit = "moving"
    /\ nextRun' \in NextAfter(now)
    /\ timezoneEdit' = "idle"
    /\ edited' = Sweep
    /\ UNCHANGED <<now, sweepVars, clears, served>>

Tick ==
    /\ now < MaxTime
    /\ now' = now + 1
    /\ UNCHANGED <<nextRun, timezoneEdit, sweepVars, historyVars>>

-----------------------------------------------------------------------------
Next ==
    \/ \E s \in Sweep :
        \/ ReadDue(s)
        \/ \E clear \in BOOLEAN : Claim(s, clear)
        \/ GiveUp(s)
    \/ SetSchedule \/ ReadTimezoneEdit \/ WriteTimezoneEdit
    \/ Tick

Spec == Init /\ [][Next]_vars

(* The task runs every hour, on some worker; a database that fails for a   *)
(* while does not fail for ever.                                           *)
Fairness ==
    /\ \E s \in Sweep :
        /\ WF_vars(ReadDue(s))
        /\ WF_vars(GiveUp(s) \/ \E clear \in BOOLEAN : Claim(s, clear))
        /\ SF_vars(\E clear \in BOOLEAN : Claim(s, clear))

FairSpec == Spec /\ Fairness

-----------------------------------------------------------------------------
(* Each due run clears the cache at most once, whatever sweeps overlap     *)
(* (the comment on ProjectModel.claimDueResultsCacheClear): a second clear *)
(* would throw away everything cached since.                               *)
OneClearPerRun == clears = Cardinality(served)

(* A sweep never overwrites a schedule edited since the sweep read it: the *)
(* edit is what the administrator last asked for.                          *)
EditsWin == [][\A s \in Sweep :
    pc[s] = "due" /\ pc'[s] = "idle" /\ nextRun' # nextRun => s \notin edited]_vars

(* A due clear does not stay due: it is made, passed over, or moved by an  *)
(* edit, also when sweeps were missed at the hour it was due.              *)
DueIsServed == \A t \in 0..MaxTime : (nextRun = t /\ now >= t) ~> (nextRun # t)
=============================================================================
