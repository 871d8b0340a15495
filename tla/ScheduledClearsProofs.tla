------------------------ MODULE ScheduledClearsProofs ------------------------
(***************************************************************************)
(* For any number of sweeps: the next run only ever lies after every run   *)
(* already served and, for a sweep overtaken by an edit, after the run it  *)
(* read. So the compare-and-swap on a time is as good as one on a version. *)
(***************************************************************************)
EXTENDS ScheduledClears, FiniteSetTheorems, TLAPS

Later(t) == nextRun = Never \/ nextRun > t

ScheduleInv ==
    /\ TypeOK
    /\ \A r \in served : r <= now /\ Later(r)
    /\ \A s \in Sweep : pc[s] = "due" => due[s] <= startedAt[s] /\ startedAt[s] <= now
    /\ \A s \in edited : pc[s] = "due" => Later(due[s])
    /\ OneClearPerRun

LEMMA InitInv == Init => ScheduleInv
<1> SUFFICES ASSUME Init PROVE ScheduleInv
  OBVIOUS
<1>1. Cardinality({}) = 0
  BY FS_EmptySet
<1>2. TypeOK
  BY SweepAssumption DEF Init, TypeOK, Time
<1>3. OneClearPerRun
  BY <1>1 DEF Init, OneClearPerRun
<1> QED BY <1>2, <1>3 DEF Init, ScheduleInv

LEMMA ServedFinite ==
    ASSUME TypeOK
    PROVE  IsFiniteSet(served)
<1>1. IsFiniteSet(0..MaxTime)
  BY FS_Interval, SweepAssumption
<1> QED BY <1>1, FS_Subset DEF TypeOK

(* The claim of a run: everything served lies before it, and the run named *)
(* next lies after it.                                                     *)
LEMMA ClaimStep ==
    ASSUME ScheduleInv, NEW s \in Sweep, NEW clear \in BOOLEAN, Claim(s, clear)
    PROVE  ScheduleInv'
<1> USE SweepAssumption DEF scheduleVars, sweepVars, historyVars, NextAfter, Time
<1>1. TypeOK'
  <2>1. nextRun' \in Time \union {Never}
    BY DEF Claim
  <2>2. due[s] \in 0..MaxTime /\ clears \in Nat /\ served \subseteq 0..MaxTime
    BY DEF ScheduleInv, TypeOK
  <2>3. clears' \in Nat /\ served' \subseteq 0..MaxTime
    <3>1. CASE clear
      <4>1. clears' = clears + 1 /\ served' = served \union {due[s]}
        BY <3>1, Zenon DEF Claim
      <4>2. served' \subseteq 0..MaxTime
        BY <2>2, <4>1, Zenon
      <4>3. clears' \in Nat
        BY <2>2, <4>1
      <4> QED BY <4>2, <4>3
    <3>2. CASE ~clear
      <4>1. clears' = clears /\ served' = served
        BY <3>2, Zenon DEF Claim
      <4> QED BY <2>2, <4>1
    <3> QED BY <3>1, <3>2
  <2> QED BY <2>1, <2>3 DEF Claim, ScheduleInv, TypeOK
<1>2. /\ nextRun = due[s] /\ nextRun \in Nat
      /\ nextRun <= startedAt[s]
      /\ nextRun' \in Nat /\ nextRun' > startedAt[s]
      /\ startedAt[s] \in Nat /\ startedAt[s] <= now /\ now \in Nat
  BY DEF Claim, ScheduleInv, TypeOK
<1>3. \A t \in Nat : t <= nextRun => Later(t)'
  BY <1>2 DEF Later
<1>4. \A r \in served : r \in Nat /\ r < nextRun
  BY <1>2 DEF ScheduleInv, TypeOK, Later
<1>5. \A r \in served' : r <= now' /\ Later(r)'
  BY <1>2, <1>3, <1>4 DEF Claim, ScheduleInv
<1>6. \A x \in Sweep : pc'[x] = "due" =>
          due'[x] <= startedAt'[x] /\ startedAt'[x] <= now'
  BY DEF Claim, ScheduleInv, TypeOK
<1>7. \A x \in edited' : pc'[x] = "due" => Later(due[x])' 
  <2> SUFFICES ASSUME NEW x \in edited, pc'[x] = "due"
               PROVE  Later(due[x])'
    BY DEF Claim
  <2>1. x \in Sweep /\ pc[x] = "due" /\ due[x] \in Nat /\ due'[x] = due[x]
    BY DEF Claim, ScheduleInv, TypeOK
  <2>2. due[x] < nextRun
    BY <1>2, <2>1 DEF ScheduleInv, Later
  <2> QED BY <1>2, <2>1, <2>2 DEF Later
<1>8. OneClearPerRun'
  <2>1. clears = Cardinality(served) /\ IsFiniteSet(served)
    BY ServedFinite DEF ScheduleInv, OneClearPerRun
  <2>2. due[s] \notin served
    BY <1>2, <1>4
  <2>3. Cardinality(served \union {due[s]}) = Cardinality(served) + 1
    BY <2>1, <2>2, FS_AddElement
  <2> QED BY <2>1, <2>3 DEF Claim, OneClearPerRun
<1> QED BY <1>1, <1>5, <1>6, <1>7, <1>8 DEF ScheduleInv

LEMMA OtherSteps ==
    ASSUME ScheduleInv, [Next]_vars,
           ~ \E s \in Sweep, clear \in BOOLEAN : Claim(s, clear)
    PROVE  ScheduleInv'
<1> USE SweepAssumption
    DEF scheduleVars, sweepVars, historyVars, NextAfter, Time, ScheduleInv, TypeOK,
        Later, OneClearPerRun
<1>1. ASSUME NEW s \in Sweep, ReadDue(s) PROVE ScheduleInv'
  BY <1>1 DEF ReadDue, IsDue
<1>2. ASSUME NEW s \in Sweep, GiveUp(s) PROVE ScheduleInv'
  BY <1>2 DEF GiveUp
<1>3. CASE SetSchedule
  BY <1>3 DEF SetSchedule
<1>4. CASE ReadTimezoneEdit
  BY <1>4 DEF ReadTimezoneEdit
<1>5. CASE WriteTimezoneEdit
  BY <1>5 DEF WriteTimezoneEdit
<1>6. CASE Tick
  BY <1>6 DEF Tick
<1>7. CASE UNCHANGED vars
  BY <1>7 DEF vars
<1> QED BY <1>1, <1>2, <1>3, <1>4, <1>5, <1>6, <1>7 DEF Next

(* Clears, the runs they were made for and the edits stay in step, for any *)
(* number of sweeps (clearDueResultsCaches).                               *)
THEOREM ScheduleInvariance == Spec => []ScheduleInv
<1>1. ScheduleInv /\ [Next]_vars => ScheduleInv'
  BY ClaimStep, OtherSteps
<1> QED BY InitInv, <1>1, PTL DEF Spec

(* OneClearPerRun: no run is cleared twice, by any number of overlapping   *)
(* sweeps.                                                                 *)
THEOREM RunsClearOnce == Spec => []OneClearPerRun
<1>1. ScheduleInv => OneClearPerRun
  BY DEF ScheduleInv
<1> QED BY ScheduleInvariance, <1>1, PTL

(* EditsWin: for a sweep that read before the edit, the run it read is     *)
(* over, and its compare-and-swap finds a later one.                       *)
THEOREM SweepsNeverUndoEdits == Spec => EditsWin
<1>1. ScheduleInv /\ [Next]_vars =>
        [\A s \in Sweep :
            pc[s] = "due" /\ pc'[s] = "idle" /\ nextRun' # nextRun => s \notin edited]_vars
  <2> SUFFICES ASSUME ScheduleInv, Next, NEW s \in Sweep,
                      pc[s] = "due", pc'[s] = "idle", nextRun' # nextRun
               PROVE  s \notin edited
    OBVIOUS
  <2>1. PICK clear \in BOOLEAN : Claim(s, clear)
    BY DEF Next, ReadDue, Claim, GiveUp, SetSchedule, ReadTimezoneEdit,
       WriteTimezoneEdit, Tick, scheduleVars, sweepVars, ScheduleInv, TypeOK
  <2>2. nextRun = due[s] /\ nextRun \in Nat
    BY <2>1, SweepAssumption DEF Claim, ScheduleInv, TypeOK, Time
  <2> QED BY <2>2, SweepAssumption DEF ScheduleInv, Later
<1> QED BY ScheduleInvariance, <1>1, PTL DEF Spec, EditsWin
=============================================================================
