---------------------------- MODULE SchedulerQuiesce ----------------------------
(***************************************************************************)
(* One pod of the scheduler around migrations of the database. It reads    *)
(* the migration lease, on a timer and before every job it takes. While    *)
(* the lease is active its workers wait for a permit; when that lasts for  *)
(* the grace period their runners are drained. When the lease is clear     *)
(* again a resume drains what is left, starts a runner of one worker and,  *)
(* after a ramp, a second runner with the others.                          *)
(*                                                                         *)
(* The event loop runs one callback at a time: an action is what happens   *)
(* between two awaits of the database, a timer or a job.                   *)
(***************************************************************************)
EXTENDS Integers, FiniteSets

CONSTANTS
    Runner,          \* Graphile runners, each of a number of workers
    Concurrency,     \* lightdashConfig.scheduler.concurrency
    MaxTurns,        \* bound on changes of the lease and failed reads
    NoRunner         \* undefined

ASSUME QuiesceAssumption ==
    /\ Concurrency \in Nat \ {0}
    /\ MaxTurns \in Nat
    /\ NoRunner \notin Runner

VARIABLES
    lease,        \* the row of the lease is held and fresh
    turns,        \* changes of the lease and failed reads so far
    reading,      \* refreshPromise: a read of the lease is under way
    cached,       \* cachedResult of the probe, "none" when it is too old
    leaseActive,  \* what the last read said
    generation,
    grace,        \* graceTimeout is set
    resumes,      \* calls of resume() that have not ended
    quiesced,     \* isQuiesced
    runner,       \* a runner's life
    kind,         \* the generation that started it (0: run()), and whether it has the cron items
    worker,       \* its workers
    main,         \* this.runner
    shutdown,     \* stop(): "no", "draining"; or the pod is "done"
    awaited,      \* the runners stop() waits for
    overtaken,    \* history: runners a resume's drain found still starting
    overridden    \* history: run() ended the quiescence of an active lease

leaseVars == <<lease, turns>>
probeVars == <<reading, cached>>
quiesceVars == <<leaseActive, generation, grace>>
runnerVars == <<runner, kind, worker, main>>
stopVars == <<shutdown, awaited>>
vars == <<leaseVars, probeVars, quiesceVars, resumes, quiesced, runnerVars, stopVars,
          overtaken, overridden>>

Worker == Runner \X (1..Concurrency)
Stopped == shutdown # "no"
NoKind == [by |-> 0, cron |-> FALSE]
Of(state) == {r \in Runner : runner[r] = state}
Registered == Of("up") \union Of("stopping")

TypeOK ==
    /\ lease \in BOOLEAN /\ turns \in 0..MaxTurns
    /\ reading \in BOOLEAN /\ cached \in {"none", "active", "clear"}
    /\ leaseActive \in {"unknown", "active", "clear"} /\ generation \in Nat
    /\ grace \in BOOLEAN /\ quiesced \in BOOLEAN
    /\ resumes \subseteq [gen : Nat, awaits : SUBSET Runner,
                          step : {"drain", "jitter", "read", "start", "ramp", "reread"}]
    /\ runner \in [Runner -> {"none", "starting", "up", "stopping"}]
    /\ kind \in [Runner -> [by : Nat, cron : BOOLEAN]]
    /\ worker \in [Worker -> {"gone", "idle", "asking", "waiting", "permitted", "job"}]
    /\ main \in Registered \union {NoRunner}
    /\ shutdown \in {"no", "draining", "done"} /\ awaited \subseteq Registered
    /\ overtaken \subseteq Runner \ Of("none") /\ overridden \in BOOLEAN

Init ==
    /\ lease \in BOOLEAN /\ turns = 0
    /\ reading = TRUE /\ cached = "none"
    /\ leaseActive = "unknown" /\ generation = 0 /\ grace = FALSE
    /\ resumes = {} /\ quiesced = FALSE
    /\ runner = [r \in Runner |-> "none"]
    /\ kind = [r \in Runner |-> NoKind]
    /\ worker = [w \in Worker |-> "gone"]
    /\ main = NoRunner
    /\ shutdown = "no" /\ awaited = {}
    /\ overtaken = {} /\ overridden = FALSE

-----------------------------------------------------------------------------
(* Runners.                                                                *)

(* startManagedRunner calls Graphile, which connects first. The runner is  *)
(* in managedRunners only when it is up.                                   *)
StartRunner(by, cron) ==
    LET r == CHOOSE x \in Of("none") : TRUE
    IN  /\ Of("none") # {}
        /\ runner' = [runner EXCEPT ![r] = "starting"]
        /\ kind' = [kind EXCEPT ![r] = [by |-> by, cron |-> cron]]

Size(k) == IF k.by = 0 THEN Concurrency ELSE IF k.cron THEN 1 ELSE Concurrency - 1

(* cancelDequeueWaiters, and stop of every managed runner: its idle        *)
(* workers and those that wait for a permit end, the others when they are  *)
(* done.                                                                   *)
Drained == [r \in Runner |-> IF runner[r] = "up" THEN "stopping" ELSE runner[r]]
Dismissed(workers) ==
    [w \in Worker |-> IF workers[w] \in {"idle", "waiting"} THEN "gone" ELSE workers[w]]

(* runner.stop() settles when all its workers have ended.                  *)
RunnerStops(r) ==
    /\ runner[r] = "stopping"
    /\ \A i \in 1..Concurrency : worker[<<r, i>>] = "gone"
    /\ runner' = [runner EXCEPT ![r] = "none"]
    /\ main' = IF main = r THEN NoRunner ELSE main
    /\ resumes' = {[c EXCEPT !.awaits = @ \ {r}] : c \in resumes}
    /\ awaited' = awaited \ {r}
    /\ kind' = [kind EXCEPT ![r] = NoKind]
    /\ overtaken' = overtaken \ {r}
    /\ UNCHANGED <<leaseVars, probeVars, quiesceVars, quiesced, worker, shutdown, overridden>>

(* canResume.                                                              *)
CanResumeAnyTurn(g) == ~Stopped /\ leaseActive = "clear"
CanResumeStopped(g) == leaseActive = "clear"
CanResume(g) == ~Stopped /\ leaseActive = "clear" /\ g = generation

(* It is up. run() and resume() go on.                                     *)
RunnerUp(r) ==
    /\ runner[r] = "starting"
    /\ runner' = [runner EXCEPT ![r] = "up"]
    /\ worker' = [w \in Worker |->
            IF w[1] = r /\ w[2] <= Size(kind[r]) THEN "idle" ELSE worker[w]]
    /\ main' = IF kind[r].cron THEN r ELSE main
    /\ UNCHANGED <<leaseVars, probeVars, quiesceVars, kind, stopVars, overtaken>>

StartedFirst(r) ==
    /\ kind[r].by = 0
    /\ RunnerUp(r)
    /\ quiesced' = FALSE
    /\ overridden' = (leaseActive = "active")
    /\ UNCHANGED resumes

StartedResume(r) ==
    LET g == kind[r].by
        c == CHOOSE x \in resumes : x.gen = g
    IN  /\ g # 0
        /\ RunnerUp(r)
        /\ IF kind[r].cron /\ CanResume(g)
           THEN /\ quiesced' = FALSE /\ overridden' = FALSE
                /\ resumes' = (resumes \ {c}) \union {[c EXCEPT !.step = "ramp"]}
           ELSE resumes' = resumes \ {c} /\ UNCHANGED <<quiesced, overridden>>

(* It cannot connect: run() throws, or resume() does and onFailure marks   *)
(* the pool as dead. Either ends the pod.                                  *)
StartFails(r) ==
    /\ runner[r] = "starting"
    /\ shutdown' = "done"
    /\ UNCHANGED <<leaseVars, probeVars, quiesceVars, resumes, quiesced, runnerVars, awaited,
                   overtaken, overridden>>

-----------------------------------------------------------------------------
(* The lease and its reads.                                                *)

LeaseTurns ==
    /\ turns < MaxTurns
    /\ turns' = turns + 1
    /\ lease' = ~lease
    /\ UNCHANGED <<probeVars, quiesceVars, resumes, quiesced, runnerVars, stopVars,
                   overtaken, overridden>>

(* cacheMs have passed.                                                    *)
CacheExpires ==
    /\ cached # "none"
    /\ cached' = "none"
    /\ UNCHANGED <<leaseVars, reading, quiesceVars, resumes, quiesced, runnerVars, stopVars,
                   overtaken, overridden>>

(* The poll. A read that is under way is joined.                           *)
Poll ==
    /\ ~Stopped /\ ~reading /\ leaseActive # "unknown"
    /\ reading' = TRUE
    /\ UNCHANGED <<leaseVars, cached, quiesceVars, resumes, quiesced, runnerVars, stopVars,
                   overtaken, overridden>>

(* applyLeaseState, when the calls of resume() in "kept" go on and the     *)
(* workers are as in "workers".                                            *)
Apply(result, kept, workers) ==
    IF result = leaseActive
    THEN /\ resumes' = kept /\ worker' = workers
         /\ UNCHANGED <<quiesceVars, quiesced, runner, kind, main, overtaken, overridden>>
    ELSE /\ leaseActive' = result
         /\ generation' = generation + 1
         /\ IF result = "active"
            THEN /\ quiesced' = TRUE /\ overridden' = FALSE
                 /\ grace' = TRUE
                 /\ resumes' = kept /\ worker' = workers
                 /\ UNCHANGED <<runner, overtaken>>
            ELSE /\ grace' = FALSE
                 /\ runner' = Drained /\ worker' = Dismissed(workers)
                 /\ resumes' = kept \union
                      {[gen |-> generation + 1, step |-> "drain", awaits |-> Registered]}
                 /\ overtaken' = overtaken \union Of("starting")
                 /\ UNCHANGED <<quiesced, overridden>>
         /\ UNCHANGED <<kind, main>>

(* The workers that wait for this read.                                    *)
Told(result) ==
    [w \in Worker |-> IF worker[w] # "asking" THEN worker[w]
                      ELSE IF result = "clear" THEN "permitted" ELSE "waiting"]
Rereading == {c \in resumes : c.step \in {"read", "reread"}}

(* The first read, by run().                                               *)
Boot ==
    /\ reading /\ leaseActive = "unknown"
    /\ reading' = FALSE
    /\ generation' = generation + 1
    /\ \/ /\ ~lease
          /\ leaseActive' = "clear" /\ cached' = "clear" /\ quiesced' = FALSE
          /\ StartRunner(0, TRUE)
          /\ UNCHANGED <<turns, grace>>
       \/ /\ lease
          /\ leaseActive' = "active" /\ cached' = "active"
          /\ quiesced' = TRUE /\ grace' = TRUE
          /\ UNCHANGED <<turns, runner, kind>>
       \/ /\ turns < MaxTurns
          /\ turns' = turns + 1
          /\ leaseActive' = "active" /\ quiesced' = TRUE /\ grace' = TRUE
          /\ UNCHANGED <<cached, runner, kind>>
    /\ UNCHANGED <<lease, resumes, worker, main, stopVars, overtaken, overridden>>

(* A read answers, and every call that joined it goes on.                  *)
ReadAnswers ==
    LET result == IF lease THEN "active" ELSE "clear" IN
    /\ reading /\ leaseActive # "unknown"
    /\ lease \/ \A c \in Rereading : ~CanResume(c.gen)
    /\ reading' = FALSE /\ cached' = result
    /\ Apply(result, resumes \ Rereading, Told(result))
    /\ UNCHANGED <<leaseVars, stopVars>>

ReadFailsUnapplied ==
    /\ reading /\ leaseActive # "unknown"
    /\ turns < MaxTurns
    /\ turns' = turns + 1
    /\ reading' = FALSE
    /\ Apply(leaseActive, resumes \ Rereading, Told("active"))
    /\ UNCHANGED <<lease, cached, stopVars>>
ReadFails ==
    /\ reading /\ leaseActive # "unknown"
    /\ turns < MaxTurns
    /\ turns' = turns + 1
    /\ reading' = FALSE
    /\ Apply("active", resumes \ Rereading, Told("active"))
    /\ UNCHANGED <<lease, cached, stopVars>>

(* It says clear to a resume that can go on: startResumeWorkers, or        *)
(* finishResumeRamp.                                                       *)
ReadResumesEarly(c) ==
    /\ reading /\ ~lease
    /\ CanResume(c.gen)
    /\ reading' = FALSE /\ cached' = "clear"
    /\ worker' = Told("clear")
    /\ IF c.step = "reread" /\ Concurrency = 1
       THEN resumes' = resumes \ Rereading /\ UNCHANGED <<runner, kind>>
       ELSE /\ StartRunner(c.gen, c.step = "read")
            /\ resumes' = (resumes \ Rereading) \union {[c EXCEPT !.step = "start"]}
    /\ quiesced' = FALSE
    /\ UNCHANGED <<leaseVars, quiesceVars, main, stopVars, overtaken, overridden>>
ReadResumes(c) ==
    /\ reading /\ ~lease
    /\ CanResume(c.gen)
    /\ reading' = FALSE /\ cached' = "clear"
    /\ worker' = Told("clear")
    /\ IF c.step = "reread" /\ Concurrency = 1
       THEN resumes' = resumes \ Rereading /\ UNCHANGED <<runner, kind>>
       ELSE /\ StartRunner(c.gen, c.step = "read")
            /\ resumes' = (resumes \ Rereading) \union {[c EXCEPT !.step = "start"]}
    /\ UNCHANGED <<leaseVars, quiesceVars, quiesced, main, stopVars, overtaken, overridden>>

-----------------------------------------------------------------------------
(* Workers: forbiddenFlags, that is waitForDequeuePermit, then a job.      *)

Ask(w) ==
    /\ worker[w] = "idle"
    /\ IF Stopped \/ reading \/ cached = "none"
       THEN /\ worker' = [worker EXCEPT ![w] = IF Stopped THEN "waiting" ELSE "asking"]
            /\ reading' = (reading \/ ~Stopped)
            /\ UNCHANGED <<quiesceVars, resumes, quiesced, runner, kind, main, overtaken, overridden>>
       ELSE /\ Apply(cached, resumes,
                  [worker EXCEPT ![w] = IF cached = "clear" THEN "permitted" ELSE "waiting"])
            /\ UNCHANGED reading
    /\ UNCHANGED <<leaseVars, cached, stopVars>>

Rest(w) == IF runner[w[1]] = "up" THEN "idle" ELSE "gone"

GetJob(w) ==
    /\ worker[w] = "permitted"
    /\ \E next \in {"job", Rest(w)} : worker' = [worker EXCEPT ![w] = next]
    /\ UNCHANGED <<leaseVars, probeVars, quiesceVars, resumes, quiesced, runner, kind, main,
                   stopVars, overtaken, overridden>>

EndJob(w) ==
    /\ worker[w] = "job"
    /\ worker' = [worker EXCEPT ![w] = Rest(w)]
    /\ UNCHANGED <<leaseVars, probeVars, quiesceVars, resumes, quiesced, runner, kind, main,
                   stopVars, overtaken, overridden>>

(* The promise of a runner settles though nobody stops it: the pool is     *)
(* dead for good, and the pod is replaced.                                 *)
RunnerDies(r) ==
    /\ runner[r] = "up" /\ ~Stopped
    /\ shutdown' = "done"
    /\ UNCHANGED <<leaseVars, probeVars, quiesceVars, resumes, quiesced, runnerVars, awaited,
                   overtaken, overridden>>

-----------------------------------------------------------------------------
(* Quiescing and resuming.                                                 *)

GraceEndsMain ==
    /\ grace /\ grace' = FALSE
    /\ main # NoRunner
    /\ runner' = [runner EXCEPT ![main] = "stopping"]
    /\ worker' = [w \in Worker |-> IF w[1] = main THEN Dismissed(worker)[w] ELSE worker[w]]
    /\ UNCHANGED <<leaseVars, probeVars, leaseActive, generation, resumes, quiesced, kind, main,
                   stopVars, overtaken, overridden>>
GraceEnds ==
    /\ grace /\ grace' = FALSE
    /\ IF Stopped THEN UNCHANGED <<runner, worker>>
       ELSE runner' = Drained /\ worker' = Dismissed(worker)
    /\ UNCHANGED <<leaseVars, probeVars, leaseActive, generation, resumes, quiesced, kind, main,
                   stopVars, overtaken, overridden>>

(* A step of resume(), after the drain, the jitter and the ramp.           *)
Resume(c) ==
    /\ \/ c.step = "drain" /\ c.awaits = {}
       \/ c.step \in {"jitter", "ramp"}
    /\ IF CanResume(c.gen)
       THEN /\ resumes' = (resumes \ {c}) \union
                  {[c EXCEPT !.step = CASE c.step = "drain" -> "jitter"
                                        [] c.step = "jitter" -> "read"
                                        [] c.step = "ramp" -> "reread"]}
            /\ reading' = (reading \/ c.step # "drain")
       ELSE resumes' = resumes \ {c} /\ UNCHANGED reading
    /\ UNCHANGED <<leaseVars, cached, quiesceVars, quiesced, runnerVars, stopVars,
                   overtaken, overridden>>

-----------------------------------------------------------------------------
(* SchedulerWorker.stop.                                                   *)

Stop ==
    /\ ~Stopped
    /\ shutdown' = "draining"
    /\ awaited' = Registered
    /\ generation' = generation + 1
    /\ grace' = FALSE
    /\ runner' = Drained /\ worker' = Dismissed(worker)
    /\ UNCHANGED <<leaseVars, probeVars, leaseActive, resumes, quiesced, kind, main,
                   overtaken, overridden>>

(* Drained, or past shutdownTimeout, when the jobs that are left are        *)
(* released for retry. The process ends.                                   *)
Exit ==
    /\ shutdown = "draining"
    /\ shutdown' = "done"
    /\ quiesced' = FALSE
    /\ UNCHANGED <<leaseVars, probeVars, quiesceVars, resumes, runnerVars, awaited,
                   overtaken, overridden>>

-----------------------------------------------------------------------------
Reads == Poll \/ Boot \/ ReadAnswers \/ \E c \in Rereading : ReadResumes(c)
Runs(r) == RunnerStops(r) \/ StartedFirst(r) \/ StartedResume(r)
Works(w) == Ask(w) \/ GetJob(w) \/ EndJob(w)

Next ==
    /\ shutdown # "done"
    /\ \/ Reads \/ ReadFails \/ LeaseTurns \/ CacheExpires
       \/ \E r \in Runner : Runs(r) \/ StartFails(r) \/ RunnerDies(r)
       \/ \E w \in Worker : Works(w)
       \/ GraceEnds \/ \E c \in resumes : Resume(c)
       \/ Stop \/ Exit

Spec == Init /\ [][Next]_vars

(* Reads answer, timers fire, runners start and stop, jobs end.            *)
Fairness ==
    /\ WF_vars(Reads)
    /\ WF_vars(GraceEnds)
    /\ WF_vars(\E c \in resumes : Resume(c))
    /\ \A r \in Runner : WF_vars(Runs(r))
    /\ \A w \in Worker : WF_vars(Works(w))

FairSpec == Spec /\ Fairness

-----------------------------------------------------------------------------
(* When the grace period has ended under a lease, no job runs but those of *)
(* runners that are being drained, and no such runner takes another.       *)
QuietUnderLease ==
    leaseActive = "active" /\ ~grace =>
        \A w \in Worker : worker[w] \in {"permitted", "job"} => runner[w[1]] = "stopping"

(* A job stays with its worker until it ends: a resume starts runners only *)
(* when those before it are gone, so that no more than Concurrency workers *)
(* live. A runner that was still starting when it drained is not managed   *)
(* yet, and is the exception.                                              *)
ResumesAlone ==
    \A a, b \in (Runner \ Of("none")) \ overtaken :
        a # b => kind[a].by = kind[b].by /\ kind[a].cron # kind[b].cron

(* The probe of the pod succeeds: it is quiesced or has a runner with the  *)
(* cron items, unless run() has overridden the quiescence.                 *)
PodIsHealthy ==
    generation > 0 /\ ~Stopped /\ ~overridden
        => quiesced \/ main # NoRunner \/ \E r \in Of("starting") : kind[r].by = 0

(* A pod that stops starts no runner for a resume.                         *)
NoResumeAfterStop ==
    [][\A r \in Runner : Stopped /\ runner[r] = "none" => runner'[r] = "none" \/ kind'[r].by = 0]_vars

(* Once the lease stays clear the pod works again with all its workers,    *)
(* and none of them waits for a permit for ever.                           *)
FullyStaffed ==
    /\ ~quiesced
    /\ \E a, b \in Of("up") : kind[a].cron /\ (Concurrency > Size(kind[a]) => a # b /\ kind[b].by # 0)
AtWork ==
    /\ FullyStaffed
    /\ \A w \in Worker : runner[w[1]] = "up" => worker[w] # "waiting"
ComesBack == <>[](~lease /\ ~Stopped) => <>[]AtWork

(* What a resume waits for will come: runners that are being drained, one  *)
(* that it has started, or an answer of the database.                      *)
Awaits(c) ==
    /\ c.step = "drain" => c.awaits \subseteq Of("stopping")
    /\ c.step = "start" => \E r \in Of("starting") : kind[r].by = c.gen
    /\ c.step \in {"read", "reread"} => reading

(* A pod that has read that the lease is clear is never left half awake:   *)
(* run() is starting its runner, or a resume of the present turn is under  *)
(* way and not stuck, or it has all its workers; and nobody waits for a    *)
(* permit that was asked for under the lease before.                       *)
NeverHalfAwake ==
    leaseActive = "clear" /\ ~Stopped =>
        /\ \A w \in Worker : worker[w] # "waiting"
        /\ \/ AtWork
           \/ \E r \in Of("starting") : kind[r].by = 0
           \/ \E c \in resumes : c.gen = generation /\ Awaits(c)

-----------------------------------------------------------------------------
(* Why it is not. Inductive, with what ResumesAlone rests on.              *)

(* The grace period ends with the turn, and so do the waits.               *)
Calm ==
    leaseActive # "active" /\ ~Stopped =>
        ~grace /\ \A w \in Worker : worker[w] # "waiting"

(* The resume of the present turn has woken the pod when its first runner  *)
(* is up, and does not end before the second is.                           *)
HalfUp(g) == ~quiesced /\ \E a \in Of("up") : kind[a].by = g /\ kind[a].cron
GoesOn(c) ==
    /\ Awaits(c)
    /\ c.step \in {"ramp", "reread"} => HalfUp(c.gen)
    /\ \A r \in Of("starting") : kind[r].by = c.gen /\ ~kind[r].cron => HalfUp(c.gen)
Waking ==
    leaseActive = "clear" /\ ~Stopped =>
        /\ \A c \in resumes : c.gen = generation => GoesOn(c)
        /\ \/ FullyStaffed
           \/ \E r \in Of("starting") : kind[r].by = 0
           \/ \E c \in resumes : c.gen = generation

WakingInv == Calm /\ Waking
=============================================================================
