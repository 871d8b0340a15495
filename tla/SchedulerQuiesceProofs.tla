------------------------ MODULE SchedulerQuiesceProofs ------------------------
(***************************************************************************)
(* For any number of runners and workers, turns of the lease and resumes   *)
(* under way at once. A resume that may go on carries the generation of    *)
(* the pod; the invariant says what it then knows of the runners.          *)
(***************************************************************************)
EXTENDS SchedulerQuiesce, TLAPS

(* Workers live as long as their runner. Those of a runner that came up    *)
(* while the pod drains never get past their permit.                       *)
Workers ==
    \A w \in Worker :
        /\ worker[w] # "gone" => runner[w[1]] \in {"up", "stopping"}
        /\ shutdown = "draining" /\ runner[w[1]] = "up" =>
              worker[w] \in {"gone", "idle", "waiting"}

(* Before run() knows the lease there are no runners and no resumes.       *)
Unknown ==
    leaseActive = "unknown" => resumes = {} /\ \A r \in Runner : runner[r] = "none"

(* Each resume has a turn of its own, and waits for runners only while it  *)
(* drains.                                                                 *)
Turns ==
    /\ \A c \in resumes : c.gen # 0 /\ c.gen <= generation
    /\ \A c, d \in resumes : c.gen = d.gen => c = d
    /\ \A c \in resumes : c.step # "drain" => c.awaits = {}

(* A resume starts one runner at a time and waits until it is up.          *)
Starts ==
    /\ \A r \in Runner : kind[r].by <= generation
    /\ \A r \in Of("starting") : kind[r].by # 0 =>
          \E c \in resumes : c.gen = kind[r].by /\ c.step = "start"
    /\ \A a, b \in Of("starting") : kind[a].by = kind[b].by => a = b

(* The runners a drain knows of.                                           *)
Managed == (Runner \ Of("none")) \ overtaken

(* What the resume of the present turn knows: who is left that it did not  *)
(* start; that it has started none, or only the one with the cron items,   *)
(* which starts alone.                                                     *)
Alone ==
    /\ \A c \in resumes : c.gen = generation =>
          /\ \A r \in Managed : r \in c.awaits \/ kind[r].by = c.gen
          /\ c.step \in {"drain", "jitter", "read"} =>
                \A r \in Managed : kind[r].by # c.gen
          /\ c.step \in {"ramp", "reread"} => \A r \in Managed : kind[r].by = c.gen => kind[r].cron
    /\ \A r \in Of("starting") : kind[r].by = generation /\ kind[r].cron => Managed \subseteq {r}
    /\ ResumesAlone

QuiesceInv == TypeOK /\ Workers /\ QuietUnderLease /\ Unknown /\ Turns /\ Starts /\ Alone

LEMMA InitInv == Init => QuiesceInv
<1> SUFFICES ASSUME Init PROVE QuiesceInv
  OBVIOUS
<1>1. TypeOK
  <2>1. /\ runner \in [Runner -> {"none", "starting", "up", "stopping"}]
        /\ kind \in [Runner -> [by : Nat, cron : BOOLEAN]]
        /\ worker \in [Worker -> {"gone", "idle", "asking", "waiting", "permitted", "job"}]
    BY DEF Init, NoKind
  <2>2. lease \in BOOLEAN /\ turns \in 0..MaxTurns /\ generation \in Nat
    BY QuiesceAssumption DEF Init
  <2>3. /\ main \in Registered \union {NoRunner} /\ awaited \subseteq Registered
        /\ overtaken \subseteq Runner \ Of("none") /\ resumes = {}
    BY DEF Init
  <2> QED BY <2>1, <2>2, <2>3 DEF Init, TypeOK
<1>2. Workers /\ QuietUnderLease /\ Unknown
  BY DEF Init, Workers, QuietUnderLease, Unknown
<1>3. Turns /\ Starts /\ Alone
  BY DEF Init, Turns, Starts, Alone, ResumesAlone, Managed, Of, NoKind
<1> QED BY <1>1, <1>2, <1>3 DEF QuiesceInv

WorkerState == {"gone", "idle", "asking", "waiting", "permitted", "job"}
ResumeCall == [gen : Nat, awaits : SUBSET Runner,
               step : {"drain", "jitter", "read", "start", "ramp", "reread"}]

-----------------------------------------------------------------------------
(* What the operators do that several actions share.                       *)

(* One runner that was not there starts.                                   *)
LEMMA StartEffect ==
    ASSUME NEW by, NEW cron, StartRunner(by, cron)
    PROVE  \E r \in Runner :
              /\ runner[r] = "none"
              /\ runner' = [runner EXCEPT ![r] = "starting"]
              /\ kind' = [kind EXCEPT ![r] = [by |-> by, cron |-> cron]]
<1> DEFINE r == CHOOSE x \in Of("none") : TRUE
<1>1. r \in Of("none")
  BY DEF StartRunner
<1>2. /\ runner' = [runner EXCEPT ![r] = "starting"]
      /\ kind' = [kind EXCEPT ![r] = [by |-> by, cron |-> cron]]
  BY DEF StartRunner
<1> HIDE DEF r
<1> QED BY <1>1, <1>2 DEF Of

(* The resume that started a runner goes on to its ramp or ends.           *)
LEMMA StartedEffect ==
    ASSUME TypeOK, Starts, NEW r \in Runner, StartedResume(r)
    PROVE  \E c \in resumes :
              /\ c.gen = kind[r].by
              /\ \/ /\ kind[r].cron /\ CanResume(c.gen)
                    /\ resumes' = (resumes \ {c}) \union {[c EXCEPT !.step = "ramp"]}
                 \/ resumes' = resumes \ {c}
<1> DEFINE c == CHOOSE x \in resumes : x.gen = kind[r].by
<1>1. \E x \in resumes : x.gen = kind[r].by
  BY DEF StartedResume, RunnerUp, Starts, Of
<1>2. c \in resumes /\ c.gen = kind[r].by
  BY <1>1
<1>3. \/ /\ kind[r].cron /\ CanResume(kind[r].by)
         /\ resumes' = (resumes \ {c}) \union {[c EXCEPT !.step = "ramp"]}
      \/ resumes' = resumes \ {c}
  BY DEF StartedResume
<1> HIDE DEF c
<1> QED BY <1>2, <1>3

LEMMA ToldType ==
    ASSUME TypeOK, NEW result
    PROVE  Told(result) \in [Worker -> WorkerState]
BY DEF TypeOK, Told, WorkerState

(* Whatever is said of registered runners stays true as long as they are   *)
(* up or stopping.                                                         *)
RunnerTypeOK ==
    /\ runner \in [Runner -> {"none", "starting", "up", "stopping"}]
    /\ main \in Registered \union {NoRunner}
    /\ awaited \subseteq Registered
    /\ overtaken \subseteq Runner \ Of("none")

LEMMA RunnersStay ==
    ASSUME TypeOK,
           runner' \in [Runner -> {"none", "starting", "up", "stopping"}],
           \A r \in Runner :
              /\ runner[r] \in {"up", "stopping"} => runner'[r] \in {"up", "stopping"}
              /\ runner[r] # "none" => runner'[r] # "none",
           main' = main, awaited' \in {awaited, Registered},
           overtaken' \in {overtaken, overtaken \union Of("starting")}
    PROVE  RunnerTypeOK'
BY DEF TypeOK, RunnerTypeOK, Registered, Of

LEMMA DrainedType ==
    ASSUME TypeOK
    PROVE  /\ Drained \in [Runner -> {"none", "starting", "up", "stopping"}]
           /\ \A r \in Runner :
                 /\ runner[r] \in {"up", "stopping"} => Drained[r] = "stopping"
                 /\ runner[r] \notin {"up", "stopping"} => Drained[r] = runner[r]
           /\ \A workers \in [Worker -> WorkerState] :
                 /\ Dismissed(workers) \in [Worker -> WorkerState]
                 /\ \A w \in Worker : Dismissed(workers)[w] =
                       IF workers[w] \in {"idle", "waiting"} THEN "gone" ELSE workers[w]
BY DEF TypeOK, Drained, Dismissed, WorkerState

(* The part of TypeOK that Apply changes.                                  *)
LEMMA ApplyType ==
    ASSUME TypeOK, NEW result \in {"active", "clear"}, NEW kept \in SUBSET resumes,
           NEW workers \in [Worker -> WorkerState], Apply(result, kept, workers),
           UNCHANGED <<lease, stopVars>>, turns' \in 0..MaxTurns,
           reading' \in BOOLEAN, cached' \in {"none", "active", "clear"}
    PROVE  TypeOK'
<1>1. CASE UNCHANGED <<quiesceVars, quiesced, runner, kind, main, overtaken, overridden>>
  <2>1. resumes' = kept /\ worker' = workers
    BY <1>1, QuiesceAssumption DEF Apply, quiesceVars, TypeOK
  <2>2. RunnerTypeOK'
    BY <1>1, RunnersStay DEF TypeOK, stopVars
  <2> QED BY <1>1, <2>1, <2>2 DEF TypeOK, RunnerTypeOK, stopVars, quiesceVars, WorkerState
<1>2. CASE result # leaseActive /\ result = "active"
  <2>1. /\ leaseActive' = "active" /\ generation' = generation + 1
        /\ quiesced' = TRUE /\ overridden' = FALSE /\ grace' = TRUE
        /\ resumes' = kept /\ worker' = workers
        /\ UNCHANGED <<runner, overtaken, kind, main>>
    BY <1>2 DEF Apply
  <2>2. RunnerTypeOK'
    BY <2>1, RunnersStay DEF TypeOK, stopVars
  <2>3. resumes' \subseteq ResumeCall
    BY <2>1 DEF ResumeCall, TypeOK
  <2>4. generation' \in Nat
    BY <2>1 DEF TypeOK
  <2>5. grace' \in BOOLEAN /\ quiesced' \in BOOLEAN /\ overridden' \in BOOLEAN
    BY <2>1
  <2>6. UNCHANGED <<kind, lease, shutdown>> /\ worker' = workers /\ leaseActive' = "active"
    BY <2>1 DEF stopVars
  <2> QED BY <2>2, <2>3, <2>4, <2>5, <2>6 DEF TypeOK, RunnerTypeOK, ResumeCall, WorkerState
<1>3. CASE result # leaseActive /\ result = "clear"
  <2>1. /\ leaseActive' = "clear" /\ generation' = generation + 1 /\ grace' = FALSE
        /\ runner' = Drained /\ worker' = Dismissed(workers)
        /\ resumes' = kept \union
              {[gen |-> generation + 1, step |-> "drain", awaits |-> Registered]}
        /\ overtaken' = overtaken \union Of("starting")
        /\ UNCHANGED <<quiesced, overridden, kind, main>>
    BY <1>3 DEF Apply
  <2>2. RunnerTypeOK'
    BY <2>1, RunnersStay, DrainedType DEF stopVars
  <2>3. worker' \in [Worker -> WorkerState]
    BY <2>1, DrainedType
  <2>4. resumes' \subseteq ResumeCall
    BY <2>1 DEF ResumeCall, TypeOK, Registered, Of
  <2> QED BY <2>1, <2>2, <2>3, <2>4 DEF TypeOK, RunnerTypeOK, ResumeCall, stopVars, WorkerState
<1> QED BY <1>1, <1>2, <1>3 DEF Apply

LEMMA TypeStep ==
    ASSUME TypeOK, Starts, Next
    PROVE  TypeOK'
<1> USE QuiesceAssumption
    DEF TypeOK, leaseVars, probeVars, quiesceVars, runnerVars, stopVars, Of, Registered
<1>0. ASSUME RunnerTypeOK',
             lease' \in BOOLEAN /\ turns' \in 0..MaxTurns,
             reading' \in BOOLEAN /\ cached' \in {"none", "active", "clear"},
             leaseActive' \in {"unknown", "active", "clear"} /\ generation' \in Nat,
             grace' \in BOOLEAN /\ quiesced' \in BOOLEAN /\ overridden' \in BOOLEAN,
             resumes' \subseteq ResumeCall,
             kind' \in [Runner -> [by : Nat, cron : BOOLEAN]],
             worker' \in [Worker -> WorkerState],
             shutdown' \in {"no", "draining", "done"}
      PROVE  TypeOK'
  BY <1>0 DEF RunnerTypeOK, ResumeCall, WorkerState
<1>1. ASSUME Poll PROVE TypeOK'
  BY <1>1 DEF Poll
<1>2. ASSUME Boot PROVE TypeOK'
  <2>1. /\ runner' \in [Runner -> {"none", "starting", "up", "stopping"}]
        /\ kind' \in [Runner -> [by : Nat, cron : BOOLEAN]]
        /\ \A r \in Runner : runner'[r] = runner[r] \/ runner[r] = "none"
    <3>1. CASE UNCHANGED <<runner, kind>>
      BY <3>1
    <3>2. CASE StartRunner(0, TRUE)
      <4>1. PICK r \in Runner :
              /\ runner[r] = "none"
              /\ runner' = [runner EXCEPT ![r] = "starting"]
              /\ kind' = [kind EXCEPT ![r] = [by |-> 0, cron |-> TRUE]]
        BY <3>2, StartEffect
      <4> QED BY <4>1
    <3> QED BY <1>2, <3>1, <3>2 DEF Boot
  <2>2. UNCHANGED <<lease, resumes, worker, main, stopVars, overtaken, overridden>>
    BY <1>2 DEF Boot
  <2>3. RunnerTypeOK'
    BY <2>1, <2>2, RunnersStay
  <2>4. /\ turns' \in 0..MaxTurns /\ cached' \in {"none", "active", "clear"}
        /\ leaseActive' \in {"active", "clear"} /\ generation' \in Nat
        /\ reading' \in BOOLEAN /\ grace' \in BOOLEAN /\ quiesced' \in BOOLEAN
    <3>1. turns' \in 0..MaxTurns
      <4>1. turns' = turns \/ (turns < MaxTurns /\ turns' = turns + 1)
        BY <1>2, Zenon DEF Boot
      <4> QED BY <4>1
    <3>2. generation' \in Nat
      BY <1>2 DEF Boot
    <3>3. cached' \in {"none", "active", "clear"} /\ leaseActive' \in {"active", "clear"}
      BY <1>2 DEF Boot
    <3>4. reading' \in BOOLEAN /\ grace' \in BOOLEAN /\ quiesced' \in BOOLEAN
      BY <1>2 DEF Boot
    <3> QED BY <3>1, <3>2, <3>3, <3>4
  <2> QED BY <1>0, <2>1, <2>2, <2>3, <2>4 DEF ResumeCall, WorkerState
<1>3. ASSUME ReadAnswers PROVE TypeOK'
  <2>1. Told(IF lease THEN "active" ELSE "clear") \in [Worker -> WorkerState]
    BY ToldType
  <2>2. resumes \ Rereading \subseteq resumes
    OBVIOUS
  <2> QED BY <1>3, <2>1, <2>2, ApplyType DEF ReadAnswers
<1>4. ASSUME NEW c \in Rereading, ReadResumes(c) PROVE TypeOK'
  <2>1. worker' \in [Worker -> WorkerState]
    BY <1>4, ToldType DEF ReadResumes
  <2>2. c \in resumes /\ c \in ResumeCall /\ [c EXCEPT !.step = "start"] \in ResumeCall
    BY DEF Rereading, ResumeCall
  <2>3. /\ runner' \in [Runner -> {"none", "starting", "up", "stopping"}]
        /\ kind' \in [Runner -> [by : Nat, cron : BOOLEAN]]
        /\ \A r \in Runner : runner'[r] = runner[r] \/ runner[r] = "none"
    <3>1. CASE UNCHANGED <<runner, kind>>
      BY <3>1
    <3>2. CASE StartRunner(c.gen, c.step = "read")
      <4>1. PICK r \in Runner :
              /\ runner[r] = "none"
              /\ runner' = [runner EXCEPT ![r] = "starting"]
              /\ kind' = [kind EXCEPT ![r] = [by |-> c.gen, cron |-> c.step = "read"]]
        BY <3>2, StartEffect
      <4>2. [by |-> c.gen, cron |-> c.step = "read"] \in [by : Nat, cron : BOOLEAN]
        BY <2>2 DEF ResumeCall
      <4> QED BY <4>1, <4>2
    <3> QED BY <1>4, <3>1, <3>2 DEF ReadResumes
  <2>4. UNCHANGED <<leaseVars, quiesceVars, quiesced, main, stopVars, overtaken, overridden>>
    BY <1>4 DEF ReadResumes
  <2>5. RunnerTypeOK'
    BY <2>3, <2>4, RunnersStay
  <2>6. resumes' \subseteq resumes \union {[c EXCEPT !.step = "start"]}
    BY <1>4 DEF ReadResumes
  <2>7. resumes' \subseteq ResumeCall
    BY <2>2, <2>6 DEF ResumeCall
  <2> QED BY <1>4, <1>0, <2>1, <2>3, <2>4, <2>5, <2>7 DEF ReadResumes
<1>5. ASSUME ReadFails PROVE TypeOK'
  <2>1. Told("active") \in [Worker -> WorkerState]
    BY ToldType
  <2>2. resumes \ Rereading \subseteq resumes /\ turns' \in 0..MaxTurns
    BY <1>5 DEF ReadFails
  <2> QED BY <1>5, <2>1, <2>2, ApplyType DEF ReadFails
<1>6. ASSUME LeaseTurns PROVE TypeOK'
  BY <1>6 DEF LeaseTurns
<1>7. ASSUME CacheExpires PROVE TypeOK'
  BY <1>7 DEF CacheExpires
<1>8. ASSUME NEW r \in Runner, RunnerStops(r) PROVE TypeOK'
  <2>1. resumes' \subseteq ResumeCall
    BY <1>8 DEF RunnerStops, ResumeCall
  <2> QED BY <1>8, <2>1 DEF RunnerStops, ResumeCall, NoKind
<1>9. ASSUME NEW r \in Runner, StartedFirst(r) PROVE TypeOK'
  BY <1>9 DEF StartedFirst, RunnerUp
<1>10. ASSUME NEW r \in Runner, StartedResume(r) PROVE TypeOK'
  <2>1. \E c \in resumes : resumes' \subseteq (resumes \ {c}) \union {[c EXCEPT !.step = "ramp"]}
    BY <1>10, StartedEffect
  <2>2. resumes' \subseteq ResumeCall
    BY <2>1 DEF ResumeCall
  <2> QED BY <1>10, <2>2 DEF StartedResume, RunnerUp, ResumeCall
<1>11. ASSUME NEW r \in Runner, StartFails(r) PROVE TypeOK'
  BY <1>11 DEF StartFails
<1>12. ASSUME NEW r \in Runner, RunnerDies(r) PROVE TypeOK'
  BY <1>12 DEF RunnerDies
<1>13. ASSUME NEW w \in Worker, Ask(w) PROVE TypeOK'
  <2>1. [worker EXCEPT ![w] = IF cached = "clear" THEN "permitted" ELSE "waiting"]
          \in [Worker -> WorkerState]
    BY DEF WorkerState
  <2>2. CASE Stopped \/ reading \/ cached = "none"
    BY <1>13, <2>2 DEF Ask
  <2>3. CASE ~(Stopped \/ reading \/ cached = "none")
    <3>1. /\ Apply(cached, resumes,
               [worker EXCEPT ![w] = IF cached = "clear" THEN "permitted" ELSE "waiting"])
          /\ cached \in {"active", "clear"} /\ UNCHANGED <<reading, leaseVars, cached, stopVars>>
      BY <1>13, <2>3 DEF Ask
    <3> QED BY <2>1, <3>1, ApplyType
  <2> QED BY <2>2, <2>3
<1>14. ASSUME NEW w \in Worker, GetJob(w) PROVE TypeOK'
  BY <1>14 DEF GetJob, Rest
<1>15. ASSUME NEW w \in Worker, EndJob(w) PROVE TypeOK'
  BY <1>15 DEF EndJob, Rest
<1>16. ASSUME GraceEnds PROVE TypeOK'
  <2>1. UNCHANGED <<runner, worker>> \/ (runner' = Drained /\ worker' = Dismissed(worker))
    BY <1>16 DEF GraceEnds
  <2>2. worker' \in [Worker -> WorkerState]
    BY <2>1, DrainedType DEF WorkerState
  <2>3. /\ runner' \in [Runner -> {"none", "starting", "up", "stopping"}]
        /\ \A r \in Runner :
              /\ runner[r] \in {"up", "stopping"} => runner'[r] \in {"up", "stopping"}
              /\ runner[r] # "none" => runner'[r] # "none"
    BY <2>1, DrainedType
  <2>4. main' = main /\ overtaken' = overtaken /\ awaited' \in {awaited, Registered}
    BY <1>16 DEF GraceEnds
  <2>5. RunnerTypeOK'
    BY <2>3, <2>4, RunnersStay
  <2> QED BY <1>16, <1>0, <2>2, <2>5 DEF GraceEnds, ResumeCall
<1>17. ASSUME NEW c \in resumes, Resume(c) PROVE TypeOK'
  <2>1. CASE CanResume(c.gen)
    <3>1. PICK next \in {"jitter", "read", "reread"} :
            resumes' = (resumes \ {c}) \union {[c EXCEPT !.step = next]}
      BY <1>17, <2>1 DEF Resume
    <3>2. resumes' \subseteq ResumeCall
      BY <3>1 DEF ResumeCall
    <3> QED BY <1>17, <3>2 DEF Resume, ResumeCall
  <2>2. CASE ~CanResume(c.gen)
    BY <1>17, <2>2 DEF Resume
  <2> QED BY <2>1, <2>2
<1>18. ASSUME Stop PROVE TypeOK'
  <2>1. UNCHANGED <<runner, worker>> \/ (runner' = Drained /\ worker' = Dismissed(worker))
    BY <1>18 DEF Stop
  <2>2. worker' \in [Worker -> WorkerState]
    BY <2>1, DrainedType DEF WorkerState
  <2>3. /\ runner' \in [Runner -> {"none", "starting", "up", "stopping"}]
        /\ \A r \in Runner :
              /\ runner[r] \in {"up", "stopping"} => runner'[r] \in {"up", "stopping"}
              /\ runner[r] # "none" => runner'[r] # "none"
    BY <2>1, DrainedType
  <2>4. main' = main /\ overtaken' = overtaken /\ awaited' \in {awaited, Registered}
    BY <1>18 DEF Stop
  <2>5. RunnerTypeOK'
    BY <2>3, <2>4, RunnersStay
  <2>6. /\ shutdown' = "draining" /\ generation' = generation + 1 /\ grace' = FALSE
        /\ UNCHANGED <<leaseVars, probeVars, leaseActive, resumes, quiesced, kind, overridden>>
    BY <1>18 DEF Stop
  <2>7. generation' \in Nat
    BY <2>6
  <2>8. grace' \in BOOLEAN
    BY <2>6
  <2> QED BY <1>0, <2>2, <2>5, <2>6, <2>7, <2>8 DEF ResumeCall
<1>19. ASSUME Exit PROVE TypeOK'
  BY <1>19 DEF Exit
<1> QED
  BY <1>1, <1>2, <1>3, <1>4, <1>5, <1>6, <1>7, <1>8, <1>9, <1>10, <1>11, <1>12, <1>13, <1>14, <1>15, <1>16, <1>17, <1>18, <1>19 DEF Next, Reads, Runs, Works

-----------------------------------------------------------------------------
(* Workers and their permits.                                              *)

(* After a drain nothing runs but on runners that stop.                    *)
LEMMA DrainQuiets ==
    ASSUME TypeOK, Workers, NEW workers \in [Worker -> WorkerState],
           \A w \in Worker : workers[w] # "gone" => worker[w] # "gone",
           runner' = Drained, worker' = Dismissed(workers)
    PROVE  Workers' /\ QuietUnderLease'
<1>1. \A w \in Worker : w[1] \in Runner
  BY DEF Worker
<1>2. \A r \in Runner : runner'[r] # "up"
  BY DrainedType DEF TypeOK
<1>3. \A w \in Worker : worker'[w] # "gone" => runner'[w[1]] = "stopping"
  BY <1>1, DrainedType DEF Workers
<1> QED BY <1>1, <1>2, <1>3 DEF Workers, QuietUnderLease

LEMMA ApplyQuiets ==
    ASSUME TypeOK, Workers, QuietUnderLease,
           NEW result \in {"active", "clear"}, NEW kept,
           NEW workers \in [Worker -> WorkerState], Apply(result, kept, workers),
           shutdown' = shutdown,
           \A w \in Worker :
              /\ workers[w] # "gone" => worker[w] # "gone"
              /\ shutdown = "draining" /\ runner[w[1]] = "up" =>
                    workers[w] \in {"gone", "idle", "waiting"}
              /\ workers[w] \in {"permitted", "job"} =>
                    worker[w] \in {"permitted", "job"} \/ result = "clear"
    PROVE  Workers' /\ QuietUnderLease'
<1>1. CASE result = leaseActive
  <2>1. worker' = workers /\ runner' = runner /\ leaseActive' = leaseActive /\ grace' = grace
    BY <1>1 DEF Apply, quiesceVars
  <2> QED BY <1>1, <2>1 DEF Workers, QuietUnderLease
<1>2. CASE result # leaseActive /\ result = "active"
  <2>1. worker' = workers /\ runner' = runner /\ grace' = TRUE
    BY <1>2 DEF Apply
  <2> QED BY <2>1 DEF Workers, QuietUnderLease
<1>3. CASE result # leaseActive /\ result = "clear"
  <2>1. worker' = Dismissed(workers) /\ runner' = Drained
    BY <1>3 DEF Apply
  <2> QED BY <2>1, DrainQuiets
<1> QED BY <1>1, <1>2, <1>3

(* Only a clear answer permits.                                            *)
LEMMA ToldIs ==
    ASSUME TypeOK, NEW result
    PROVE  /\ Told(result) \in [Worker -> WorkerState]
           /\ \A w \in Worker :
                 /\ worker[w] # "asking" => Told(result)[w] = worker[w]
                 /\ worker[w] = "asking" =>
                       Told(result)[w] = IF result = "clear" THEN "permitted" ELSE "waiting"
BY ToldType DEF Told

LEMMA WorkersStep ==
    ASSUME TypeOK, Workers, QuietUnderLease, Unknown, Next
    PROVE  Workers' /\ QuietUnderLease'
<1> DEFINE Goal == Workers' /\ QuietUnderLease'
<1> USE DEF Workers, QuietUnderLease
<1>0. /\ \A w \in Worker : w[1] \in Runner /\ w[2] \in 1..Concurrency
      /\ runner \in [Runner -> {"none", "starting", "up", "stopping"}]
      /\ worker \in [Worker -> WorkerState]
  BY DEF Worker, TypeOK, WorkerState
<1> USE <1>0
<1>1. ASSUME UNCHANGED <<leaseActive, grace, runner, worker, shutdown>> PROVE Goal
  BY <1>1
<1>2. ASSUME Poll \/ LeaseTurns \/ CacheExpires \/ \E c \in resumes : Resume(c) PROVE Goal
  BY <1>1, <1>2 DEF Poll, LeaseTurns, CacheExpires, Resume, quiesceVars, runnerVars, stopVars
<1>3. ASSUME Boot PROVE Goal
  <2>1. \A w \in Worker : worker'[w] = "gone"
    BY <1>3 DEF Boot, Unknown
  <2> QED BY <2>1
<1>4. ASSUME ReadAnswers PROVE Goal
  <2>1. /\ Apply(IF lease THEN "active" ELSE "clear", resumes \ Rereading,
                 Told(IF lease THEN "active" ELSE "clear"))
        /\ shutdown' = shutdown
    BY <1>4 DEF ReadAnswers, stopVars
  <2> QED BY <2>1, ToldIs, ApplyQuiets
<1>5. ASSUME ReadFails PROVE Goal
  <2>1. Apply("active", resumes \ Rereading, Told("active")) /\ shutdown' = shutdown
    BY <1>5 DEF ReadFails, stopVars
  <2> QED BY <2>1, ToldIs, ApplyQuiets
<1>6. ASSUME NEW c \in Rereading, ReadResumes(c) PROVE Goal
  <2>1. /\ leaseActive = "clear" /\ leaseActive' = leaseActive
        /\ shutdown = "no" /\ shutdown' = shutdown /\ worker' = Told("clear")
    BY <1>6 DEF ReadResumes, CanResume, Stopped, quiesceVars, stopVars
  <2>2. \A r \in Runner : runner'[r] = runner[r] \/ runner[r] = "none"
    <3>1. CASE UNCHANGED <<runner, kind>>
      BY <3>1
    <3>2. CASE StartRunner(c.gen, c.step = "read")
      BY <3>2, StartEffect
    <3> QED BY <1>6, <3>1, <3>2 DEF ReadResumes
  <2> QED BY <2>1, <2>2, ToldIs
<1>7. ASSUME NEW r \in Runner, RunnerStops(r) PROVE Goal
  <2>1. /\ \A w \in Worker : w[1] = r => worker[w] = "gone"
        /\ runner' = [runner EXCEPT ![r] = "none"]
        /\ UNCHANGED <<leaseActive, grace, worker, shutdown>>
    BY <1>7 DEF RunnerStops, quiesceVars, Worker
  <2> QED BY <2>1
<1>8. ASSUME NEW r \in Runner, RunnerUp(r), leaseActive' = leaseActive PROVE Goal
  <2>1. /\ runner[r] = "starting"
        /\ runner' = [runner EXCEPT ![r] = "up"]
        /\ UNCHANGED <<grace, shutdown>>
        /\ \A w \in Worker : worker'[w] = IF w[1] = r /\ w[2] <= Size(kind[r]) THEN "idle" ELSE worker[w]
    BY <1>8 DEF RunnerUp, quiesceVars, stopVars
  <2>2. \A w \in Worker : w[1] = r => worker'[w] \in {"gone", "idle"}
    BY <2>1
  <2> QED BY <1>8, <2>1, <2>2
<1>9. ASSUME NEW r \in Runner, StartedFirst(r) \/ StartedResume(r) PROVE Goal
  BY <1>8, <1>9 DEF StartedFirst, StartedResume, RunnerUp, quiesceVars
<1>10. ASSUME NEW r \in Runner, StartFails(r) \/ RunnerDies(r) PROVE Goal
  BY <1>10 DEF StartFails, RunnerDies, quiesceVars, runnerVars
<1>11. ASSUME NEW w \in Worker, Ask(w) PROVE Goal
  <2>1. shutdown' = shutdown /\ worker[w] = "idle"
    BY <1>11 DEF Ask, stopVars
  <2>2. CASE Stopped \/ reading \/ cached = "none"
    <3>1. /\ worker' = [worker EXCEPT ![w] = IF Stopped THEN "waiting" ELSE "asking"]
          /\ UNCHANGED <<leaseActive, grace, runner>>
      BY <1>11, <2>2 DEF Ask, quiesceVars
    <3> QED BY <2>1, <3>1 DEF Stopped
  <2>3. CASE ~(Stopped \/ reading \/ cached = "none")
    <3> DEFINE workers == [worker EXCEPT ![w] =
                              IF cached = "clear" THEN "permitted" ELSE "waiting"]
    <3>1. Apply(cached, resumes, workers) /\ cached \in {"active", "clear"} /\ shutdown = "no"
      BY <1>11, <2>3 DEF Ask, Stopped, TypeOK
    <3>2. /\ workers \in [Worker -> WorkerState]
          /\ \A x \in Worker :
                /\ workers[x] # "gone" => worker[x] # "gone"
                /\ workers[x] \in {"permitted", "job"} =>
                      worker[x] \in {"permitted", "job"} \/ cached = "clear"
      BY <2>1 DEF WorkerState
    <3> HIDE DEF workers
    <3> QED BY <2>1, <3>1, <3>2, ApplyQuiets
  <2> QED BY <2>2, <2>3
<1>12. ASSUME NEW w \in Worker, GetJob(w) PROVE Goal
  <2>1. /\ worker[w] = "permitted" /\ UNCHANGED <<leaseActive, grace, runner, shutdown>>
        /\ \E next \in {"job", Rest(w)} : worker' = [worker EXCEPT ![w] = next]
    BY <1>12 DEF GetJob, quiesceVars, stopVars
  <2> QED BY <2>1 DEF Rest
<1>13. ASSUME NEW w \in Worker, EndJob(w) PROVE Goal
  <2>1. /\ worker[w] = "job" /\ UNCHANGED <<leaseActive, grace, runner, shutdown>>
        /\ worker' = [worker EXCEPT ![w] = Rest(w)]
    BY <1>13 DEF EndJob, quiesceVars, stopVars
  <2> QED BY <2>1 DEF Rest
<1>14. ASSUME GraceEnds, shutdown # "done" PROVE Goal
  <2>1. UNCHANGED <<leaseActive, shutdown>>
    BY <1>14 DEF GraceEnds, stopVars
  <2>2. CASE Stopped
    <3>1. shutdown = "draining" /\ UNCHANGED <<runner, worker>>
      BY <1>14, <2>2 DEF GraceEnds, Stopped, TypeOK
    <3> QED BY <2>1, <3>1
  <2>3. CASE ~Stopped
    BY <1>14, <2>3, DrainQuiets DEF GraceEnds
  <2> QED BY <2>2, <2>3
<1>15. ASSUME Stop PROVE Goal
  BY <1>15, DrainQuiets DEF Stop
<1>16. ASSUME Exit PROVE Goal
  BY <1>16 DEF Exit, quiesceVars, runnerVars
<1> QED
  BY <1>2, <1>3, <1>4, <1>5, <1>6, <1>7, <1>9, <1>10, <1>11, <1>12, <1>13, <1>14, <1>15, <1>16
     DEF Next, Reads, Runs, Works

LEMMA ApplyEffect ==
    ASSUME TypeOK, NEW result \in {"active", "clear"}, NEW kept, NEW workers,
           Apply(result, kept, workers)
    PROVE  \/ /\ UNCHANGED <<leaseActive, generation, runner, kind, overtaken>>
              /\ resumes' = kept
           \/ /\ leaseActive' = result /\ generation' = generation + 1
              /\ UNCHANGED <<runner, kind, overtaken>>
              /\ resumes' = kept
           \/ /\ leaseActive' = result /\ generation' = generation + 1
              /\ runner' = Drained /\ kind' = kind
              /\ overtaken' = overtaken \union Of("starting")
              /\ resumes' = kept \union
                   {[gen |-> generation + 1, step |-> "drain", awaits |-> Registered]}
BY DEF Apply, quiesceVars

LEMMA UnknownStep ==
    ASSUME TypeOK, Workers, Unknown, Next
    PROVE  Unknown'
<1> USE DEF Unknown
<1>1. CASE leaseActive' # "unknown"
  BY <1>1
<1>2. ASSUME leaseActive = "unknown" PROVE Unknown'
  <2>1. /\ resumes = {} /\ \A r \in Runner : runner[r] = "none"
        /\ \A w \in Worker : worker[w] = "gone"
    BY <1>2 DEF Workers, Worker
  <2>2. ASSUME Boot PROVE leaseActive' # "unknown"
    BY <2>2 DEF Boot
  <2>3. ~ReadAnswers /\ ~ReadFails /\ ~Poll
    BY <1>2 DEF ReadAnswers, ReadFails, Poll
  <2>4. \A r \in Runner : ~Runs(r) /\ ~StartFails(r) /\ ~RunnerDies(r)
    BY <2>1 DEF Runs, RunnerStops, StartedFirst, StartedResume, RunnerUp, StartFails, RunnerDies
  <2>5. \A w \in Worker : ~Works(w)
    BY <2>1 DEF Works, Ask, GetJob, EndJob
  <2>6. Rereading = {}
    BY <2>1 DEF Rereading
  <2>7. CASE LeaseTurns \/ CacheExpires \/ Exit
    BY <2>1, <2>7 DEF LeaseTurns, CacheExpires, Exit, runnerVars
  <2>8. CASE GraceEnds \/ Stop
    <3>1. resumes' = resumes /\ (runner' = runner \/ runner' = Drained)
      BY <2>8 DEF GraceEnds, Stop
    <3> QED BY <2>1, <3>1, DrainedType
  <2> QED BY <1>1, <2>1, <2>2, <2>3, <2>4, <2>5, <2>6, <2>7, <2>8 DEF Next, Reads
<1>3. ASSUME leaseActive # "unknown" PROVE leaseActive' # "unknown"
  <2>1. \A result \in {"active", "clear"} : \A kept, workers :
          Apply(result, kept, workers) => leaseActive' # "unknown"
    BY <1>3, ApplyEffect
  <2>2. CASE Boot
    BY <2>2 DEF Boot
  <2>3. CASE ReadAnswers \/ ReadFails
    BY <2>1, <2>3 DEF ReadAnswers, ReadFails
  <2>4. CASE Poll \/ LeaseTurns \/ CacheExpires \/ GraceEnds \/ Stop \/ Exit
    BY <1>3, <2>4 DEF Poll, LeaseTurns, CacheExpires, GraceEnds, Stop, Exit, quiesceVars
  <2>5. ASSUME NEW c \in resumes, Resume(c) \/ ReadResumes(c) PROVE leaseActive' # "unknown"
    BY <1>3, <2>5 DEF Resume, ReadResumes, quiesceVars
  <2>6. ASSUME NEW r \in Runner, Runs(r) \/ StartFails(r) \/ RunnerDies(r)
        PROVE leaseActive' # "unknown"
    BY <1>3, <2>6 DEF Runs, RunnerStops, StartedFirst, StartedResume, RunnerUp, StartFails,
                      RunnerDies, quiesceVars
  <2>7. ASSUME NEW w \in Worker, Ask(w) PROVE leaseActive' # "unknown"
    <3>1. CASE leaseActive' = leaseActive
      BY <1>3, <3>1
    <3>2. CASE leaseActive' # leaseActive
      <4>1. cached \in {"active", "clear"} /\ \E kept, workers : Apply(cached, kept, workers)
        BY <2>7, <3>2 DEF Ask, TypeOK, quiesceVars
      <4> QED BY <2>1, <4>1
    <3> QED BY <3>1, <3>2
  <2>8. ASSUME NEW w \in Worker, GetJob(w) \/ EndJob(w) PROVE leaseActive' # "unknown"
    BY <1>3, <2>8 DEF GetJob, EndJob, quiesceVars
  <2> QED BY <2>2, <2>3, <2>4, <2>5, <2>6, <2>7, <2>8 DEF Next, Reads, Works, Rereading
<1> QED BY <1>1, <1>2, <1>3

-----------------------------------------------------------------------------
(* Resumes and what they know, by the kinds of steps there are.            *)

Resuming == Turns /\ Starts /\ Alone

SameRunners ==
    /\ runner' \in [Runner -> {"none", "starting", "up", "stopping"}]
    /\ \A r \in Runner :
          /\ runner'[r] = "none" <=> runner[r] = "none"
          /\ runner'[r] = "starting" <=> runner[r] = "starting"
    /\ kind' = kind

(* Resumes may end, and the turn may pass, unless one waits for its runner.*)
LEMMA ResumesEnd ==
    ASSUME TypeOK, Resuming, SameRunners, overtaken' = overtaken,
           generation' \in {generation, generation + 1},
           resumes' \subseteq resumes,
           \A c \in resumes : c.step = "start" => c \in resumes'
    PROVE  Resuming'
<1> USE DEF Resuming, SameRunners
<1>1. Managed' = Managed /\ Of("starting")' = Of("starting")
  BY DEF Managed, Of
<1>2. generation \in Nat /\ \A c \in resumes : c.gen \in Nat
  BY DEF TypeOK
<1>3. Turns'
  BY <1>2 DEF Turns
<1>4. Starts'
  <2>1. \A r \in Runner : kind[r].by \in Nat
    BY DEF TypeOK
  <2> QED BY <1>1, <1>2, <2>1 DEF Starts
<1>5. Alone'
  <2>1. CASE generation' = generation
    BY <1>1, <2>1 DEF Alone, ResumesAlone, Managed
  <2>2. CASE generation' = generation + 1
    <3>1. \A c \in resumes' : c.gen # generation'
      BY <1>2, <2>2 DEF Turns
    <3>2. \A r \in Runner : kind[r].by # generation'
      BY <1>2, <2>2 DEF Starts, TypeOK
    <3>3. ResumesAlone'
      BY <1>1 DEF Alone, ResumesAlone, Managed
    <3> QED BY <1>1, <3>1, <3>2, <3>3 DEF Alone, Of
  <2> QED BY <2>1, <2>2
<1> QED BY <1>3, <1>4, <1>5

(* A resume goes on to a step at which it knows no more and no less.       *)
LEMMA ResumeMoves ==
    ASSUME TypeOK, Resuming, SameRunners, overtaken' = overtaken, generation' = generation,
           NEW c \in resumes, c.step # "start", c.step = "drain" => c.awaits = {},
           NEW next \in {"jitter", "read", "reread"},
           c.step \in {"drain", "jitter"} <=> next \in {"jitter", "read"},
           c.step \in {"ramp", "reread"} <=> next = "reread",
           resumes' = (resumes \ {c}) \union {[c EXCEPT !.step = next]}
    PROVE  Resuming'
<1> DEFINE d == [c EXCEPT !.step = next]
<1> USE DEF Resuming, SameRunners
<1>1. Managed' = Managed /\ Of("starting")' = Of("starting")
  BY DEF Managed, Of
<1>2. d.gen = c.gen /\ d.awaits = c.awaits /\ d.step = next /\ c.awaits = {}
  BY DEF TypeOK, Turns
<1>3. \A x \in resumes' : x = d \/ (x \in resumes /\ x # c)
  OBVIOUS
<1> HIDE DEF d
<1>4. Turns'
  BY <1>2, <1>3 DEF Turns
<1>5. Starts'
  <2>1. \A x \in resumes : x.step = "start" => x \in resumes'
    OBVIOUS
  <2> QED BY <1>1, <2>1 DEF Starts
<1>6. Alone'
  <2>1. ResumesAlone'
    BY <1>1 DEF Alone, ResumesAlone, Managed
  <2> QED BY <1>1, <1>2, <1>3, <2>1 DEF Alone
<1> QED BY <1>4, <1>5, <1>6

(* A new turn begins: its resume drains every runner it knows, and those   *)
(* it does not know are overtaken.                                         *)
LEMMA TurnBegins ==
    ASSUME TypeOK, Resuming,
           generation' = generation + 1, runner' = Drained, kind' = kind,
           overtaken' = overtaken \union Of("starting"),
           NEW kept \in SUBSET resumes,
           \A c \in resumes : c.step = "start" => c \in kept,
           resumes' = kept \union
              {[gen |-> generation + 1, step |-> "drain", awaits |-> Registered]}
    PROVE  Resuming'
<1> DEFINE d == [gen |-> generation + 1, step |-> "drain", awaits |-> Registered]
<1> USE DEF Resuming
<1>1. d.gen = generation + 1 /\ d.awaits = Registered /\ d.step = "drain"
  OBVIOUS
<1>2. \A x \in resumes' : x = d \/ x \in kept
  OBVIOUS
<1>3. generation \in Nat /\ \A c \in resumes : c.gen \in Nat /\ c.gen # generation + 1
  BY DEF TypeOK, Turns
<1>4. SameRunners
  BY DrainedType DEF SameRunners, TypeOK
<1>5. \A r \in Runner : kind[r].by \in Nat /\ kind[r].by # generation'
  BY <1>3 DEF Starts, TypeOK
<1> HIDE DEF d
<1>6. Turns'
  BY <1>1, <1>2, <1>3 DEF Turns
<1>7. Starts'
  <2>1. \A x \in resumes : x.step = "start" => x \in resumes'
    OBVIOUS
  <2> QED BY <1>3, <1>4, <1>5, <2>1 DEF Starts, SameRunners, Of
<1>8. Alone'
  <2>1. Managed' \subseteq Managed /\ Managed' \subseteq Registered
    BY <1>4 DEF SameRunners, Managed, Registered, Of, TypeOK
  <2>2. ResumesAlone'
    BY <1>4, <2>1 DEF Alone, ResumesAlone, Managed, SameRunners
  <2>3. \A x \in resumes' : x.gen = generation' => x = d
    BY <1>2, <1>3
  <2>4. \A r \in Managed' : r \in Runner
    BY DEF Managed
  <2>5. \A r \in Of("starting")' : r \in Runner
    BY DEF Of
  <2> QED BY <1>1, <1>4, <1>5, <2>1, <2>2, <2>3, <2>4, <2>5 DEF Alone, SameRunners
<1> QED BY <1>6, <1>7, <1>8

(* A resume starts its first runner, with the cron items, when nobody is   *)
(* left, and its second next to the first.                                 *)
LEMMA ResumeStarts ==
    ASSUME TypeOK, Resuming, overtaken' = overtaken, generation' = generation,
           NEW c \in resumes, c.gen = generation, c.step \in {"read", "reread"},
           NEW r \in Runner, runner[r] = "none",
           runner' = [runner EXCEPT ![r] = "starting"],
           kind' = [kind EXCEPT ![r] = [by |-> c.gen, cron |-> c.step = "read"]],
           resumes' = (resumes \ Rereading) \union {[c EXCEPT !.step = "start"]}
    PROVE  Resuming'
<1> DEFINE d == [c EXCEPT !.step = "start"]
<1> USE DEF Resuming
<1>1. d.gen = generation /\ d.awaits = {} /\ d.step = "start" /\ c.awaits = {}
  BY DEF TypeOK, Turns
<1>2. \A x \in resumes' : x = d \/ (x \in resumes /\ x # c /\ x.step \notin {"read", "reread"})
  BY DEF Rereading
<1>3. \A x \in resumes : x.step = "start" => x \in resumes'
  BY DEF Rereading
<1>4. d \in resumes'
  OBVIOUS
<1> HIDE DEF d
<1>5. /\ kind'[r].by = generation /\ (kind'[r].cron <=> c.step = "read")
      /\ \A x \in Runner : x # r => kind'[x] = kind[x] /\ runner'[x] = runner[x]
      /\ runner'[r] = "starting"
  BY DEF TypeOK
<1>6. Managed' = Managed \union {r} /\ Of("starting")' = Of("starting") \union {r} /\ r \notin Managed
  BY <1>5 DEF Managed, Of, TypeOK
<1>7. Turns'
  BY <1>1, <1>2 DEF Turns
<1>8. \A x \in Of("starting") : kind[x].by # generation
  <2>1. SUFFICES ASSUME NEW x \in Of("starting"), kind[x].by = generation PROVE FALSE
    OBVIOUS
  <2>2. generation # 0
    BY DEF Turns
  <2>3. PICK e \in resumes : e.gen = generation /\ e.step = "start"
    BY <2>1, <2>2 DEF Starts
  <2> QED BY <2>3 DEF Turns
<1>9. Starts'
  <2>1. generation \in Nat
    BY DEF TypeOK
  <2>2. \A x \in Runner : kind'[x].by <= generation'
    BY <1>5, <2>1 DEF Starts
  <2>3. \A x \in Of("starting")' : kind'[x].by # 0 =>
          \E e \in resumes' : e.gen = kind'[x].by /\ e.step = "start"
    BY <1>1, <1>3, <1>4, <1>5, <1>6 DEF Starts, Of
  <2>4. \A a, b \in Of("starting")' : kind'[a].by = kind'[b].by => a = b
    BY <1>5, <1>6, <1>8 DEF Starts, Of
  <2> QED BY <2>2, <2>3, <2>4 DEF Starts
<1>10. Alone'
  <2>1. \A x \in Managed : kind[x].by = generation
    BY <1>1 DEF Alone
  <2>2. c.step = "read" => Managed = {}
    BY <2>1 DEF Alone
  <2>3. c.step = "reread" => \A x \in Managed : kind[x].cron
    BY <2>1 DEF Alone
  <2>4. \A x \in Managed : kind'[x] = kind[x]
    BY <1>5, <1>6 DEF Managed
  <2>5. \A x \in resumes' : x.gen = generation => x = d
    BY <1>2 DEF Turns
  <2>6. \A x \in Managed' : kind'[x].by = generation
    BY <1>5, <1>6, <2>1, <2>4
  <2>7. \A x \in Of("starting")' : kind'[x].by = generation /\ kind'[x].cron => Managed' \subseteq {x}
    BY <1>5, <1>6, <1>8, <2>2 DEF Of
  <2>8. \A a, b \in Managed' : a # b => kind'[a].by = kind'[b].by /\ kind'[a].cron # kind'[b].cron
    <3>1. \A a, b \in Managed : a # b => kind[a].cron # kind[b].cron
      BY DEF Alone, ResumesAlone, Managed
    <3>2. \A a \in Managed : kind'[a].cron # kind'[r].cron
      BY <1>5, <2>2, <2>3, <2>4
    <3> QED BY <1>6, <2>4, <2>6, <3>1, <3>2
  <2>9. ResumesAlone'
    BY <2>8 DEF ResumesAlone, Managed
  <2> QED BY <1>1, <2>5, <2>6, <2>7, <2>9 DEF Alone
<1> QED BY <1>7, <1>9, <1>10

(* The runner is up, and its resume ends or ramps.                         *)
LEMMA ResumeStarted ==
    ASSUME TypeOK, Resuming, NEW r \in Runner, StartedResume(r)
    PROVE  Resuming'
<1> USE DEF Resuming
<1>1. /\ runner[r] = "starting" /\ kind[r].by # 0
      /\ runner' = [runner EXCEPT ![r] = "up"]
      /\ UNCHANGED <<kind, generation, overtaken>>
  BY DEF StartedResume, RunnerUp, quiesceVars
<1>2. PICK c \in resumes :
        /\ c.gen = kind[r].by
        /\ \/ /\ kind[r].cron /\ CanResume(c.gen)
              /\ resumes' = (resumes \ {c}) \union {[c EXCEPT !.step = "ramp"]}
           \/ resumes' = resumes \ {c}
  BY StartedEffect
<1> DEFINE d == [c EXCEPT !.step = "ramp"]
<1>3. c.step = "start" /\ c.awaits = {}
  BY <1>1, <1>2 DEF Starts, Turns, Of
<1>4. d.gen = c.gen /\ d.awaits = {} /\ d.step = "ramp"
  BY <1>3 DEF TypeOK
<1>5. \A x \in resumes' : (x \in resumes /\ x # c)
                          \/ (x = d /\ kind[r].cron /\ c.gen = generation)
  BY <1>2 DEF CanResume
<1>6. resumes \ {c} \subseteq resumes'
  BY <1>2
<1> HIDE DEF d
<1>7. Managed' = Managed /\ Of("starting")' = Of("starting") \ {r}
  BY <1>1 DEF Managed, Of, TypeOK
<1>8. Turns'
  BY <1>1, <1>2, <1>4, <1>5 DEF Turns
<1>9. Starts'
  <2>1. \A x \in Of("starting") \ {r} : kind[x].by # c.gen
    BY <1>1, <1>2 DEF Starts, Of
  <2> QED BY <1>1, <1>6, <1>7, <2>1 DEF Starts
<1>10. Alone'
  <2>1. ResumesAlone'
    BY <1>1, <1>7 DEF Alone, ResumesAlone, Managed
  <2>2. kind[r].cron /\ c.gen = generation => Managed \subseteq {r}
    BY <1>1, <1>2 DEF Alone, Of
  <2>3. ASSUME NEW x \in resumes', x.gen = generation
        PROVE  /\ \A m \in Managed : m \in x.awaits \/ kind[m].by = x.gen
               /\ x.step \in {"drain", "jitter", "read"} => \A m \in Managed : kind[m].by # x.gen
               /\ x.step \in {"ramp", "reread"} =>
                     \A m \in Managed : kind[m].by = x.gen => kind[m].cron
    <3>1. CASE x \in resumes
      BY <2>3, <3>1 DEF Alone
    <3>2. CASE x = d /\ kind[r].cron /\ c.gen = generation
      BY <1>2, <1>4, <2>2, <3>2
    <3> QED BY <1>5, <3>1, <3>2
  <2> QED BY <1>1, <1>7, <2>1, <2>3 DEF Alone
<1> QED BY <1>8, <1>9, <1>10

(* A runner that has stopped is nobody's any more.                         *)
LEMMA RunnerGone ==
    ASSUME TypeOK, Resuming, NEW r \in Runner, RunnerStops(r)
    PROVE  Resuming'
<1> USE DEF Resuming
<1>1. /\ runner[r] = "stopping" /\ runner' = [runner EXCEPT ![r] = "none"]
      /\ kind' = [kind EXCEPT ![r] = NoKind] /\ generation' = generation
      /\ overtaken' = overtaken \ {r}
      /\ resumes' = {[c EXCEPT !.awaits = @ \ {r}] : c \in resumes}
  BY DEF RunnerStops, quiesceVars
<1> DEFINE Without(c) == [c EXCEPT !.awaits = @ \ {r}]
<1>2. /\ \A x \in resumes' : \E c \in resumes :
            /\ x = Without(c)
            /\ x.gen = c.gen /\ x.step = c.step /\ x.awaits = c.awaits \ {r}
      /\ \A c \in resumes : \E x \in resumes' : x.gen = c.gen /\ x.step = c.step
  <2>1. \A c \in resumes : /\ Without(c).gen = c.gen /\ Without(c).step = c.step
                           /\ Without(c).awaits = c.awaits \ {r}
    BY DEF TypeOK
  <2>2. resumes' = {Without(c) : c \in resumes}
    BY <1>1
  <2> HIDE DEF Without
  <2> QED BY <2>1, <2>2
<1> HIDE DEF Without
<1>3. /\ \A x \in Runner : x # r => kind'[x] = kind[x] /\ runner'[x] = runner[x]
      /\ runner'[r] = "none" /\ kind'[r].by = 0
  BY <1>1 DEF TypeOK, NoKind
<1>4. /\ Managed' = Managed \ {r} /\ Of("starting")' = Of("starting")
      /\ \A x \in Managed' \union Of("starting") : x \in Runner /\ kind'[x] = kind[x]
  BY <1>1, <1>3 DEF Managed, Of
<1>5. Turns'
  <2>1. \A x \in resumes' : x.gen # 0 /\ x.gen <= generation'
    <3>1. SUFFICES ASSUME NEW x \in resumes' PROVE x.gen # 0 /\ x.gen <= generation'
      OBVIOUS
    <3>2. PICK c \in resumes : x.gen = c.gen
      BY <1>2
    <3>3. c.gen # 0 /\ c.gen <= generation
      BY DEF Turns
    <3> QED BY <1>1, <3>2, <3>3
  <2>2. \A x, y \in resumes' : x.gen = y.gen => x = y
    BY <1>2 DEF Turns
  <2>3. \A x \in resumes' : x.step # "drain" => x.awaits = {}
    BY <1>2 DEF Turns
  <2> QED BY <2>1, <2>2, <2>3 DEF Turns
<1>6. Starts'
  <2>1. \A x \in Runner : kind'[x].by <= generation'
    BY <1>1, <1>3 DEF Starts, TypeOK
  <2>2. \A x \in Of("starting")' : kind'[x].by # 0 =>
          \E e \in resumes' : e.gen = kind'[x].by /\ e.step = "start"
    BY <1>2, <1>4 DEF Starts
  <2>3. \A a, b \in Of("starting")' : kind'[a].by = kind'[b].by => a = b
    BY <1>4 DEF Starts
  <2> QED BY <2>1, <2>2, <2>3 DEF Starts
<1>7. Alone'
  <2>1. \A a, b \in Managed' : a # b => kind'[a].by = kind'[b].by /\ kind'[a].cron # kind'[b].cron
    BY <1>4 DEF Alone, ResumesAlone, Managed
  <2>2. ResumesAlone'
    BY <2>1 DEF ResumesAlone, Managed
  <2>3. ASSUME NEW x \in resumes', x.gen = generation
        PROVE  /\ \A m \in Managed' : m \in x.awaits \/ kind'[m].by = x.gen
               /\ x.step \in {"drain", "jitter", "read"} => \A m \in Managed' : kind'[m].by # x.gen
               /\ x.step \in {"ramp", "reread"} =>
                     \A m \in Managed' : kind'[m].by = x.gen => kind'[m].cron
    <3>1. PICK c \in resumes : x.gen = c.gen /\ x.step = c.step /\ x.awaits = c.awaits \ {r}
      BY <1>2
    <3> QED BY <1>4, <2>3, <3>1 DEF Alone
  <2>4. \A x \in Of("starting")' :
          kind'[x].by = generation' /\ kind'[x].cron => Managed' \subseteq {x}
    BY <1>1, <1>4 DEF Alone
  <2> QED BY <1>1, <2>2, <2>3, <2>4 DEF Alone
<1> QED BY <1>5, <1>6, <1>7

(* run() starts the first runner of all, or none.                          *)
LEMMA FirstRunner ==
    ASSUME TypeOK, Resuming, Unknown, Boot
    PROVE  Resuming'
<1> USE DEF Resuming
<1>1. /\ resumes = {} /\ resumes' = {} /\ \A r \in Runner : runner[r] = "none"
      /\ generation' = generation + 1 /\ overtaken' = overtaken
  BY DEF Boot, Unknown
<1>2. generation \in Nat /\ \A r \in Runner : kind[r].by \in Nat /\ kind[r].by <= generation
  BY DEF TypeOK, Starts
<1>3. CASE UNCHANGED <<runner, kind>>
  BY <1>1, <1>2, <1>3 DEF Turns, Starts, Alone, ResumesAlone, Managed, Of
<1>4. CASE StartRunner(0, TRUE)
  <2>1. PICK r \in Runner :
          /\ runner' = [runner EXCEPT ![r] = "starting"]
          /\ kind' = [kind EXCEPT ![r] = [by |-> 0, cron |-> TRUE]]
    BY <1>4, StartEffect
  <2>2. /\ \A x \in Runner : x # r => runner'[x] = "none" /\ kind'[x] = kind[x]
        /\ kind'[r].by = 0
    BY <1>1, <2>1 DEF TypeOK
  <2>3. Of("starting")' \subseteq {r} /\ Managed' \subseteq {r}
    BY <2>2 DEF Of, Managed
  <2>4. Turns' /\ Starts'
    BY <1>1, <1>2, <2>2, <2>3 DEF Turns, Starts
  <2>5. Alone'
    BY <1>1, <2>3 DEF Alone, ResumesAlone, Managed
  <2> QED BY <2>4, <2>5
<1> QED BY <1>3, <1>4 DEF Boot

LEMMA ApplyResuming ==
    ASSUME TypeOK, Resuming, NEW result \in {"active", "clear"},
           NEW kept \in SUBSET resumes, NEW workers, Apply(result, kept, workers),
           \A c \in resumes : c.step = "start" => c \in kept
    PROVE  Resuming'
<1>1. CASE UNCHANGED <<generation, runner, kind, overtaken>> /\ resumes' = kept
  BY <1>1, ResumesEnd DEF SameRunners, TypeOK
<1>2. CASE generation' = generation + 1 /\ UNCHANGED <<runner, kind, overtaken>> /\ resumes' = kept
  BY <1>2, ResumesEnd DEF SameRunners, TypeOK
<1>3. CASE /\ generation' = generation + 1 /\ runner' = Drained /\ kind' = kind
           /\ overtaken' = overtaken \union Of("starting")
           /\ resumes' = kept \union
                {[gen |-> generation + 1, step |-> "drain", awaits |-> Registered]}
  BY <1>3, TurnBegins
<1> QED BY <1>1, <1>2, <1>3, ApplyEffect

LEMMA ResumingStep ==
    ASSUME TypeOK, Resuming, Unknown, Next
    PROVE  Resuming'
<1>1. ASSUME UNCHANGED <<resumes, generation, runner, kind, overtaken>> PROVE Resuming'
  BY <1>1, ResumesEnd DEF SameRunners, TypeOK
<1>2. ASSUME Poll \/ LeaseTurns \/ CacheExpires \/ Exit PROVE Resuming'
  BY <1>1, <1>2 DEF Poll, LeaseTurns, CacheExpires, Exit, quiesceVars, runnerVars
<1>3. ASSUME Boot PROVE Resuming'
  BY <1>3, FirstRunner
<1>4. \A c \in resumes : c.step = "start" => c \in resumes \ Rereading
  BY DEF Rereading
<1>5. ASSUME ReadAnswers PROVE Resuming'
  <2>1. Apply(IF lease THEN "active" ELSE "clear", resumes \ Rereading,
              Told(IF lease THEN "active" ELSE "clear"))
    BY <1>5 DEF ReadAnswers
  <2> QED BY <1>4, <2>1, ApplyResuming
<1>6. ASSUME ReadFails PROVE Resuming'
  <2>1. Apply("active", resumes \ Rereading, Told("active"))
    BY <1>6 DEF ReadFails
  <2> QED BY <1>4, <2>1, ApplyResuming
<1>7. ASSUME NEW c \in Rereading, ReadResumes(c) PROVE Resuming'
  <2>1. /\ c \in resumes /\ c.step \in {"read", "reread"} /\ c.gen = generation
        /\ UNCHANGED <<generation, overtaken>>
    BY <1>7 DEF ReadResumes, CanResume, Rereading, quiesceVars
  <2>2. CASE UNCHANGED <<runner, kind>> /\ resumes' = resumes \ Rereading
    BY <1>4, <2>1, <2>2, ResumesEnd DEF SameRunners, TypeOK
  <2>3. CASE /\ StartRunner(c.gen, c.step = "read")
             /\ resumes' = (resumes \ Rereading) \union {[c EXCEPT !.step = "start"]}
    <3>1. PICK r \in Runner :
            /\ runner[r] = "none"
            /\ runner' = [runner EXCEPT ![r] = "starting"]
            /\ kind' = [kind EXCEPT ![r] = [by |-> c.gen, cron |-> c.step = "read"]]
      BY <2>3, StartEffect
    <3> QED BY <2>1, <2>3, <3>1, ResumeStarts
  <2> QED BY <1>7, <2>2, <2>3 DEF ReadResumes
<1>8. ASSUME NEW r \in Runner, RunnerStops(r) PROVE Resuming'
  BY <1>8, RunnerGone
<1>9. ASSUME NEW r \in Runner, StartedResume(r) PROVE Resuming'
  BY <1>9, ResumeStarted
<1>10. ASSUME NEW r \in Runner, StartedFirst(r) PROVE Resuming'
  <2>1. /\ runner[r] = "starting" /\ kind[r].by = 0
        /\ runner' = [runner EXCEPT ![r] = "up"]
        /\ UNCHANGED <<kind, generation, overtaken, resumes>>
    BY <1>10 DEF StartedFirst, RunnerUp, quiesceVars
  <2>2. Managed' = Managed /\ Of("starting")' = Of("starting") \ {r}
    BY <2>1 DEF Managed, Of, TypeOK
  <2>3. Turns' /\ Starts'
    BY <2>1, <2>2 DEF Resuming, Turns, Starts
  <2>4. Alone'
    BY <2>1, <2>2 DEF Resuming, Alone, ResumesAlone, Managed
  <2> QED BY <2>3, <2>4 DEF Resuming
<1>11. ASSUME NEW r \in Runner, StartFails(r) \/ RunnerDies(r) PROVE Resuming'
  BY <1>1, <1>11 DEF StartFails, RunnerDies, quiesceVars, runnerVars
<1>12. ASSUME NEW w \in Worker, Ask(w) PROVE Resuming'
  <2>1. CASE UNCHANGED <<quiesceVars, resumes, runner, kind, overtaken>>
    BY <1>1, <2>1 DEF quiesceVars
  <2>2. CASE \E workers : Apply(cached, resumes, workers) /\ cached \in {"active", "clear"}
    BY <2>2, ApplyResuming
  <2> QED BY <1>12, <2>1, <2>2 DEF Ask, TypeOK
<1>13. ASSUME NEW w \in Worker, GetJob(w) \/ EndJob(w) PROVE Resuming'
  BY <1>1, <1>13 DEF GetJob, EndJob, quiesceVars
<1>14. ASSUME GraceEnds \/ Stop PROVE Resuming'
  <2>1. /\ UNCHANGED <<resumes, kind, overtaken>>
        /\ generation' \in {generation, generation + 1}
        /\ runner' = runner \/ runner' = Drained
    BY <1>14 DEF GraceEnds, Stop
  <2>2. SameRunners
    BY <2>1, DrainedType DEF SameRunners, TypeOK
  <2> QED BY <2>1, <2>2, ResumesEnd
<1>15. ASSUME NEW c \in resumes, Resume(c) PROVE Resuming'
  <2>1. SameRunners /\ UNCHANGED <<overtaken, generation>>
    BY <1>15 DEF Resume, SameRunners, TypeOK, runnerVars, quiesceVars
  <2>2. CASE CanResume(c.gen)
    <3> DEFINE next == CASE c.step = "drain" -> "jitter"
                         [] c.step = "jitter" -> "read"
                         [] c.step = "ramp" -> "reread"
    <3>1. /\ c.step \in {"drain", "jitter", "ramp"} /\ (c.step = "drain" => c.awaits = {})
          /\ resumes' = (resumes \ {c}) \union {[c EXCEPT !.step = next]}
      BY <1>15, <2>2 DEF Resume
    <3>2. /\ next \in {"jitter", "read", "reread"}
          /\ c.step \in {"drain", "jitter"} <=> next \in {"jitter", "read"}
          /\ c.step \in {"ramp", "reread"} <=> next = "reread"
      BY <3>1
    <3> HIDE DEF next
    <3> QED BY <2>1, <3>1, <3>2, ResumeMoves
  <2>3. CASE ~CanResume(c.gen)
    <3>1. resumes' = resumes \ {c} /\ c.step # "start"
      BY <1>15, <2>3 DEF Resume
    <3> QED BY <2>1, <3>1, ResumesEnd
  <2> QED BY <2>2, <2>3
<1> QED
  BY <1>2, <1>3, <1>5, <1>6, <1>7, <1>8, <1>9, <1>10, <1>11, <1>12, <1>13, <1>14, <1>15
     DEF Next, Reads, Runs, Works

-----------------------------------------------------------------------------
(* The parts together are inductive.                                       *)
THEOREM Invariance == Spec => []QuiesceInv
<1>1. ASSUME QuiesceInv, [Next]_vars PROVE QuiesceInv'
  <2>1. CASE Next
    BY <1>1, <2>1, TypeStep, WorkersStep, UnknownStep, ResumingStep DEF QuiesceInv, Resuming
  <2>2. CASE UNCHANGED vars
    <3> USE <1>1, <2>2 DEF QuiesceInv, vars, leaseVars, probeVars, quiesceVars, runnerVars, stopVars
    <3>1. TypeOK' /\ Workers' /\ QuietUnderLease' /\ Unknown'
      BY DEF TypeOK, Workers, QuietUnderLease, Unknown, Registered, Of
    <3>2. Turns' /\ Starts' /\ Alone'
      BY DEF Turns, Starts, Alone, ResumesAlone, Managed, Of
    <3> QED BY <3>1, <3>2
  <2> QED BY <1>1, <2>1, <2>2
<1> QED BY InitInv, <1>1, PTL DEF Spec

(* Every variable keeps its type: stop() and main only name runners that   *)
(* are registered.                                                         *)
THEOREM TypeCorrect == Spec => []TypeOK
<1>1. QuiesceInv => TypeOK
  BY DEF QuiesceInv
<1> QED BY <1>1, Invariance, PTL

(* After the grace period no job runs under a lease but on runners that    *)
(* are being drained, with any number of runners and workers.              *)
THEOREM QuietAfterGrace == Spec => []QuietUnderLease
<1>1. QuiesceInv => QuietUnderLease
  BY DEF QuiesceInv
<1> QED BY <1>1, Invariance, PTL

(* However often the lease comes and goes, the runners a drain knew of are *)
(* of one turn: at most one with the cron items and one with the others.   *)
THEOREM OneResumeStarts == Spec => []ResumesAlone
<1>1. QuiesceInv => ResumesAlone
  BY DEF QuiesceInv, Alone
<1> QED BY <1>1, Invariance, PTL

(* No resume starts a runner on a pod that stops.                          *)
THEOREM StoppedPodsStay == Spec => NoResumeAfterStop
<1> DEFINE Stays == \A r \in Runner :
        Stopped /\ runner[r] = "none" => runner'[r] = "none" \/ kind'[r].by = 0
<1>1. ASSUME QuiesceInv, [Next]_vars PROVE [Stays]_vars
  <2>1. SUFFICES ASSUME Next, NEW r \in Runner, Stopped, runner[r] = "none"
                 PROVE  runner'[r] = "none" \/ kind'[r].by = 0
    BY <1>1
  <2>2. TypeOK
    BY <1>1 DEF QuiesceInv
  <2>3. \A result \in {"active", "clear"} : \A kept, workers :
          Apply(result, kept, workers) => runner'[r] = "none"
    BY <2>1, <2>2, ApplyEffect, DrainedType
  <2>4. CASE Boot
    <3>1. CASE runner' = runner
      BY <2>1, <3>1
    <3>2. CASE StartRunner(0, TRUE)
      <4>1. PICK x \in Runner :
              /\ runner' = [runner EXCEPT ![x] = "starting"]
              /\ kind' = [kind EXCEPT ![x] = [by |-> 0, cron |-> TRUE]]
        BY <3>2, StartEffect
      <4> QED BY <2>1, <2>2, <4>1 DEF TypeOK
    <3> QED BY <2>4, <3>1, <3>2 DEF Boot
  <2>5. CASE ReadAnswers \/ ReadFails
    BY <2>3, <2>5 DEF ReadAnswers, ReadFails
  <2>6. \A c \in Rereading : ~ReadResumes(c)
    BY <2>1 DEF ReadResumes, CanResume
  <2>7. CASE Poll \/ LeaseTurns \/ CacheExpires \/ Exit \/ \E c \in resumes : Resume(c)
    BY <2>1, <2>7 DEF Poll, LeaseTurns, CacheExpires, Exit, Resume, runnerVars
  <2>8. CASE GraceEnds \/ Stop
    <3>1. runner' = runner \/ runner' = Drained
      BY <2>8 DEF GraceEnds, Stop
    <3> QED BY <2>1, <2>2, <3>1, DrainedType
  <2>9. ASSUME NEW x \in Runner, Runs(x) \/ StartFails(x) \/ RunnerDies(x)
        PROVE  runner'[r] = "none"
    BY <2>1, <2>2, <2>9 DEF Runs, RunnerStops, StartedFirst, StartedResume, RunnerUp, StartFails,
                            RunnerDies, runnerVars, TypeOK
  <2>10. ASSUME NEW w \in Worker, Works(w) PROVE runner'[r] = "none"
    <3>1. CASE runner' = runner
      BY <2>1, <3>1
    <3>2. CASE \E workers : Apply(cached, resumes, workers) /\ cached \in {"active", "clear"}
      BY <2>3, <3>2
    <3> QED BY <2>2, <2>10, <3>1, <3>2 DEF Works, Ask, GetJob, EndJob, TypeOK
  <2> QED BY <2>1, <2>4, <2>5, <2>6, <2>7, <2>8, <2>9, <2>10 DEF Next, Reads
<1>2. Spec => [][Stays]_vars
  BY <1>1, Invariance, PTL DEF Spec
<1> QED BY <1>2 DEF NoResumeAfterStop

-----------------------------------------------------------------------------
(* The health of the pod.                                                  *)

(* A runner with the cron items is up, or the first one is on its way.     *)
Serves == main \in Of("up") \/ \E r \in Of("starting") : kind[r].by = 0

(* The first runner has the cron items. A pod whose lease is active has    *)
(* been quiesced, which is why a drain never takes the last runner of a    *)
(* pod that says it works.                                                 *)
Healthy ==
    /\ \A r \in Of("starting") : kind[r].by = 0 => kind[r].cron
    /\ grace => leaseActive = "active"
    /\ ~Stopped =>
          /\ leaseActive = "unknown" => generation = 0
          /\ leaseActive = "active" => quiesced \/ overridden
          /\ leaseActive # "unknown" => quiesced \/ overridden \/ Serves

LEMMA ApplyHealthy ==
    ASSUME TypeOK, Healthy, NEW result \in {"active", "clear"}, NEW kept, NEW workers,
           Apply(result, kept, workers), leaseActive # "unknown", shutdown' = shutdown
    PROVE  Healthy'
<1> USE DEF Healthy, Serves, Stopped
<1>1. CASE result = leaseActive
  BY <1>1 DEF Apply, quiesceVars, Of
<1>2. CASE result # leaseActive /\ result = "active"
  BY <1>2 DEF Apply, Of
<1>3. CASE result # leaseActive /\ result = "clear"
  <2>1. leaseActive = "active"
    BY <1>3 DEF TypeOK
  <2>2. /\ leaseActive' = "clear" /\ grace' = FALSE /\ runner' = Drained
        /\ UNCHANGED <<quiesced, overridden, kind>>
    BY <1>3 DEF Apply
  <2>3. Of("starting")' = Of("starting")
    BY <2>2, DrainedType DEF Of
  <2> QED BY <2>1, <2>2, <2>3
<1> QED BY <1>1, <1>2, <1>3

LEMMA HealthyStep ==
    ASSUME TypeOK, Workers, Unknown, Turns, Healthy, Next
    PROVE  Healthy'
<1> USE DEF Healthy, Serves, Stopped
<1>0. /\ runner \in [Runner -> {"none", "starting", "up", "stopping"}]
      /\ kind \in [Runner -> [by : Nat, cron : BOOLEAN]]
      /\ main \in Registered \union {NoRunner} /\ NoRunner \notin Runner
  BY QuiesceAssumption DEF TypeOK
<1>1. ASSUME UNCHANGED <<leaseActive, generation, grace, quiesced, overridden, main, runner, kind,
                         shutdown>>
      PROVE  Healthy'
  BY <1>1 DEF Of
<1>2. CASE Poll \/ LeaseTurns \/ CacheExpires \/ \E c \in resumes : Resume(c)
  BY <1>1, <1>2 DEF Poll, LeaseTurns, CacheExpires, Resume, quiesceVars, runnerVars, stopVars
<1>3. ASSUME UNCHANGED <<kind, leaseActive>>, runner' = runner \/ runner' = Drained,
             grace' \in {grace, FALSE}, shutdown' # "no"
      PROVE  Healthy'
  <2>1. Of("starting")' = Of("starting")
    BY <1>3, DrainedType DEF Of
  <2>2. \A r \in Of("starting")' : kind'[r].by = 0 => kind'[r].cron
    BY <1>3, <2>1
  <2>3. grace' => leaseActive' = "active"
    <3>1. CASE grace' = grace
      BY <1>3, <3>1
    <3>2. CASE grace' = FALSE
      BY <3>2
    <3> QED BY <1>3, <3>1, <3>2
  <2> QED BY <1>3, <2>2, <2>3
<1>4. CASE Stop \/ Exit
  BY <1>3, <1>4 DEF Stop, Exit, quiesceVars, runnerVars
<1>5. ASSUME NEW r \in Runner, StartFails(r) \/ RunnerDies(r) PROVE Healthy'
  BY <1>3, <1>5 DEF StartFails, RunnerDies, quiesceVars, runnerVars
<1>6. CASE Boot
  <2>1. \A r \in Runner : runner[r] = "none"
    BY <1>6 DEF Boot, Unknown
  <2>2. CASE StartRunner(0, TRUE) /\ leaseActive' = "clear" /\ grace' = grace
    <3>1. PICK r \in Runner :
            /\ runner' = [runner EXCEPT ![r] = "starting"]
            /\ kind' = [kind EXCEPT ![r] = [by |-> 0, cron |-> TRUE]]
      BY <2>2, StartEffect
    <3>2. r \in Of("starting")' /\ kind'[r].by = 0 /\ Of("starting")' = {r} /\ kind'[r].cron
      BY <1>0, <2>1, <3>1 DEF Of
    <3>3. ~grace'
      BY <1>6, <2>2 DEF Boot
    <3> QED BY <2>2, <3>2, <3>3
  <2>3. CASE leaseActive' = "active" /\ quiesced' = TRUE /\ runner' = runner /\ kind' = kind
    BY <2>3 DEF Of
  <2> QED BY <1>6, <2>2, <2>3 DEF Boot
<1>7. CASE ReadAnswers \/ ReadFails
  BY <1>7, ApplyHealthy DEF ReadAnswers, ReadFails, stopVars
<1>8. ASSUME NEW c \in Rereading, ReadResumes(c) PROVE Healthy'
  <2>1. UNCHANGED <<leaseActive, generation, grace, quiesced, overridden, main, shutdown>>
    BY <1>8 DEF ReadResumes, quiesceVars, stopVars
  <2>2. CASE UNCHANGED <<runner, kind>>
    BY <1>1, <2>1, <2>2
  <2>3. CASE StartRunner(c.gen, c.step = "read")
    <3>1. c.gen # 0
      BY <1>8 DEF Turns, Rereading
    <3>2. PICK r \in Runner :
            /\ runner[r] = "none"
            /\ runner' = [runner EXCEPT ![r] = "starting"]
            /\ kind' = [kind EXCEPT ![r] = [by |-> c.gen, cron |-> c.step = "read"]]
      BY <2>3, StartEffect
    <3>3. /\ Of("starting")' = Of("starting") \union {r} /\ Of("up")' = Of("up")
          /\ \A x \in Of("starting") : kind'[x] = kind[x]
          /\ kind'[r].by = c.gen
      BY <1>0, <3>2 DEF Of
    <3> QED BY <2>1, <3>1, <3>3
  <2> QED BY <1>8, <2>2, <2>3 DEF ReadResumes
<1>9. ASSUME NEW r \in Runner, RunnerStops(r) PROVE Healthy'
  <2>1. /\ runner[r] = "stopping" /\ runner' = [runner EXCEPT ![r] = "none"]
        /\ kind' = [kind EXCEPT ![r] = NoKind]
        /\ main' = IF main = r THEN NoRunner ELSE main
        /\ UNCHANGED <<leaseActive, generation, grace, quiesced, overridden, shutdown>>
    BY <1>9 DEF RunnerStops, quiesceVars
  <2>2. /\ Of("starting")' = Of("starting") /\ Of("up")' = Of("up")
        /\ \A x \in Of("starting") : kind'[x] = kind[x]
        /\ main \in Of("up") => main' = main
    BY <1>0, <2>1 DEF Of
  <2> QED BY <2>1, <2>2
<1>10. ASSUME NEW r \in Runner, RunnerUp(r)
       PROVE  /\ leaseActive # "unknown" /\ r \in Of("starting")
              /\ Of("starting")' = Of("starting") \ {r} /\ Of("up")' = Of("up") \union {r}
              /\ main' = IF kind[r].cron THEN r ELSE main
              /\ UNCHANGED <<leaseActive, generation, grace, kind, shutdown>>
  BY <1>0, <1>10 DEF RunnerUp, Of, Unknown, quiesceVars, stopVars
<1>11. ASSUME NEW r \in Runner, StartedFirst(r) PROVE Healthy'
  <2>1. kind[r].cron /\ quiesced' = FALSE /\ overridden' = (leaseActive = "active")
    BY <1>10, <1>11 DEF StartedFirst
  <2> QED BY <1>10, <1>11, <2>1 DEF StartedFirst
<1>12. ASSUME NEW r \in Runner, StartedResume(r) PROVE Healthy'
  <2>1. kind[r].by # 0 /\ RunnerUp(r)
    BY <1>12 DEF StartedResume
  <2>2. CASE kind[r].cron /\ CanResume(kind[r].by)
    BY <1>10, <2>1, <2>2 DEF CanResume
  <2>3. CASE UNCHANGED <<quiesced, overridden>>
    BY <1>10, <2>1, <2>3
  <2> QED BY <1>12, <2>2, <2>3 DEF StartedResume
<1>13. ASSUME NEW w \in Worker, Ask(w) PROVE Healthy'
  <2>1. leaseActive # "unknown"
    BY <1>13 DEF Ask, Workers, Unknown, Worker
  <2>2. CASE Stopped \/ reading \/ cached = "none"
    BY <1>1, <1>13, <2>2 DEF Ask, quiesceVars, stopVars
  <2>3. CASE ~(Stopped \/ reading \/ cached = "none")
    BY <1>13, <2>1, <2>3, ApplyHealthy DEF Ask, stopVars, TypeOK
  <2> QED BY <2>2, <2>3
<1>14. ASSUME NEW w \in Worker, GetJob(w) \/ EndJob(w) PROVE Healthy'
  BY <1>1, <1>14 DEF GetJob, EndJob, quiesceVars, stopVars
<1>15. CASE GraceEnds
  <2>1. /\ leaseActive = "active" /\ grace' = FALSE
        /\ UNCHANGED <<leaseActive, generation, quiesced, overridden, kind, shutdown>>
        /\ runner' = runner \/ runner' = Drained
    BY <1>15 DEF GraceEnds, stopVars
  <2>2. Of("starting")' = Of("starting")
    BY <2>1, DrainedType DEF Of
  <2> QED BY <2>1, <2>2
<1> QED
  BY <1>2, <1>4, <1>5, <1>6, <1>7, <1>8, <1>9, <1>11, <1>12, <1>13, <1>14, <1>15
     DEF Next, Reads, Runs, Works

LEMMA HealthyAlways == Spec => []Healthy
<1>1. Init => Healthy
  BY DEF Init, Healthy, Of
<1>2. ASSUME QuiesceInv, Healthy, [Next]_vars PROVE Healthy'
  <2>1. CASE Next
    BY <1>2, <2>1, HealthyStep DEF QuiesceInv
  <2>2. CASE UNCHANGED vars
    BY <1>2, <2>2 DEF Healthy, Serves, Of, Stopped, vars, quiesceVars, runnerVars, stopVars
  <2> QED BY <1>2, <2>1, <2>2
<1> QED BY <1>1, <1>2, Invariance, PTL DEF Spec

(* The probe of a live pod only fails when run() has overridden the        *)
(* quiescence of an active lease, for any runners and turns of the lease.  *)
THEOREM PodsStayHealthy == Spec => []PodIsHealthy
<1>1. ASSUME QuiesceInv, Healthy PROVE PodIsHealthy
  <2>1. SUFFICES ASSUME generation > 0, ~Stopped, ~overridden, ~quiesced
                 PROVE  main # NoRunner \/ \E r \in Of("starting") : kind[r].by = 0
    BY DEF PodIsHealthy
  <2>2. leaseActive # "unknown"
    BY <1>1, <2>1 DEF Healthy
  <2>3. Serves
    BY <1>1, <2>1, <2>2 DEF Healthy
  <2> QED BY <2>3, QuiesceAssumption DEF Serves, Of
<1> QED BY <1>1, HealthyAlways, Invariance, PTL

-----------------------------------------------------------------------------
(* The pod wakes up.                                                       *)

(* Nobody asks for a permit before run() has read the lease, and those who *)
(* ask under a lease are told to wait by a turn that ends the calm.        *)
LEMMA ApplyCalm ==
    ASSUME TypeOK, Calm, NEW result \in {"active", "clear"}, NEW kept,
           NEW workers \in [Worker -> WorkerState], Apply(result, kept, workers),
           leaseActive # "unknown", shutdown' = shutdown,
           result = "clear" => \A w \in Worker : workers[w] = "waiting" => worker[w] = "waiting"
    PROVE  Calm'
<1> USE DEF Calm, Stopped
<1>1. CASE result = leaseActive
  BY <1>1 DEF Apply, quiesceVars
<1>2. CASE result # leaseActive /\ result = "active"
  BY <1>2 DEF Apply
<1>3. CASE result # leaseActive /\ result = "clear"
  <2>1. worker' = Dismissed(workers) /\ grace' = FALSE
    BY <1>3 DEF Apply
  <2> QED BY <2>1, DrainedType
<1> QED BY <1>1, <1>2, <1>3

LEMMA CalmStep ==
    ASSUME TypeOK, Workers, Unknown, Calm, Next
    PROVE  Calm'
<1> USE DEF Calm, Stopped
<1>0. worker \in [Worker -> WorkerState] /\ \A w \in Worker : w[1] \in Runner
  BY DEF TypeOK, WorkerState, Worker
<1>1. ASSUME UNCHANGED <<leaseActive, grace, worker, shutdown>> \/ shutdown' # "no" PROVE Calm'
  BY <1>1
<1>2. CASE Poll \/ LeaseTurns \/ CacheExpires \/ Stop \/ Exit \/ \E c \in resumes : Resume(c)
  BY <1>1, <1>2 DEF Poll, LeaseTurns, CacheExpires, Stop, Exit, Resume, quiesceVars, runnerVars,
                    stopVars
<1>3. ASSUME NEW r \in Runner, RunnerStops(r) \/ StartFails(r) \/ RunnerDies(r) PROVE Calm'
  BY <1>1, <1>3 DEF RunnerStops, StartFails, RunnerDies, quiesceVars, runnerVars
<1>4. ASSUME NEW r \in Runner, StartedFirst(r) \/ StartedResume(r) PROVE Calm'
  <2>1. /\ UNCHANGED <<leaseActive, grace, shutdown>>
        /\ \A w \in Worker : worker'[w] = "waiting" => worker[w] = "waiting"
    BY <1>4 DEF StartedFirst, StartedResume, RunnerUp, quiesceVars, stopVars
  <2> QED BY <2>1
<1>5. CASE Boot
  <2>1. leaseActive = "unknown" /\ worker' = worker /\ shutdown' = shutdown
    BY <1>5 DEF Boot, stopVars
  <2>2. \A w \in Worker : worker[w] = "gone"
    BY <1>0, <2>1 DEF Workers, Unknown
  <2>3. leaseActive' = "active" \/ grace' = grace
    BY <1>5 DEF Boot
  <2> QED BY <2>1, <2>2, <2>3
<1>6. CASE ReadAnswers
  BY <1>6, ToldIs, ApplyCalm DEF ReadAnswers, stopVars
<1>7. CASE ReadFails
  BY <1>7, ToldIs, ApplyCalm DEF ReadFails, stopVars
<1>8. ASSUME NEW c \in Rereading, ReadResumes(c) PROVE Calm'
  BY <1>8, ToldIs DEF ReadResumes, CanResume, quiesceVars, stopVars
<1>9. ASSUME NEW w \in Worker, Ask(w) PROVE Calm'
  <2>1. leaseActive # "unknown" /\ shutdown' = shutdown
    BY <1>0, <1>9 DEF Ask, Workers, Unknown, stopVars
  <2>2. CASE Stopped \/ reading \/ cached = "none"
    BY <1>0, <1>9, <2>1, <2>2 DEF Ask, quiesceVars
  <2>3. CASE ~(Stopped \/ reading \/ cached = "none")
    <3> DEFINE workers == [worker EXCEPT ![w] =
                              IF cached = "clear" THEN "permitted" ELSE "waiting"]
    <3>1. Apply(cached, resumes, workers) /\ cached \in {"active", "clear"}
      BY <1>9, <2>3 DEF Ask, TypeOK
    <3>2. /\ workers \in [Worker -> WorkerState]
          /\ cached = "clear" => \A x \in Worker : workers[x] = "waiting" => worker[x] = "waiting"
      BY <1>0 DEF WorkerState
    <3> HIDE DEF workers
    <3> QED BY <2>1, <3>1, <3>2, ApplyCalm
  <2> QED BY <2>2, <2>3
<1>10. ASSUME NEW w \in Worker, GetJob(w) \/ EndJob(w) PROVE Calm'
  <2>1. /\ UNCHANGED <<leaseActive, grace, shutdown>>
        /\ \E next \in {"job", "idle", "gone"} : worker' = [worker EXCEPT ![w] = next]
    BY <1>10 DEF GetJob, EndJob, Rest, quiesceVars, stopVars
  <2> QED BY <1>0, <2>1
<1>11. CASE GraceEnds
  <2>1. /\ grace' = FALSE /\ UNCHANGED <<leaseActive, shutdown>>
        /\ worker' = worker \/ worker' = Dismissed(worker)
    BY <1>11 DEF GraceEnds, stopVars
  <2> QED BY <1>0, <2>1, DrainedType
<1> QED
  BY <1>2, <1>3, <1>4, <1>5, <1>6, <1>7, <1>8, <1>9, <1>10, <1>11 DEF Next, Reads, Runs, Works

(* What does not touch the runners, and keeps each resume of the turn, in  *)
(* the step it has or in the read that comes next.                         *)
LEMMA WakingStays ==
    ASSUME Waking,
           UNCHANGED <<leaseActive, generation, quiesced, runner, kind>>,
           shutdown' = shutdown \/ shutdown' # "no",
           CanResume(generation) =>
              /\ \A c \in resumes : c.gen = generation => \E d \in resumes' : d.gen = c.gen
              /\ \A d \in resumes' : d.gen = generation =>
                    \E c \in resumes :
                       /\ c.gen = d.gen /\ (d.step = "drain" => c = d)
                       /\ d.step = "start" => c.step = "start"
                       /\ d.step \in {"read", "reread"} => reading'
                       /\ d.step \in {"ramp", "reread"} => c.step \in {"ramp", "reread"}
    PROVE  Waking'
<1> SUFFICES ASSUME leaseActive = "clear", ~Stopped PROVE Waking'
  BY DEF Waking, Stopped
<1>1. CanResume(generation) /\ Of("up")' = Of("up") /\ Of("starting")' = Of("starting")
  BY DEF CanResume, Of
<1>2. Of("stopping")' = Of("stopping")
  BY DEF Of
<1>3. ASSUME NEW d \in resumes', d.gen = generation PROVE GoesOn(d)'
  <2>1. PICK c \in resumes :
          /\ c.gen = d.gen /\ (d.step = "drain" => c = d)
          /\ d.step = "start" => c.step = "start"
          /\ d.step \in {"read", "reread"} => reading'
          /\ d.step \in {"ramp", "reread"} => c.step \in {"ramp", "reread"}
    BY <1>1, <1>3
  <2>2. GoesOn(c)
    BY <1>3, <2>1 DEF Waking
  <2> QED BY <1>1, <1>2, <2>1, <2>2 DEF GoesOn, Awaits, HalfUp
<1>4. FullyStaffed => FullyStaffed'
  BY <1>1 DEF FullyStaffed, Size
<1> QED BY <1>1, <1>3, <1>4 DEF Waking

(* A turn to clear begins with a resume, which waits for the runners that  *)
(* its drain stops.                                                        *)
LEMMA ApplyWaking ==
    ASSUME TypeOK, Turns, Starts, Waking, NEW result \in {"active", "clear"},
           NEW kept \in SUBSET resumes, NEW workers, Apply(result, kept, workers),
           shutdown' = shutdown,
           result = "clear" => \A c \in resumes : CanResume(c.gen) =>
              c \in kept /\ (c.step \in {"read", "reread"} => reading')
    PROVE  Waking'
<1>1. CASE result = leaseActive
  <2>1. resumes' = kept /\ UNCHANGED <<leaseActive, generation, quiesced, runner, kind>>
    BY <1>1 DEF Apply, quiesceVars
  <2>2. CASE result = "active"
    BY <1>1, <2>1, <2>2 DEF Waking
  <2>3. CASE result = "clear"
    BY <1>1, <2>1, <2>3, WakingStays DEF CanResume
  <2> QED BY <2>2, <2>3
<1>2. CASE result # leaseActive /\ result = "active"
  BY <1>2 DEF Apply, Waking
<1>3. CASE result # leaseActive /\ result = "clear"
  <2> DEFINE new == [gen |-> generation + 1, step |-> "drain", awaits |-> Registered]
  <2>1. /\ generation' = generation + 1 /\ runner' = Drained /\ kind' = kind
        /\ resumes' = kept \union {new}
    BY <1>3 DEF Apply
  <2>2. \A c \in kept : c.gen # generation'
    BY <2>1 DEF Turns, TypeOK
  <2>3. Registered \subseteq Of("stopping")' /\ Of("starting")' = Of("starting")
    BY <2>1, DrainedType DEF Registered, Of
  <2>4. \A r \in Of("starting") : kind[r].by # generation'
    BY <2>1 DEF Starts, TypeOK, Of
  <2>5. ASSUME NEW d \in resumes', d.gen = generation' PROVE GoesOn(d)'
    <3>1. d = new
      BY <2>1, <2>2, <2>5
    <3>2. d.step = "drain" /\ d.awaits = Registered
      BY <3>1
    <3>3. \A r \in Of("starting")' : kind'[r].by # d.gen
      BY <2>1, <2>3, <2>4, <2>5
    <3> QED BY <2>3, <3>2, <3>3 DEF GoesOn, Awaits
  <2>6. new \in resumes' /\ new.gen = generation'
    BY <2>1
  <2> QED BY <2>5, <2>6 DEF Waking
<1> QED BY <1>1, <1>2, <1>3

(* A resume that has read that the lease is clear: it starts a runner, or  *)
(* is done when one worker was all there is to start.                      *)
LEMMA ReadWaking ==
    ASSUME TypeOK, Turns, Starts, Waking, NEW c \in Rereading, ReadResumes(c)
    PROVE  Waking'
<1>1. /\ c \in resumes /\ c.gen = generation /\ leaseActive = "clear" /\ ~Stopped
      /\ c.step \in {"read", "reread"}
      /\ UNCHANGED <<leaseActive, generation, quiesced, shutdown>>
  BY DEF ReadResumes, CanResume, Rereading, quiesceVars, stopVars
<1>2. GoesOn(c) /\ \A d \in resumes : d.gen = generation => d = c
  BY <1>1 DEF Waking, Turns
<1>3. CASE c.step = "reread" /\ Concurrency = 1
  <2>1. resumes' = resumes \ Rereading /\ UNCHANGED <<runner, kind>>
    BY <1>3 DEF ReadResumes
  <2>2. PICK a \in Of("up") : ~quiesced /\ kind[a].by = generation /\ kind[a].cron
    BY <1>1, <1>2, <1>3 DEF GoesOn, HalfUp
  <2>3. Size(kind[a]) = 1
    BY <1>3, <2>2 DEF Size
  <2>4. FullyStaffed'
    BY <1>1, <1>3, <2>1, <2>2, <2>3 DEF FullyStaffed, Size, Of
  <2> QED BY <1>1, <1>2, <2>1, <2>4 DEF Waking
<1>4. CASE ~(c.step = "reread" /\ Concurrency = 1)
  <2> DEFINE now == [c EXCEPT !.step = "start"]
  <2>1. StartRunner(c.gen, c.step = "read") /\ resumes' = (resumes \ Rereading) \union {now}
    BY <1>4 DEF ReadResumes
  <2>2. PICK r \in Runner :
          /\ runner[r] = "none"
          /\ runner' = [runner EXCEPT ![r] = "starting"]
          /\ kind' = [kind EXCEPT ![r] = [by |-> c.gen, cron |-> c.step = "read"]]
    BY <2>1, StartEffect
  <2>3. /\ runner \in [Runner -> {"none", "starting", "up", "stopping"}]
        /\ kind \in [Runner -> [by : Nat, cron : BOOLEAN]]
        /\ c.gen # 0 /\ c \in ResumeCall
    BY <1>1 DEF TypeOK, Turns, ResumeCall
  <2>4. /\ Of("up")' = Of("up") /\ Of("starting")' = Of("starting") \union {r}
        /\ \A x \in Of("up") : kind'[x] = kind[x]
        /\ \A x \in Of("starting") : kind'[x] = kind[x]
        /\ kind'[r].by = c.gen /\ kind'[r].cron = (c.step = "read")
    BY <2>2, <2>3 DEF Of
  <2>5. now.gen = c.gen /\ now.step = "start" /\ now \in resumes'
    BY <2>1, <2>3 DEF ResumeCall
  <2>6. HalfUp(c.gen) => ~quiesced' /\ \E a \in Of("up")' : kind'[a].by = c.gen /\ kind'[a].cron
    BY <1>1, <2>4 DEF HalfUp
  <2>7. \A x \in Of("starting")' : kind'[x].by = c.gen /\ ~kind'[x].cron => HalfUp(c.gen)
    BY <1>1, <1>2, <2>4 DEF GoesOn
  <2>8. ASSUME NEW d \in resumes', d.gen = generation' PROVE GoesOn(d)'
    <3>1. d = now
      BY <1>1, <1>2, <2>1, <2>8 DEF Rereading
    <3>2. d.gen = c.gen /\ d.step = "start"
      BY <2>5, <3>1
    <3> QED BY <2>4, <2>6, <2>7, <3>2 DEF GoesOn, Awaits, HalfUp
  <2> HIDE DEF now
  <2> QED BY <1>1, <2>5, <2>8 DEF Waking
<1> QED BY <1>3, <1>4

(* run() has its runner, of all workers. A resume of the turn is not       *)
(* touched.                                                                *)
LEMMA FirstWaking ==
    ASSUME TypeOK, Turns, Healthy, Waking, NEW r \in Runner, StartedFirst(r)
    PROVE  Waking'
<1>1. /\ runner[r] = "starting" /\ runner' = [runner EXCEPT ![r] = "up"]
      /\ kind[r].by = 0 /\ kind[r].cron /\ quiesced' = FALSE
      /\ UNCHANGED <<leaseActive, generation, kind, resumes, shutdown>>
  BY DEF StartedFirst, RunnerUp, Healthy, Of, quiesceVars, stopVars
<1>2. SUFFICES ASSUME leaseActive = "clear", ~Stopped PROVE Waking'
  BY <1>1 DEF Waking, Stopped
<1>3. /\ Of("up")' = Of("up") \union {r} /\ Of("starting")' = Of("starting") \ {r}
      /\ Of("stopping")' = Of("stopping")
  BY <1>1 DEF Of, TypeOK
<1>4. FullyStaffed'
  BY <1>1, <1>3, QuiesceAssumption DEF FullyStaffed, Size
<1>5. ASSUME NEW c \in resumes, c.gen = generation PROVE GoesOn(c)'
  <2>1. GoesOn(c) /\ c.gen # 0
    BY <1>2, <1>5 DEF Waking, Turns
  <2>2. HalfUp(c.gen) => HalfUp(c.gen)'
    BY <1>1, <1>3 DEF HalfUp
  <2>3. Awaits(c)' /\ \A x \in Of("starting")' : x \in Of("starting") /\ kind'[x] = kind[x]
    <3>1. c.step = "drain" => c.awaits \subseteq Of("stopping")'
      BY <1>3, <2>1 DEF GoesOn, Awaits
    <3>2. c.step = "start" => \E x \in Of("starting")' : kind'[x].by = c.gen
      BY <1>1, <1>3, <2>1 DEF GoesOn, Awaits
    <3>3. reading' = reading
      BY DEF StartedFirst, RunnerUp, probeVars
    <3> QED BY <1>1, <1>3, <2>1, <3>1, <3>2, <3>3 DEF GoesOn, Awaits
  <2> QED BY <1>1, <2>1, <2>2, <2>3 DEF GoesOn
<1> QED BY <1>1, <1>4, <1>5 DEF Waking

(* The runner of a resume is up: the first wakes the pod, the second makes *)
(* it whole.                                                               *)
LEMMA StartedWaking ==
    ASSUME TypeOK, Turns, Starts, Waking, NEW r \in Runner, StartedResume(r)
    PROVE  Waking'
<1>1. /\ runner[r] = "starting" /\ runner' = [runner EXCEPT ![r] = "up"]
      /\ kind[r].by # 0 /\ reading' = reading
      /\ UNCHANGED <<leaseActive, generation, kind, shutdown>>
      /\ quiesced' \in {quiesced, FALSE}
  BY DEF StartedResume, RunnerUp, probeVars, quiesceVars, stopVars
<1>2. SUFFICES ASSUME leaseActive = "clear", ~Stopped PROVE Waking'
  BY <1>1 DEF Waking, Stopped
<1>3. /\ Of("up")' = Of("up") \union {r} /\ Of("starting")' = Of("starting") \ {r}
      /\ Of("stopping")' = Of("stopping") /\ r \in Of("starting")
  BY <1>1 DEF Of, TypeOK
<1>4. PICK c \in resumes :
        /\ c.gen = kind[r].by
        /\ \/ /\ kind[r].cron /\ CanResume(c.gen)
              /\ resumes' = (resumes \ {c}) \union {[c EXCEPT !.step = "ramp"]}
           \/ resumes' = resumes \ {c}
  BY StartedEffect
<1>5. kind[r].cron /\ CanResume(kind[r].by)
          => /\ quiesced' = FALSE
             /\ \E d \in resumes :
                   /\ d.gen = kind[r].by
                   /\ resumes' = (resumes \ {d}) \union {[d EXCEPT !.step = "ramp"]}
  <2>1. \E d \in resumes : d.gen = kind[r].by
    BY <1>4
  <2> DEFINE d == CHOOSE x \in resumes : x.gen = kind[r].by
  <2>2. d \in resumes /\ d.gen = kind[r].by
    BY <2>1
  <2>3. kind[r].cron /\ CanResume(kind[r].by)
          => quiesced' = FALSE /\ resumes' = (resumes \ {d}) \union {[d EXCEPT !.step = "ramp"]}
    BY DEF StartedResume
  <2> HIDE DEF d
  <2> QED BY <2>2, <2>3
<1>6. /\ \A a, b \in Of("starting") : kind[a].by = kind[b].by => a = b
      /\ \A d, e \in resumes : d.gen = e.gen => d = e
  BY DEF Starts, Turns
<1>7. FullyStaffed => FullyStaffed'
  BY <1>1, <1>3 DEF FullyStaffed, Size
<1>8. ASSUME NEW g, HalfUp(g) PROVE HalfUp(g)'
  <2>1. ~quiesced'
    BY <1>1, <1>8, Zenon DEF HalfUp
  <2>2. PICK a \in Of("up") : kind[a].by = g /\ kind[a].cron
    BY <1>8 DEF HalfUp
  <2>3. a \in Of("up")' /\ kind'[a].by = g /\ kind'[a].cron
    BY <1>1, <1>3, <2>2
  <2> QED BY <2>1, <2>3 DEF HalfUp
(* A resume that the runner is not of.                                     *)
<1>9. ASSUME NEW d \in resumes, d.gen = generation, d.gen # kind[r].by PROVE GoesOn(d)'
  <2>1. GoesOn(d)
    BY <1>2, <1>9 DEF Waking
  <2>2. d.step = "drain" => d.awaits \subseteq Of("stopping")'
    BY <1>3, <2>1 DEF GoesOn, Awaits
  <2>3. d.step = "start" => \E x \in Of("starting")' : kind'[x].by = d.gen
    BY <1>1, <1>3, <1>9, <2>1 DEF GoesOn, Awaits
  <2>4. Awaits(d)'
    BY <1>1, <2>1, <2>2, <2>3 DEF GoesOn, Awaits
  <2> QED BY <1>1, <1>3, <1>8, <2>1, <2>4 DEF GoesOn
<1>10. CASE kind[r].by # generation
  <2>1. /\ \A d \in resumes : d.gen = generation => d \in resumes'
        /\ \A d \in resumes' : d.gen = generation => d \in resumes
    <3>1. c.gen # generation /\ [c EXCEPT !.step = "ramp"].gen = c.gen
      BY <1>4, <1>10 DEF TypeOK
    <3> QED BY <1>4, <3>1
  <2>2. \A x \in Of("starting") : kind[x].by = 0 => x \in Of("starting")'
    BY <1>1, <1>3
  <2> QED BY <1>1, <1>2, <1>7, <1>9, <1>10, <2>1, <2>2 DEF Waking
<1>11. CASE kind[r].by = generation /\ kind[r].cron
  <2>1. CanResume(kind[r].by)
    BY <1>2, <1>11 DEF CanResume
  <2>2. PICK d \in resumes :
          /\ d.gen = kind[r].by
          /\ resumes' = (resumes \ {d}) \union {[d EXCEPT !.step = "ramp"]}
    BY <1>5, <1>11, <2>1
  <2> DEFINE now == [d EXCEPT !.step = "ramp"]
  <2>3. now.gen = d.gen /\ now.step = "ramp" /\ now \in resumes'
    BY <2>2 DEF TypeOK
  <2>4. ASSUME NEW e \in resumes', e.gen = generation' PROVE GoesOn(e)'
    <3>1. e = now
      BY <1>1, <1>6, <1>11, <2>2, <2>4
    <3>2. e.step = "ramp" /\ e.gen = kind[r].by
      BY <2>2, <2>3, <3>1
    <3>3. HalfUp(e.gen)'
      BY <1>1, <1>3, <1>5, <1>11, <2>1, <3>2 DEF HalfUp
    <3> QED BY <3>2, <3>3 DEF GoesOn, Awaits
  <2> HIDE DEF now
  <2> QED BY <1>1, <1>11, <2>2, <2>3, <2>4 DEF Waking
<1>12. CASE kind[r].by = generation /\ ~kind[r].cron
  <2>1. resumes' = resumes \ {c}
    BY <1>4, <1>12
  <2>2. HalfUp(kind[r].by)
    BY <1>2, <1>3, <1>4, <1>12 DEF Waking, GoesOn
  <2>3. FullyStaffed'
    <3>1. PICK a \in Of("up") : kind[a].by = kind[r].by /\ kind[a].cron
      BY <2>2 DEF HalfUp
    <3>2. a # r /\ a \in Of("up")' /\ r \in Of("up")' /\ kind'[a].cron /\ kind'[r].by # 0
      BY <1>1, <1>3, <1>12, <3>1
    <3>3. ~quiesced'
      BY <1>1, <2>2, Zenon DEF HalfUp
    <3> QED BY <3>2, <3>3 DEF FullyStaffed
  <2>4. \A d \in resumes' : d.gen # generation'
    BY <1>1, <1>4, <1>6, <1>12, <2>1
  <2> QED BY <2>3, <2>4 DEF Waking
<1> QED BY <1>10, <1>11, <1>12 DEF TypeOK

(* A drained runner is gone.                                               *)
LEMMA StopsWaking ==
    ASSUME TypeOK, Waking, NEW r \in Runner, RunnerStops(r)
    PROVE  Waking'
<1>1. /\ runner[r] = "stopping" /\ runner' = [runner EXCEPT ![r] = "none"]
      /\ kind' = [kind EXCEPT ![r] = NoKind]
      /\ resumes' = {[c EXCEPT !.awaits = @ \ {r}] : c \in resumes}
      /\ UNCHANGED <<leaseActive, generation, quiesced, reading, shutdown>>
  BY DEF RunnerStops, quiesceVars, probeVars
<1>2. SUFFICES ASSUME leaseActive = "clear", ~Stopped PROVE Waking'
  BY <1>1 DEF Waking, Stopped
<1>3. /\ Of("up")' = Of("up") /\ Of("starting")' = Of("starting")
      /\ Of("stopping")' = Of("stopping") \ {r}
      /\ \A x \in Of("up") \union Of("starting") : kind'[x] = kind[x]
  BY <1>1 DEF Of, TypeOK
<1>4. FullyStaffed => FullyStaffed'
  <2>1. SUFFICES ASSUME NEW a \in Of("up"), NEW b \in Of("up"), ~quiesced, kind[a].cron,
                        Concurrency > Size(kind[a]) => a # b /\ kind[b].by # 0
                 PROVE  FullyStaffed'
    BY DEF FullyStaffed
  <2>2. kind'[a] = kind[a] /\ kind'[b] = kind[b] /\ a \in Of("up")' /\ b \in Of("up")' /\ ~quiesced'
    BY <1>1, <1>3, <2>1
  <2>3. Size(kind'[a]) = Size(kind[a])
    BY <2>2
  <2> QED BY <2>1, <2>2, <2>3 DEF FullyStaffed
<1>5. ASSUME NEW g, HalfUp(g) PROVE HalfUp(g)'
  BY <1>1, <1>3, <1>5 DEF HalfUp
<1>6. ASSUME NEW d \in resumes', d.gen = generation PROVE GoesOn(d)'
  <2>1. PICK c \in resumes : d = [c EXCEPT !.awaits = @ \ {r}]
    BY <1>1
  <2>2. d.gen = c.gen /\ d.step = c.step /\ d.awaits = c.awaits \ {r}
    BY <2>1 DEF TypeOK
  <2>3. GoesOn(c)
    BY <1>2, <1>6, <2>2 DEF Waking
  <2>4. Awaits(d)'
    <3>1. d.step = "drain" => d.awaits \subseteq Of("stopping")'
      BY <1>3, <2>2, <2>3 DEF GoesOn, Awaits
    <3>2. d.step = "start" => \E x \in Of("starting")' : kind'[x].by = d.gen
      BY <1>3, <2>2, <2>3 DEF GoesOn, Awaits
    <3> QED BY <1>1, <2>2, <2>3, <3>1, <3>2 DEF GoesOn, Awaits
  <2> QED BY <1>3, <1>5, <2>2, <2>3, <2>4 DEF GoesOn
<1>7. \A c \in resumes : \E d \in resumes' : d.gen = c.gen
  <2> SUFFICES ASSUME NEW c \in resumes PROVE \E d \in resumes' : d.gen = c.gen
    OBVIOUS
  <2>1. [c EXCEPT !.awaits = @ \ {r}] \in resumes' /\ [c EXCEPT !.awaits = @ \ {r}].gen = c.gen
    BY <1>1 DEF TypeOK
  <2> QED BY <2>1
<1> QED BY <1>1, <1>2, <1>3, <1>4, <1>6, <1>7 DEF Waking

LEMMA WakingStep ==
    ASSUME TypeOK, Workers, Unknown, Turns, Starts, Healthy, Calm, Waking, Next
    PROVE  Waking'
<1>1. ASSUME shutdown' # "no" PROVE Waking'
  BY <1>1 DEF Waking, Stopped
<1>2. ASSUME CanResume(generation), NEW c \in resumes, c.gen = generation PROVE GoesOn(c)
  BY <1>2 DEF Waking, CanResume
<1>3. ASSUME UNCHANGED <<leaseActive, generation, quiesced, resumes, runner, kind, shutdown>>,
             reading => reading'
      PROVE  Waking'
  <2>1. ASSUME CanResume(generation), NEW d \in resumes', d.gen = generation
        PROVE  d \in resumes /\ (d.step \in {"read", "reread"} => reading')
    BY <1>2, <1>3, <2>1 DEF GoesOn, Awaits
  <2> QED BY <1>3, <2>1, WakingStays
<1>4. CASE Poll \/ LeaseTurns \/ CacheExpires
  BY <1>3, <1>4 DEF Poll, LeaseTurns, CacheExpires, leaseVars, probeVars, quiesceVars, runnerVars,
                    stopVars
<1>5. ASSUME Stop \/ Exit \/ \E r \in Runner : StartFails(r) \/ RunnerDies(r) PROVE Waking'
  BY <1>1, <1>5 DEF Stop, Exit, StartFails, RunnerDies
<1>6. ASSUME NEW w \in Worker, GetJob(w) \/ EndJob(w) PROVE Waking'
  BY <1>3, <1>6 DEF GetJob, EndJob, probeVars, quiesceVars, stopVars
<1>7. ASSUME NEW r \in Runner, Runs(r) PROVE Waking'
  BY <1>7, StopsWaking, FirstWaking, StartedWaking DEF Runs
(* run() starts its runner.                                                *)
<1>8. CASE Boot
  <2>1. resumes' = {} /\ \A r \in Runner : runner[r] = "none"
    BY <1>8 DEF Boot, Unknown
  <2>2. CASE leaseActive' = "clear" /\ StartRunner(0, TRUE)
    <3>1. PICK r \in Runner :
            /\ runner' = [runner EXCEPT ![r] = "starting"]
            /\ kind' = [kind EXCEPT ![r] = [by |-> 0, cron |-> TRUE]]
      BY <2>2, StartEffect
    <3>2. r \in Of("starting")' /\ kind'[r].by = 0
      BY <3>1 DEF Of, TypeOK
    <3> QED BY <2>1, <3>2 DEF Waking
  <2>3. CASE leaseActive' = "active"
    BY <2>3 DEF Waking
  <2> QED BY <1>8, <2>2, <2>3 DEF Boot
(* No resume of the turn waits for an answer that is not for it.           *)
<1>9. CASE ReadAnswers
  <2> DEFINE result == IF lease THEN "active" ELSE "clear"
  <2>1. /\ Apply(result, resumes \ Rereading, Told(result)) /\ shutdown' = shutdown
        /\ result \in {"active", "clear"}
        /\ result = "clear" => \A c \in Rereading : ~CanResume(c.gen)
    BY <1>9 DEF ReadAnswers, stopVars
  <2>2. result = "clear" => \A c \in resumes : CanResume(c.gen) =>
            c \in resumes \ Rereading /\ (c.step \in {"read", "reread"} => reading')
    BY <2>1 DEF Rereading
  <2> HIDE DEF result
  <2> QED BY <2>1, <2>2, ApplyWaking
<1>10. CASE ReadFails
  <2>1. Apply("active", resumes \ Rereading, Told("active")) /\ shutdown' = shutdown
    BY <1>10 DEF ReadFails, stopVars
  <2> QED BY <2>1, ApplyWaking
<1>11. ASSUME NEW c \in Rereading, ReadResumes(c) PROVE Waking'
  BY <1>11, ReadWaking
<1>12. ASSUME NEW w \in Worker, Ask(w) PROVE Waking'
  <2>1. shutdown' = shutdown
    BY <1>12 DEF Ask, stopVars
  <2>2. CASE Stopped \/ reading \/ cached = "none"
    <3>1. /\ UNCHANGED <<leaseActive, generation, quiesced, resumes, runner, kind>>
          /\ reading' = (reading \/ ~Stopped)
      BY <1>12, <2>2 DEF Ask, quiesceVars
    <3>2. reading => reading'
      BY <3>1, Zenon
    <3> QED BY <1>3, <2>1, <3>1, <3>2
  <2>3. CASE ~(Stopped \/ reading \/ cached = "none")
    <3>1. PICK workers : Apply(cached, resumes, workers)
      BY <1>12, <2>3 DEF Ask
    <3>2. cached \in {"active", "clear"} /\ resumes \in SUBSET resumes
      BY <2>3 DEF TypeOK
    <3>3. \A c \in resumes : CanResume(c.gen) => c.step \notin {"read", "reread"}
      BY <1>2, <2>3 DEF GoesOn, Awaits, CanResume
    <3> QED BY <2>1, <3>1, <3>2, <3>3, ApplyWaking
  <2> QED BY <2>2, <2>3
(* The grace period ended with the turn.                                   *)
<1>13. CASE GraceEnds
  <2>1. grace /\ UNCHANGED <<leaseActive, shutdown>>
    BY <1>13 DEF GraceEnds, stopVars
  <2>2. leaseActive = "active" \/ Stopped
    BY <2>1 DEF Calm
  <2> QED BY <2>1, <2>2 DEF Waking, Stopped
<1>14. ASSUME NEW c \in resumes, Resume(c) PROVE Waking'
  <2>1. /\ UNCHANGED <<leaseActive, generation, quiesced, runner, kind, shutdown>>
        /\ c.step \in {"drain", "jitter", "ramp"}
    BY <1>14 DEF Resume, quiesceVars, runnerVars, stopVars
  <2>2. CASE CanResume(c.gen)
    <3> DEFINE now == [c EXCEPT !.step = CASE c.step = "drain" -> "jitter"
                                           [] c.step = "jitter" -> "read"
                                           [] c.step = "ramp" -> "reread"]
    <3>1. resumes' = (resumes \ {c}) \union {now} /\ reading' = (reading \/ c.step # "drain")
      BY <1>14, <2>2 DEF Resume
    <3>2. /\ now.gen = c.gen /\ now.step \in {"jitter", "read", "reread"}
          /\ now.step \in {"read", "reread"} => c.step # "drain"
          /\ now.step = "reread" => c.step = "ramp"
      BY <2>1 DEF TypeOK
    <3>3. c.gen = generation /\ \A d \in resumes : d.gen = generation => d = c
      BY <2>2 DEF CanResume, Turns
    <3> HIDE DEF now
    <3>4. now.step \in {"read", "reread"} => reading'
      BY <3>1, <3>2, Zenon
    <3>5. \A d \in resumes' : d.gen = generation => d = now
      BY <3>1, <3>3
    <3>6. now \in resumes'
      BY <3>1
    <3> QED BY <2>1, <3>2, <3>3, <3>4, <3>5, <3>6, WakingStays
  <2>3. CASE ~CanResume(c.gen)
    <3>1. resumes' = resumes \ {c} /\ reading' = reading
      BY <1>14, <2>3 DEF Resume
    <3>2. CanResume(generation) => c.gen # generation
      BY <2>3
    <3>3. ASSUME CanResume(generation), NEW d \in resumes', d.gen = generation
          PROVE  d \in resumes /\ (d.step \in {"read", "reread"} => reading')
      BY <1>2, <3>1, <3>3 DEF GoesOn, Awaits
    <3> QED BY <2>1, <3>1, <3>2, <3>3, WakingStays
  <2> QED BY <2>2, <2>3
<1> QED
  BY <1>4, <1>5, <1>6, <1>7, <1>8, <1>9, <1>10, <1>11, <1>12, <1>13, <1>14
     DEF Next, Reads, Works

(* The part of ComesBack that is about safety: once a pod has read that    *)
(* the lease is clear, all its workers are there, or run() or a resume of  *)
(* that very turn is on its way and what it awaits will come. No resume of *)
(* an earlier turn, no failed read and no drain takes that away.           *)
THEOREM PodsWakeUp == Spec => []NeverHalfAwake
<1>1. Init => WakingInv
  BY DEF Init, WakingInv, Calm, Waking
<1>2. ASSUME QuiesceInv, Healthy, WakingInv, [Next]_vars PROVE WakingInv'
  <2>1. CASE Next
    BY <1>2, <2>1, CalmStep, WakingStep DEF QuiesceInv, WakingInv
  <2>2. CASE UNCHANGED vars
    <3> USE <1>2, <2>2 DEF vars, leaseVars, probeVars, quiesceVars, runnerVars, stopVars
    <3>1. Calm'
      BY DEF WakingInv, Calm, Stopped
    <3>2. \A state : Of(state)' = Of(state)
      BY DEF Of
    <3>3. Waking'
      BY <3>2 DEF WakingInv, Waking, GoesOn, Awaits, HalfUp, FullyStaffed, Size, Stopped
    <3> QED BY <3>1, <3>3 DEF WakingInv
  <2> QED BY <1>2, <2>1, <2>2
<1>3. ASSUME WakingInv PROVE NeverHalfAwake
  BY <1>3 DEF WakingInv, Calm, Waking, GoesOn, NeverHalfAwake, AtWork
<1> QED BY <1>1, <1>2, <1>3, HealthyAlways, Invariance, PTL DEF Spec
=============================================================================
