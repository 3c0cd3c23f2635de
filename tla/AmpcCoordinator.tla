-------------------------- MODULE AmpcCoordinator --------------------------
(***************************************************************************)
(* The coordinator of the AMPC framework and its workers                   *)
(* (crates/core/src/ampc/coordinator.rs, server.rs).                       *)
(*                                                                         *)
(* A computation is a sequence of rounds; a round applies the mappers one  *)
(* after the other; a mapper maps every job on some worker that can take   *)
(* it.  The coordinator learns what a worker does by asking for its        *)
(* current job, one worker after the other, while the map threads of the   *)
(* workers run on.  Answers may be lost, and workers may die and come back.*)
(***************************************************************************)
EXTENDS Integers, Sequences, FiniteSets

CONSTANTS
  Workers,     \* positions in the coordinator's list of workers
  NumJobs,     \* length of `jobs`
  Takers,      \* Takers[j]: workers that j is schedulable on
  NumMappers,
  MaxRounds,   \* bound: the finisher ends the computation by then
  Faults,      \* kinds of faults that may happen: "timeout", "crash", "restart"
  MaxFaults,   \* bound: faults of a behaviour
  NoJob, Lost, Unasked

(* A job is its place in `jobs`.  Two places may hold equal jobs: harmonic *)
(* centrality makes one for the shard of every worker, replicas included.  *)
(* Nothing compares jobs, which the trait does not let it do.              *)
Jobs == 1 .. NumJobs
JobList == [j \in Jobs |-> j]

ASSUME ConstantAssumptions ==
  /\ Workers \subseteq Nat /\ IsFiniteSet(Workers)
  /\ NumJobs \in Nat /\ Takers \in [Jobs -> SUBSET Workers]
  /\ NumMappers \in Nat \ {0} /\ {MaxRounds, MaxFaults} \subseteq Nat
  /\ {NoJob, Lost, Unasked} \cap Jobs = {} /\ Cardinality({NoJob, Lost, Unasked}) = 3

VARIABLES
  phase,        \* where run stands
  round, mapper,
  remaining,    \* remaining_jobs
  job,          \* the job taken from remaining_jobs
  scheduled,    \* scheduled_jobs
  worker_jobs,  \* answers of the current sweep over the workers
  up, dht, current_job, \* of each worker: alive, the round of its DHT (0: none), Server::current_job
  threads,      \* threads[w]: its map threads
  mapped,       \* history: jobs that this mapper has mapped in this round
  returned,     \* history: workers that came back in this round
  faults

coordinator == <<phase, round, mapper, remaining, job, scheduled, worker_jobs>>
workers == <<up, dht, current_job, threads>>
vars == <<coordinator, workers, mapped, returned, faults>>

Sweeps == {"poll", "await"}       \* phases that ask the workers
Phases == {"round", "next", "done", "failed"} \cup Sweeps
Least(S) == CHOOSE w \in S : \A v \in S : w <= v
Ask == [w \in Workers |-> Unasked]
Nothing == [w \in Workers |-> NoJob]

Init ==
  /\ phase = "round" /\ round = 0 /\ mapper = NumMappers
  /\ remaining = <<>> /\ job = NoJob /\ scheduled = Nothing /\ worker_jobs = Ask
  /\ up = [w \in Workers |-> TRUE] /\ dht = [w \in Workers |-> 0]
  /\ current_job = Nothing /\ threads = [w \in Workers |-> {}]
  /\ mapped = {} /\ returned = {} /\ faults = 0

MayFail(kind) == kind \in Faults /\ faults < MaxFaults
Fail(kind) == MayFail(kind) /\ faults' = faults + 1

-----------------------------------------------------------------------------
(* Workers *)

(* The server stores the job and starts a thread, which panics when the    *)
(* worker has no DHT: then the job stays its current job for good.         *)
Receive(w, j) ==
  /\ current_job' = [current_job EXCEPT ![w] = j]
  /\ threads' = IF dht[w] = 0 THEN threads
                ELSE [threads EXCEPT ![w] =
                        @ \cup {[round |-> dht[w], mapper |-> mapper, job |-> j]}]

\* Wrong: a thread that is through leaves its job behind.
MapEndsLeaving(w) ==
  \E t \in threads[w] :
    /\ threads' = [threads EXCEPT ![w] = @ \ {t}]
    /\ mapped' = IF t.round = round /\ t.mapper = mapper THEN mapped \cup {t.job} ELSE mapped
    /\ UNCHANGED <<coordinator, up, dht, current_job, returned, faults>>

(* A thread is through: it takes whatever the current job is. *)
MapEnds(w) ==
  \E t \in threads[w] :
    /\ threads' = [threads EXCEPT ![w] = @ \ {t}]
    /\ current_job' = [current_job EXCEPT ![w] = NoJob]
    /\ mapped' = IF t.round = round /\ t.mapper = mapper THEN mapped \cup {t.job} ELSE mapped
    /\ UNCHANGED <<coordinator, up, dht, returned, faults>>

Crash(w) ==
  /\ up[w]
  /\ Fail("crash")
  /\ up' = [up EXCEPT ![w] = FALSE]
  /\ dht' = [dht EXCEPT ![w] = 0]
  /\ current_job' = [current_job EXCEPT ![w] = NoJob]
  /\ threads' = [threads EXCEPT ![w] = {}]
  /\ UNCHANGED <<coordinator, mapped, returned>>

Restart(w) ==
  /\ ~up[w]
  /\ Fail("restart")
  /\ up' = [up EXCEPT ![w] = TRUE]
  /\ returned' = returned \cup {w}
  /\ UNCHANGED <<coordinator, dht, current_job, threads, mapped>>

-----------------------------------------------------------------------------
(* Coordinator: rounds *)

(* The finisher decides; it is given the tables of the last round. *)
Finished ==
  /\ phase = "round"
  /\ phase' = "done"
  /\ UNCHANGED <<round, mapper, remaining, job, scheduled, worker_jobs, workers, mapped, returned, faults>>

StartMapper(m) ==
  /\ mapper' = m
  /\ remaining' = JobList
  /\ scheduled' = Nothing
  /\ mapped' = {}
  /\ phase' = "next"

StartRound ==
  /\ phase = "round" /\ round < MaxRounds
  /\ \A w \in Workers : up[w]
  /\ round' = round + 1
  /\ dht' = [w \in Workers |-> round + 1]
  /\ returned' = {}
  /\ StartMapper(1)
  /\ UNCHANGED <<job, worker_jobs, up, current_job, threads, faults>>

(* The DHT is sent to all workers in parallel; one that fails ends run. *)
SetupFails ==
  /\ phase = "round" /\ round < MaxRounds
  /\ \/ \E w \in Workers : ~up[w] /\ UNCHANGED faults
     \/ Fail("timeout")
  /\ \E S \in SUBSET {w \in Workers : up[w]} :
       dht' = [w \in Workers |-> IF w \in S THEN round + 1 ELSE dht[w]]
  /\ phase' = "failed"
  /\ UNCHANGED <<round, mapper, remaining, job, scheduled, worker_jobs,
                 up, current_job, threads, mapped, returned>>

\* Wrong: one mapper too many.
MapperEndsLate ==
  IF mapper <= NumMappers
  THEN StartMapper(mapper + 1)
  ELSE /\ phase' = "round"
       /\ UNCHANGED <<mapper, remaining, scheduled, mapped>>

(* The next mapper of the round, or the next round. *)
MapperEnds ==
  IF mapper < NumMappers
  THEN StartMapper(mapper + 1)
  ELSE /\ phase' = "round"
       /\ UNCHANGED <<mapper, remaining, scheduled, mapped>>

-----------------------------------------------------------------------------
(* Coordinator: asking all workers, in the order of their positions *)

Waiting == {w \in Workers : worker_jobs[w] = Unasked}

CurrentJob(w) ==
  /\ phase \in Sweeps /\ w \in Waiting /\ w = Least(Waiting)
  /\ \/ up[w] /\ worker_jobs' = [worker_jobs EXCEPT ![w] = current_job[w]] /\ UNCHANGED faults
     \/ ~up[w] /\ worker_jobs' = [worker_jobs EXCEPT ![w] = Lost] /\ UNCHANGED faults
     \/ up[w] /\ worker_jobs' = [worker_jobs EXCEPT ![w] = Lost] /\ Fail("timeout")
  /\ UNCHANGED <<phase, round, mapper, remaining, job, scheduled, workers, mapped, returned>>

Swept == phase \in Sweeps /\ Waiting = {}
Failed == {w \in Workers : worker_jobs[w] = Lost}

(* schedule_job *)
Potential(j) == {w \in Workers : w \in Takers[j] /\ worker_jobs[w] # Lost}
\* Wrong: a busy worker is taken for a free one.
IdleOrBusy(j) == Potential(j)
Idle(j) == {w \in Potential(j) : worker_jobs[w] = NoJob}

(* A call that may not be answered although the worker received the job. *)
Schedule(w, j, answered) ==
  \/ up[w] /\ answered /\ Receive(w, j) /\ UNCHANGED faults
  \/ ~up[w] /\ ~answered /\ UNCHANGED <<current_job, threads, faults>>
  \/ up[w] /\ ~answered /\ Fail("timeout")
       /\ (Receive(w, j) \/ UNCHANGED <<current_job, threads>>)

-----------------------------------------------------------------------------
(* Coordinator: handing out jobs *)

\* Wrong: the job stays in the queue.
PopJobCopy ==
  /\ phase = "next"
  /\ IF remaining = <<>>
     THEN phase' = "await" /\ UNCHANGED <<remaining, job>>
     ELSE phase' = "poll" /\ job' = Head(remaining) /\ remaining' = remaining
  /\ worker_jobs' = Ask
  /\ UNCHANGED <<round, mapper, scheduled, workers, mapped, returned, faults>>

PopJob ==
  /\ phase = "next"
  /\ IF remaining = <<>>
     THEN phase' = "await" /\ UNCHANGED <<remaining, job>>
     ELSE phase' = "poll" /\ job' = Head(remaining) /\ remaining' = Tail(remaining)
  /\ worker_jobs' = Ask
  /\ UNCHANGED <<round, mapper, scheduled, workers, mapped, returned, faults>>

(* Jobs of failed workers go to the front, one push_front after the other. *)
Owners == {w \in Failed : scheduled[w] # NoJob}
Descending(f) == \A i, k \in DOMAIN f : i < k => f[i] > f[k]
RestoredOrders == {f \in [1 .. Cardinality(Owners) -> Owners] : Descending(f)}
Restored(f) == [i \in DOMAIN f |-> scheduled[f[i]]]
Dropped == [w \in Workers |-> IF w \in Failed THEN NoJob ELSE scheduled[w]]

HandOut ==
  /\ Swept /\ phase = "poll"
  /\ \E f \in RestoredOrders : LET rest == Restored(f) \o remaining IN
     \/ /\ Potential(job) = {}
        /\ phase' = "failed" /\ remaining' = rest /\ scheduled' = Dropped
        /\ UNCHANGED <<current_job, threads, faults>>
     \/ /\ Potential(job) # {} /\ Idle(job) = {}
        /\ phase' = "next" /\ remaining' = <<job>> \o rest /\ scheduled' = Dropped
        /\ UNCHANGED <<current_job, threads, faults>>
     \/ /\ Idle(job) # {}
        /\ \E answered \in BOOLEAN :
             /\ Schedule(Least(Idle(job)), job, answered)
             /\ phase' = IF answered THEN "next" ELSE "failed"
             /\ scheduled' = IF answered THEN [Dropped EXCEPT ![Least(Idle(job))] = job] ELSE Dropped
        /\ remaining' = rest
  /\ job' = NoJob
  /\ UNCHANGED <<round, mapper, worker_jobs, up, dht, mapped, returned>>

-----------------------------------------------------------------------------
(* Coordinator: await_scheduled_jobs *)

(* The first worker at which the loop over the answers breaks. *)
Breaks == {w \in Workers : worker_jobs[w] \in Jobs \/ (worker_jobs[w] = Lost /\ scheduled[w] # NoJob)}
\* Wrong: a worker that does not answer counts as finished.
NoneBusy == \A w \in Workers : worker_jobs[w] \notin Jobs
AllIdle == \A w \in Workers : worker_jobs[w] = NoJob

(* Sleep and ask again. *)
Again == phase' = "await" /\ worker_jobs' = Ask /\ UNCHANGED <<round, mapper, remaining, mapped>>

AwaitEnds ==
  /\ Swept /\ phase = "await" /\ AllIdle
  /\ MapperEnds
  /\ worker_jobs' = Ask
  /\ UNCHANGED <<round, job, workers, returned, faults>>

KeepWaiting ==
  /\ Swept /\ phase = "await" /\ ~AllIdle
  /\ Breaks # {} => worker_jobs[Least(Breaks)] \in Jobs
  /\ Again
  /\ UNCHANGED <<job, scheduled, workers, returned, faults>>

(* A worker with a scheduled job does not answer: the job is removed and   *)
(* given to an idle worker.  Without one it is not put back.               *)
Reschedule ==
  /\ Swept /\ phase = "await" /\ Breaks # {} /\ worker_jobs[Least(Breaks)] = Lost
  /\ LET r == Least(Breaks)  j == scheduled[r]  without == [scheduled EXCEPT ![r] = NoJob] IN
     \/ /\ Potential(j) = {}
        /\ phase' = "failed" /\ scheduled' = without
        /\ UNCHANGED <<round, mapper, remaining, mapped, worker_jobs, current_job, threads, faults>>
     \/ /\ Potential(j) # {} /\ Idle(j) = {}
        /\ Again /\ scheduled' = without
        /\ UNCHANGED <<current_job, threads, faults>>
     \/ /\ Idle(j) # {}
        /\ \/ /\ Schedule(Least(Idle(j)), j, TRUE)
              /\ Again /\ scheduled' = [without EXCEPT ![Least(Idle(j))] = j]
           \/ /\ Schedule(Least(Idle(j)), j, FALSE)
              /\ phase' = "failed" /\ scheduled' = without
              /\ UNCHANGED <<round, mapper, remaining, mapped, worker_jobs>>
  /\ UNCHANGED <<job, up, dht, returned>>

-----------------------------------------------------------------------------
Run ==
  \/ Finished \/ StartRound \/ SetupFails
  \/ PopJob \/ HandOut \/ AwaitEnds \/ KeepWaiting \/ Reschedule
  \/ \E w \in Workers : CurrentJob(w)

Stopped == phase \in {"done", "failed"} /\ UNCHANGED vars

Next ==
  \/ Run
  \/ \E w \in Workers : MapEnds(w) \/ Crash(w) \/ Restart(w)
  \/ Stopped

Spec == Init /\ [][Next]_vars

(* The coordinator is a thread of its own and a map ends; faults need not  *)
(* happen.                                                                 *)
FairSpec == Spec /\ WF_vars(Run) /\ \A w \in Workers : WF_vars(MapEnds(w))

-----------------------------------------------------------------------------
Thread == [round : 1 .. MaxRounds, mapper : 1 .. NumMappers, job : Jobs]

TypeOK ==
  /\ phase \in Phases /\ round \in 0 .. MaxRounds /\ mapper \in 1 .. NumMappers
  /\ remaining \in Seq(Jobs) /\ job \in Jobs \cup {NoJob}
  /\ scheduled \in [Workers -> Jobs \cup {NoJob}]
  /\ worker_jobs \in [Workers -> Jobs \cup {NoJob, Lost, Unasked}]
  /\ up \in [Workers -> BOOLEAN] /\ dht \in [Workers -> 0 .. MaxRounds]
  /\ current_job \in [Workers -> Jobs \cup {NoJob}]
  /\ threads \in [Workers -> SUBSET Thread]
  /\ mapped \subseteq Jobs /\ returned \subseteq Workers /\ faults \in 0 .. MaxFaults

(* A mapper ends only when it has mapped every job, also when answers were *)
(* lost and jobs were scheduled again, or workers died: a worker that dies *)
(* keeps it from ending.  One that comes back does not, so that a round in *)
(* which one did is excepted; the next round is not.                       *)
EveryJobMapped ==
  [][<<round, mapper>>' # <<round, mapper>> /\ round > 0 /\ returned = {}
       => Jobs \subseteq mapped]_vars

(* A worker runs one map at a time: the thread that ends clears the        *)
(* current job of its worker, which must not be that of another thread.    *)
OneMapAtATime == \A w \in Workers : Cardinality(threads[w]) <= 1

(* An entry of `jobs` is mapped once, unless a fault happens: mapping it   *)
(* again is not harmless to all mappers, some of which count rounds in     *)
(* their worker.  Of equal entries, each is mapped.                        *)
OnceUnlessFaulty ==
  faults = 0 =>
    \A j \in Jobs : \A w \in Workers : \A t \in threads[w] :
      t.job = j => /\ j \notin mapped /\ j # job
                   /\ \A i \in DOMAIN remaining : remaining[i] # j
                   /\ \A v \in Workers \ {w} : \A s \in threads[v] : s.job # j

(* What runs belongs to this round and this mapper and writes to the       *)
(* tables of this round; nothing runs between mappers.                     *)
NothingLate ==
  \A w \in Workers : \A t \in threads[w] :
    phase \notin {"round", "done"} /\ t.round = round /\ t.mapper = mapper

(* "retry scheduling" (coordinator.rs:132): while the coordinator waits, a *)
(* job is mapped, or a worker maps it, or it is scheduled.                 *)
AwaitKeepsJobs ==
  phase = "await" =>
    \A j \in Jobs : \/ j \in mapped
                    \/ \E w \in Workers : \E t \in threads[w] : t.job = j
                    \/ \E w \in Workers : scheduled[w] = j

(* The computation ends, although answers may be lost, unless a worker     *)
(* dies.                                                                   *)
Ends == <>(phase \in {"done", "failed"} \/ \E w \in Workers : ~up[w])

=============================================================================
