----------------------- MODULE AmpcCoordinatorProofs -----------------------
(***************************************************************************)
(* Proofs about AmpcCoordinator, for any workers, jobs, rounds and faults. *)
(*                                                                         *)
(* Heard and Single tie what the coordinator has learnt in a sweep to what *)
(* the workers do: a worker that said it has no job runs nothing, until    *)
(* the coordinator itself gives it a job.  So a mapper that ends leaves    *)
(* nothing running, although the workers were asked one after the other.   *)
(* Accounted says where each job is in a round in which no worker returns, *)
(* and Unharmed that it is in one place as long as nothing fails.          *)
(***************************************************************************)
EXTENDS AmpcCoordinator, FiniteSetTheorems, SequenceTheorems, WellFoundedInduction, TLAPS

Active == {"next", "poll", "await"}

(* A worker runs the map of its current job, or none. *)
Single ==
  \A w \in Workers :
    threads[w] = {} \/ \E t : threads[w] = {t} /\ current_job[w] # NoJob

(* An idle worker stays idle until the sweep over the workers is over. *)
Heard ==
  \A w \in Workers : phase \in Sweeps /\ worker_jobs[w] = NoJob => current_job[w] = NoJob

(* The DHT of a worker is that of this round, or it has none. *)
Current == \A w \in Workers : phase \in Active => dht[w] \in {0, round}

(* A sweep for a job has one. *)
Popped == phase = "poll" => job \in Jobs

Ordered == TypeOK /\ Single /\ Heard /\ Current /\ Popped /\ NothingLate

(* The jobs are the places in the list. *)
LEMMA JobsInList ==
  JobList \in Seq(Jobs) /\ DOMAIN JobList = Jobs /\ \A j \in Jobs : JobList[j] = j
BY ConstantAssumptions DEF JobList, Jobs

LEMMA Distinct ==
  /\ NoJob \notin Jobs /\ Lost \notin Jobs /\ Unasked \notin Jobs
  /\ NoJob # Lost /\ NoJob # Unasked /\ Lost # Unasked
<1>1. NoJob \notin Jobs /\ Lost \notin Jobs /\ Unasked \notin Jobs
  BY ConstantAssumptions
<1>2. Cardinality({NoJob, Lost, Unasked}) = 3
  BY ConstantAssumptions
<1>3. \A x, y : Cardinality({x, y}) \in {1, 2}
  <2> TAKE x, y
  <2>1. CASE x = y
    <3>1. {x, y} = {x}
      BY <2>1
    <3>2. Cardinality({x}) = 1
      BY FS_Singleton
    <3> QED
      BY <3>1, <3>2
  <2>2. CASE x # y
    <3>1. {x, y} = {x} \cup {y} /\ IsFiniteSet({x}) /\ Cardinality({x}) = 1
      BY FS_Singleton
    <3>2. Cardinality({x} \cup {y}) = 2
      BY <2>2, <3>1, FS_AddElement
    <3> QED
      BY <3>1, <3>2
  <2> QED
    BY <2>1, <2>2
<1>4. NoJob # Lost /\ NoJob # Unasked /\ Lost # Unasked
  <2> SUFFICES ASSUME NoJob = Lost \/ NoJob = Unasked \/ Lost = Unasked
               PROVE  FALSE
    OBVIOUS
  <2>1. \E x, y : {NoJob, Lost, Unasked} = {x, y}
    OBVIOUS
  <2>2. PICK x, y : {NoJob, Lost, Unasked} = {x, y}
    BY <2>1
  <2>3. Cardinality({x, y}) = 3
    BY <1>2, <2>2
  <2> QED
    BY <1>3, <2>3
<1> QED
  BY <1>1, <1>4

LEMMA LeastIn ==
  ASSUME NEW S, S \subseteq Workers, S # {}
  PROVE  Least(S) \in S
<1>1. S \subseteq Nat
  BY ConstantAssumptions
<1> DEFINE less == {ss \in Nat \X Nat : ss[1] < ss[2]}
<1>2. IsWellFoundedOn(less, Nat)
  BY NatLessThanWellFounded, Zenon DEF OpToRel
<1>3. \A v, w \in Nat : <<v, w>> \notin less => w <= v
  OBVIOUS
<1> HIDE DEF less
<1>4. PICK w \in S : \A v \in S : ~(<<v, w>> \in less)
  BY <1>1, <1>2, WFMin
<1>5. \A v \in S : w <= v
  BY <1>1, <1>3, <1>4
<1> QED
  BY <1>5 DEF Least

(* schedule_job calls a worker that has said it is idle, and still is. *)
LEMMA IdleWorker ==
  ASSUME Ordered, Swept, NEW j, Idle(j) # {}
  PROVE  /\ Least(Idle(j)) \in Workers /\ Least(Idle(j)) \in Idle(j)
         /\ current_job[Least(Idle(j))] = NoJob
<1>1. Idle(j) \subseteq Workers /\ \A w \in Idle(j) : worker_jobs[w] = NoJob
  BY DEF Idle, Potential
<1>2. Least(Idle(j)) \in Idle(j)
  BY <1>1, LeastIn
<1> QED
  BY <1>1, <1>2 DEF Ordered, Heard, Swept

(* What a call of schedule_job does at an idle worker. *)
LEMMA Receives ==
  ASSUME Ordered, NEW w \in Workers, NEW j \in Jobs, NEW answered \in BOOLEAN,
         Schedule(w, j, answered), current_job[w] = NoJob, phase \in Sweeps
  PROVE  /\ current_job' \in [Workers -> Jobs \cup {NoJob}]
         /\ threads' \in [Workers -> SUBSET Thread]
         /\ faults' \in 0 .. MaxFaults
         /\ \A v \in Workers : v # w =>
              threads'[v] = threads[v] /\ current_job'[v] = current_job[v]
         /\ \/ threads'[w] = {}
            \/ /\ current_job'[w] # NoJob
               /\ threads'[w] = {[round |-> round, mapper |-> mapper, job |-> j]}
<1>1. threads[w] = {}
  BY DEF Ordered, Single
<1>2. dht[w] \in {0, round} /\ dht[w] \in 0 .. MaxRounds /\ mapper \in 1 .. NumMappers
  BY DEF Ordered, Current, Sweeps, Active, TypeOK
<1> DEFINE t == [round |-> dht[w], mapper |-> mapper, job |-> j]
<1>3. dht[w] # 0 => t \in Thread
  BY <1>2, ConstantAssumptions DEF Thread
<1>4. ASSUME Receive(w, j)
      PROVE  /\ current_job' = [current_job EXCEPT ![w] = j]
             /\ threads' = threads \/ (dht[w] # 0 /\ threads' = [threads EXCEPT ![w] = {t}])
  <2>1. threads[w] \cup {t} = {t}
    BY <1>1
  <2> QED
    BY <1>4, <2>1 DEF Receive
<1>5. UNCHANGED <<current_job, threads>> \/ Receive(w, j)
  BY DEF Schedule
<1>6. current_job \in [Workers -> Jobs \cup {NoJob}] /\ threads \in [Workers -> SUBSET Thread]
  BY DEF Ordered, TypeOK
<1>7. dht[w] # 0 => t = [round |-> round, mapper |-> mapper, job |-> j]
  BY <1>2
<1>8. faults' \in 0 .. MaxFaults
  <2>1. faults \in 0 .. MaxFaults /\ MaxFaults \in Nat
    BY ConstantAssumptions DEF Ordered, TypeOK
  <2> QED
    BY <2>1 DEF Schedule, Fail, MayFail
<1>9. j # NoJob
  BY Distinct
<1> HIDE DEF t
<1> QED
  BY <1>1, <1>3, <1>4, <1>5, <1>6, <1>7, <1>8, <1>9

(* What it does to the invariant. *)
LEMMA ReceivesInOrder ==
  ASSUME Ordered, NEW w \in Workers, NEW j \in Jobs, NEW answered \in BOOLEAN,
         Schedule(w, j, answered), current_job[w] = NoJob, phase \in Sweeps,
         UNCHANGED <<round, mapper>>, phase' \notin {"round", "done"}
  PROVE  Single' /\ NothingLate'
<1>1. ASSUME NEW v \in Workers
      PROVE  threads'[v] = {} \/ \E t : threads'[v] = {t} /\ current_job'[v] # NoJob
  <2>1. v # w => threads'[v] = threads[v] /\ current_job'[v] = current_job[v]
    BY Receives
  <2>2. \/ threads'[w] = {}
        \/ /\ current_job'[w] # NoJob
           /\ threads'[w] = {[round |-> round, mapper |-> mapper, job |-> j]}
    BY Receives
  <2>3. threads[v] = {} \/ \E t : threads[v] = {t} /\ current_job[v] # NoJob
    BY DEF Ordered, Single
  <2> QED
    BY <2>1, <2>2, <2>3
<1>2. ASSUME NEW v \in Workers, NEW t \in threads'[v]
      PROVE  t.round = round /\ t.mapper = mapper
  BY <1>2, Receives DEF Ordered, NothingLate
<1> QED
  BY <1>1, <1>2 DEF NothingLate, Single

-----------------------------------------------------------------------------
(* Each action keeps the invariant. *)

LEMMA InitOrdered == Init => Ordered
<1> SUFFICES ASSUME Init PROVE Ordered
  OBVIOUS
<1>1. TypeOK
  <2>1. /\ <<>> \in Seq(Jobs) /\ 0 \in 0 .. MaxRounds /\ 0 \in 0 .. MaxFaults
        /\ NumMappers \in 1 .. NumMappers
    BY ConstantAssumptions
  <2> QED
    BY <2>1 DEF Init, TypeOK, Phases, Sweeps, Nothing, Ask
<1> QED
  BY <1>1 DEF Init, Ordered, Single, Heard, Current, Popped, NothingLate, Sweeps, Active

LEMMA MapEndsInOrder ==
  ASSUME Ordered, NEW w \in Workers, MapEnds(w) PROVE Ordered'
<1>1. PICK t \in threads[w] :
        /\ threads' = [threads EXCEPT ![w] = @ \ {t}]
        /\ mapped' = IF t.round = round /\ t.mapper = mapper THEN mapped \cup {t.job} ELSE mapped
  BY DEF MapEnds
<1>2. /\ current_job' = [current_job EXCEPT ![w] = NoJob]
      /\ UNCHANGED <<phase, round, mapper, remaining, job, scheduled, worker_jobs, up, dht, returned, faults>>
  BY DEF MapEnds, coordinator
<1>3. TypeOK /\ threads[w] = {t} /\ t \in Thread
  <2>1. TypeOK /\ threads[w] \subseteq Thread
    BY DEF Ordered, TypeOK
  <2> QED
    BY <2>1 DEF Ordered, Single
<1>4. threads'[w] = {} /\ current_job'[w] = NoJob
  BY <1>1, <1>2, <1>3 DEF TypeOK
<1>5. \A v \in Workers : v # w => threads'[v] = threads[v] /\ current_job'[v] = current_job[v]
  BY <1>1, <1>2, <1>3 DEF TypeOK
<1>6. TypeOK'
  <2>1. t.job \in Jobs
    BY <1>3 DEF Thread
  <2> QED
    BY <1>1, <1>2, <1>3, <2>1 DEF TypeOK
<1>7. Single' /\ NothingLate'
  BY <1>2, <1>4, <1>5 DEF Ordered, Single, NothingLate
<1> QED
  BY <1>2, <1>4, <1>5, <1>6, <1>7 DEF Ordered, Heard, Current, Popped, Active, Sweeps

LEMMA CrashInOrder ==
  ASSUME Ordered, NEW w \in Workers, Crash(w) PROVE Ordered'
<1>1. /\ UNCHANGED <<phase, round, mapper, remaining, job, scheduled, worker_jobs,
                     mapped, returned>>
      /\ up' = [up EXCEPT ![w] = FALSE] /\ dht' = [dht EXCEPT ![w] = 0]
      /\ current_job' = [current_job EXCEPT ![w] = NoJob]
      /\ threads' = [threads EXCEPT ![w] = {}]
      /\ faults' = faults + 1 /\ faults < MaxFaults
  BY DEF Crash, Fail, MayFail, coordinator
<1>2. TypeOK /\ {MaxRounds, MaxFaults} \subseteq Nat
  BY ConstantAssumptions DEF Ordered
<1>3. \A v \in Workers :
        IF v = w THEN threads'[v] = {} /\ current_job'[v] = NoJob /\ dht'[v] = 0
        ELSE threads'[v] = threads[v] /\ current_job'[v] = current_job[v] /\ dht'[v] = dht[v]
  BY <1>1, <1>2 DEF TypeOK
<1>4. TypeOK'
  BY <1>1, <1>2 DEF TypeOK
<1>5. Single'
  BY <1>3 DEF Ordered, Single
<1>6. NothingLate'
  BY <1>1, <1>3 DEF Ordered, NothingLate
<1> QED
  BY <1>1, <1>3, <1>4, <1>5, <1>6 DEF Ordered, Heard, Current, Popped, Active, Sweeps

LEMMA RestartInOrder ==
  ASSUME Ordered, NEW w \in Workers, Restart(w) PROVE Ordered'
<1>1. /\ UNCHANGED <<phase, round, mapper, remaining, job, scheduled, worker_jobs,
                     dht, current_job, threads, mapped>>
      /\ up' = [up EXCEPT ![w] = TRUE] /\ returned' = returned \cup {w} /\ faults' = faults + 1 /\ faults < MaxFaults
  BY DEF Restart, Fail, MayFail, coordinator
<1>2. TypeOK /\ {MaxRounds, MaxFaults} \subseteq Nat
  BY ConstantAssumptions DEF Ordered
<1>3. TypeOK'
  BY <1>1, <1>2 DEF TypeOK
<1> QED
  BY <1>1, <1>3
  DEF Ordered, Single, Heard, Current, Popped, NothingLate, Active, Sweeps

(* The jobs of failed workers are jobs. *)
LEMMA RestoredJobs ==
  ASSUME TypeOK, NEW f \in RestoredOrders
  PROVE  Restored(f) \in Seq(Jobs)
<1>1. IsFiniteSet(Owners)
  BY ConstantAssumptions, FS_Subset DEF Owners, Failed
<1> DEFINE n == Cardinality(Owners)
<1>2. n \in Nat
  BY <1>1, FS_CardinalityType
<1>3. f \in [1 .. n -> Owners]
  BY DEF RestoredOrders
<1>4. \A v \in Owners : scheduled[v] \in Jobs
  BY DEF Owners, Failed, TypeOK
<1> HIDE DEF n
<1>5. \A i \in 1 .. n : scheduled[f[i]] \in Jobs
  BY <1>3, <1>4
<1>6. DOMAIN f = 1 .. n
  BY <1>3
<1>7. Restored(f) \in [1 .. n -> Jobs]
  BY <1>5, <1>6 DEF Restored
<1> QED
  BY <1>2, <1>7, SeqDef

(* What lets the next mapper start: nothing runs. *)
LEMMA AllQuiet ==
  ASSUME Ordered, Swept, AllIdle, NEW w \in Workers
  PROVE  threads[w] = {}
BY DEF Ordered, Heard, Single, Swept, AllIdle

LEMMA StartMapperTyped ==
  ASSUME TypeOK, NEW m \in 1 .. NumMappers, StartMapper(m)
  PROVE  /\ mapper' \in 1 .. NumMappers /\ remaining' \in Seq(Jobs) /\ phase' = "next"
         /\ scheduled' \in [Workers -> Jobs \cup {NoJob}] /\ mapped' = {}
BY JobsInList DEF StartMapper, Nothing

LEMMA StartRoundInOrder ==
  ASSUME Ordered, StartRound PROVE Ordered'
<1>1. /\ phase = "round" /\ round < MaxRounds /\ round' = round + 1
      /\ dht' = [w \in Workers |-> round + 1] /\ returned' = {} /\ StartMapper(1)
      /\ UNCHANGED <<job, worker_jobs, up, current_job, threads, faults>>
  BY DEF StartRound
<1>2. TypeOK /\ MaxRounds \in Nat /\ 1 \in 1 .. NumMappers
  BY ConstantAssumptions DEF Ordered
<1>3. /\ mapper' \in 1 .. NumMappers /\ remaining' \in Seq(Jobs) /\ phase' = "next"
      /\ scheduled' \in [Workers -> Jobs \cup {NoJob}] /\ mapped' = {}
  BY <1>1, <1>2, StartMapperTyped
<1>4. round + 1 \in 0 .. MaxRounds
  BY <1>1, <1>2 DEF TypeOK
<1>5. TypeOK'
  BY <1>1, <1>2, <1>3, <1>4 DEF TypeOK, Phases
<1>6. \A w \in Workers : threads[w] = {}
  BY <1>1 DEF Ordered, NothingLate, Single
<1> QED
  BY <1>1, <1>3, <1>5, <1>6
  DEF Ordered, Single, Heard, Current, Popped, NothingLate, Active, Sweeps

LEMMA SetupFailsInOrder ==
  ASSUME Ordered, SetupFails PROVE Ordered'
<1>1. /\ phase = "round" /\ round < MaxRounds /\ phase' = "failed"
      /\ UNCHANGED <<round, mapper, remaining, job, scheduled, worker_jobs,
                     up, current_job, threads, mapped, returned>>
  BY DEF SetupFails
<1>2. TypeOK /\ {MaxRounds, MaxFaults} \subseteq Nat
  BY ConstantAssumptions DEF Ordered
<1>3. faults' \in 0 .. MaxFaults
  BY <1>2 DEF SetupFails, Fail, MayFail, TypeOK
<1>4. dht' \in [Workers -> 0 .. MaxRounds]
  <2>1. round + 1 \in 0 .. MaxRounds
    BY <1>1, <1>2 DEF TypeOK
  <2> QED
    BY <1>2, <2>1 DEF SetupFails, TypeOK
<1>5. TypeOK'
  BY <1>1, <1>2, <1>3, <1>4 DEF TypeOK, Phases
<1>6. \A w \in Workers : threads[w] = {}
  BY <1>1 DEF Ordered, NothingLate, Single
<1> QED
  BY <1>1, <1>5, <1>6
  DEF Ordered, Single, Heard, Current, Popped, NothingLate, Active, Sweeps

LEMMA PopJobInOrder ==
  ASSUME Ordered, PopJob PROVE Ordered'
<1>1. /\ phase = "next" /\ worker_jobs' = Ask
      /\ UNCHANGED <<round, mapper, scheduled, up, dht, current_job, threads, mapped,
                     returned, faults>>
      /\ \/ phase' = "await" /\ UNCHANGED <<remaining, job>>
         \/ remaining # <<>> /\ phase' = "poll" /\ job' = Head(remaining)
              /\ remaining' = Tail(remaining)
  BY DEF PopJob, workers
<1>2. TypeOK
  BY DEF Ordered
<1>3. remaining' \in Seq(Jobs) /\ job' \in Jobs \cup {NoJob} /\ (phase' = "poll" => job' \in Jobs)
  <2>1. remaining \in Seq(Jobs) /\ job \in Jobs \cup {NoJob}
    BY <1>2 DEF TypeOK
  <2>2. remaining # <<>> => Head(remaining) \in Jobs /\ Tail(remaining) \in Seq(Jobs)
    BY <2>1, HeadTailProperties
  <2> QED
    BY <1>1, <2>1, <2>2
<1>4. TypeOK'
  BY <1>1, <1>2, <1>3 DEF TypeOK, Phases, Sweeps, Ask
<1>5. \A w \in Workers : worker_jobs'[w] # NoJob
  BY <1>1, Distinct DEF Ask
<1> QED
  BY <1>1, <1>3, <1>4, <1>5
  DEF Ordered, Single, Heard, Current, Popped, NothingLate, Active, Sweeps

LEMMA CurrentJobInOrder ==
  ASSUME Ordered, NEW w \in Workers, CurrentJob(w) PROVE Ordered'
<1>1. /\ UNCHANGED <<phase, round, mapper, remaining, job, scheduled,
                     up, dht, current_job, threads, mapped, returned>>
      /\ phase \in Sweeps
      /\ \/ worker_jobs' = [worker_jobs EXCEPT ![w] = current_job[w]]
         \/ worker_jobs' = [worker_jobs EXCEPT ![w] = Lost]
      /\ \/ UNCHANGED faults
         \/ faults' = faults + 1 /\ faults < MaxFaults
  BY DEF CurrentJob, Fail, MayFail, workers
<1>2. TypeOK /\ {MaxRounds, MaxFaults} \subseteq Nat
  BY ConstantAssumptions DEF Ordered
<1>3. TypeOK'
  <2>1. worker_jobs' \in [Workers -> Jobs \cup {NoJob, Lost, Unasked}]
    BY <1>1, <1>2 DEF TypeOK
  <2>2. faults' \in 0 .. MaxFaults
    BY <1>1, <1>2 DEF TypeOK
  <2> QED
    BY <1>1, <1>2, <2>1, <2>2 DEF TypeOK
<1>4. Heard'
  <2> SUFFICES ASSUME NEW v \in Workers, worker_jobs'[v] = NoJob PROVE current_job[v] = NoJob
    BY <1>1 DEF Heard
  <2>1. v # w => worker_jobs[v] = NoJob
    BY <1>1, <1>2 DEF TypeOK
  <2>2. v = w => current_job[v] = NoJob
    BY <1>1, <1>2, Distinct DEF TypeOK
  <2> QED
    BY <1>1, <2>1, <2>2 DEF Ordered, Heard
<1> QED
  BY <1>1, <1>3, <1>4
  DEF Ordered, Single, Current, Popped, NothingLate, Active, Sweeps

LEMMA DroppedTyped ==
  ASSUME TypeOK
  PROVE  /\ Dropped \in [Workers -> Jobs \cup {NoJob}]
         /\ \A w \in Workers : \A j \in Jobs :
              [Dropped EXCEPT ![w] = j] \in [Workers -> Jobs \cup {NoJob}]
<1>1. Dropped \in [Workers -> Jobs \cup {NoJob}]
  BY DEF TypeOK, Dropped
<1> QED
  BY <1>1

LEMMA HandOutInOrder ==
  ASSUME Ordered, HandOut PROVE Ordered'
<1>1. /\ Swept /\ phase = "poll" /\ phase \in Sweeps /\ job' = NoJob
      /\ UNCHANGED <<round, mapper, worker_jobs, up, dht, mapped, returned>>
  BY DEF HandOut, Sweeps
<1>2. TypeOK /\ job \in Jobs
  BY <1>1 DEF Ordered, Popped
<1>3. PICK f \in RestoredOrders :
        \/ /\ phase' = "failed" /\ remaining' = Restored(f) \o remaining /\ scheduled' = Dropped
           /\ UNCHANGED <<current_job, threads, faults>>
        \/ /\ phase' = "next" /\ remaining' = <<job>> \o (Restored(f) \o remaining)
           /\ scheduled' = Dropped /\ UNCHANGED <<current_job, threads, faults>>
        \/ /\ Idle(job) # {} /\ remaining' = Restored(f) \o remaining
           /\ \E answered \in BOOLEAN :
                /\ Schedule(Least(Idle(job)), job, answered)
                /\ phase' = IF answered THEN "next" ELSE "failed"
                /\ scheduled' = IF answered THEN [Dropped EXCEPT ![Least(Idle(job))] = job]
                                ELSE Dropped
  BY Zenon DEF HandOut
<1> DEFINE rest == Restored(f) \o remaining
<1>4. rest \in Seq(Jobs) /\ <<job>> \o rest \in Seq(Jobs)
  <2>1. Restored(f) \in Seq(Jobs) /\ remaining \in Seq(Jobs) /\ <<job>> \in Seq(Jobs)
    BY <1>2, RestoredJobs DEF TypeOK
  <2>2. rest \in Seq(Jobs)
    BY <2>1, ConcatProperties
  <2> HIDE DEF rest
  <2> QED
    BY <2>1, <2>2, ConcatProperties
<1>5. remaining' \in Seq(Jobs) /\ phase' \in {"next", "failed"}
  BY <1>3, <1>4
<1>6. \/ UNCHANGED <<current_job, threads, faults>> /\ scheduled' = Dropped
      \/ \E answered \in BOOLEAN :
           /\ Idle(job) # {} /\ Schedule(Least(Idle(job)), job, answered)
           /\ scheduled' \in {Dropped, [Dropped EXCEPT ![Least(Idle(job))] = job]}
  BY <1>3
<1> HIDE DEF rest
<1>7. /\ current_job' \in [Workers -> Jobs \cup {NoJob}]
      /\ threads' \in [Workers -> SUBSET Thread] /\ faults' \in 0 .. MaxFaults
      /\ scheduled' \in [Workers -> Jobs \cup {NoJob}] /\ Single' /\ NothingLate'
  <2>1. CASE UNCHANGED <<current_job, threads, faults>> /\ scheduled' = Dropped
    BY <1>1, <1>2, <1>5, <2>1, DroppedTyped DEF TypeOK, Ordered, Single, NothingLate
  <2>2. ASSUME NEW answered \in BOOLEAN, Idle(job) # {},
               Schedule(Least(Idle(job)), job, answered),
               scheduled' \in {Dropped, [Dropped EXCEPT ![Least(Idle(job))] = job]}
        PROVE  /\ current_job' \in [Workers -> Jobs \cup {NoJob}]
               /\ threads' \in [Workers -> SUBSET Thread] /\ faults' \in 0 .. MaxFaults
               /\ scheduled' \in [Workers -> Jobs \cup {NoJob}] /\ Single' /\ NothingLate'
    <3>1. Least(Idle(job)) \in Workers /\ current_job[Least(Idle(job))] = NoJob
      BY <1>1, <2>2, IdleWorker
    <3>2. /\ current_job' \in [Workers -> Jobs \cup {NoJob}]
          /\ threads' \in [Workers -> SUBSET Thread] /\ faults' \in 0 .. MaxFaults
      BY <1>1, <1>2, <2>2, <3>1, Receives
    <3>3. Single' /\ NothingLate'
      BY <1>1, <1>2, <1>5, <2>2, <3>1, ReceivesInOrder
    <3>4. scheduled' \in [Workers -> Jobs \cup {NoJob}]
      BY <1>2, <2>2, <3>1, DroppedTyped
    <3> QED
      BY <3>2, <3>3, <3>4
  <2> QED
    BY <1>6, <2>1, <2>2
<1>8. TypeOK'
  BY <1>1, <1>2, <1>5, <1>7 DEF TypeOK, Phases
<1> QED
  BY <1>1, <1>5, <1>7, <1>8 DEF Ordered, Heard, Current, Popped, Active, Sweeps

LEMMA AwaitEndsInOrder ==
  ASSUME Ordered, AwaitEnds PROVE Ordered'
<1>1. /\ Swept /\ phase = "await" /\ AllIdle /\ MapperEnds /\ worker_jobs' = Ask
      /\ UNCHANGED <<round, job, up, dht, current_job, threads, returned, faults>>
  BY DEF AwaitEnds, workers
<1>2. TypeOK /\ \A w \in Workers : threads[w] = {}
  BY <1>1, AllQuiet DEF Ordered
<1>3. \/ mapper < NumMappers /\ StartMapper(mapper + 1)
      \/ phase' = "round" /\ UNCHANGED <<mapper, remaining, scheduled, mapped>>
  BY <1>1 DEF MapperEnds
<1>4. /\ mapper' \in 1 .. NumMappers /\ remaining' \in Seq(Jobs) /\ phase' \in {"next", "round"}
      /\ scheduled' \in [Workers -> Jobs \cup {NoJob}] /\ mapped' \subseteq Jobs
  <2>1. mapper < NumMappers => mapper + 1 \in 1 .. NumMappers
    BY <1>2, ConstantAssumptions DEF TypeOK
  <2> QED
    BY <1>2, <1>3, <2>1, StartMapperTyped DEF TypeOK
<1>5. TypeOK'
  BY <1>1, <1>2, <1>4 DEF TypeOK, Phases, Ask
<1> QED
  BY <1>1, <1>2, <1>4, <1>5
  DEF Ordered, Single, Heard, Current, Popped, NothingLate, Active, Sweeps

LEMMA KeepWaitingInOrder ==
  ASSUME Ordered, KeepWaiting PROVE Ordered'
<1>1. /\ phase = "await" /\ phase' = "await" /\ worker_jobs' = Ask
      /\ UNCHANGED <<round, mapper, remaining, mapped, job, scheduled,
                     up, dht, current_job, threads, returned, faults>>
  BY DEF KeepWaiting, Again, workers
<1>2. TypeOK'
  BY <1>1 DEF Ordered, TypeOK, Ask
<1>3. \A w \in Workers : worker_jobs'[w] # NoJob
  BY <1>1, Distinct DEF Ask
<1> QED
  BY <1>1, <1>2, <1>3 DEF Ordered, Single, Heard, Current, Popped, NothingLate, Active

LEMMA RescheduleInOrder ==
  ASSUME Ordered, Reschedule PROVE Ordered'
<1> DEFINE r == Least(Breaks)
           j == scheduled[r]
           without == [scheduled EXCEPT ![r] = NoJob]
<1>1. /\ Swept /\ phase = "await" /\ phase \in Sweeps
      /\ Breaks # {} /\ worker_jobs[r] = Lost /\ UNCHANGED <<job, up, dht, returned>>
  BY DEF Reschedule, Sweeps
<1>2. r \in Breaks /\ r \in Workers
  <2>1. Breaks \subseteq Workers
    BY DEF Breaks
  <2> QED
    BY <1>1, <2>1, LeastIn
<1>3. TypeOK /\ j \in Jobs
  <2>1. TypeOK
    BY DEF Ordered
  <2> QED
    BY <1>1, <1>2, <2>1, Distinct DEF Breaks, TypeOK
<1>4. /\ without \in [Workers -> Jobs \cup {NoJob}]
      /\ \A w \in Workers : [without EXCEPT ![w] = j] \in [Workers -> Jobs \cup {NoJob}]
  <2>1. without \in [Workers -> Jobs \cup {NoJob}]
    BY <1>2, <1>3 DEF TypeOK
  <2> HIDE DEF without, j
  <2> QED
    BY <1>3, <2>1
<1>5. UNCHANGED <<round, mapper, remaining, mapped>> /\ phase' \in {"await", "failed"}
  BY DEF Reschedule, Again
<1>6. worker_jobs' = Ask \/ (phase' = "failed" /\ UNCHANGED worker_jobs)
  BY DEF Reschedule, Again
<1>7. \/ UNCHANGED <<current_job, threads, faults>> /\ scheduled' = without
      \/ \E answered \in BOOLEAN :
           /\ Idle(j) # {} /\ Schedule(Least(Idle(j)), j, answered)
           /\ scheduled' \in {without, [without EXCEPT ![Least(Idle(j))] = j]}
  BY DEF Reschedule
<1> HIDE DEF r, j, without
<1>8. /\ current_job' \in [Workers -> Jobs \cup {NoJob}]
      /\ threads' \in [Workers -> SUBSET Thread] /\ faults' \in 0 .. MaxFaults
      /\ scheduled' \in [Workers -> Jobs \cup {NoJob}] /\ Single' /\ NothingLate'
  <2>1. CASE UNCHANGED <<current_job, threads, faults>> /\ scheduled' = without
    BY <1>1, <1>3, <1>4, <1>5, <2>1 DEF TypeOK, Ordered, Single, NothingLate
  <2>2. ASSUME NEW answered \in BOOLEAN, Idle(j) # {}, Schedule(Least(Idle(j)), j, answered),
               scheduled' \in {without, [without EXCEPT ![Least(Idle(j))] = j]}
        PROVE  /\ current_job' \in [Workers -> Jobs \cup {NoJob}]
               /\ threads' \in [Workers -> SUBSET Thread] /\ faults' \in 0 .. MaxFaults
               /\ scheduled' \in [Workers -> Jobs \cup {NoJob}] /\ Single' /\ NothingLate'
    <3>1. Least(Idle(j)) \in Workers /\ current_job[Least(Idle(j))] = NoJob
      BY <1>1, <2>2, IdleWorker
    <3>2. /\ current_job' \in [Workers -> Jobs \cup {NoJob}]
          /\ threads' \in [Workers -> SUBSET Thread] /\ faults' \in 0 .. MaxFaults
      BY <1>1, <1>3, <2>2, <3>1, Receives
    <3>3. Single' /\ NothingLate'
      BY <1>1, <1>3, <1>5, <2>2, <3>1, ReceivesInOrder
    <3>4. scheduled' \in [Workers -> Jobs \cup {NoJob}]
      BY <1>4, <2>2, <3>1
    <3> QED
      BY <3>2, <3>3, <3>4
  <2> QED
    BY <1>7, <2>1, <2>2
<1>9. TypeOK'
  <2>1. worker_jobs' \in [Workers -> Jobs \cup {NoJob, Lost, Unasked}]
    BY <1>3, <1>6 DEF TypeOK, Ask
  <2> QED
    BY <1>1, <1>3, <1>5, <1>8, <2>1 DEF TypeOK, Phases, Sweeps
<1>10. Heard'
  BY <1>5, <1>6, Distinct DEF Heard, Ask, Sweeps
<1> QED
  BY <1>1, <1>5, <1>8, <1>9, <1>10 DEF Ordered, Current, Popped, Active

LEMMA OrderedNext == Ordered /\ [Next]_vars => Ordered'
<1> SUFFICES ASSUME Ordered, [Next]_vars PROVE Ordered'
  OBVIOUS
<1>1. CASE Finished
  <2>1. /\ phase' = "done" /\ phase = "round"
        /\ UNCHANGED <<round, mapper, remaining, job, scheduled, worker_jobs,
                       up, dht, current_job, threads, mapped, returned, faults>>
    BY <1>1 DEF Finished, workers
  <2>2. TypeOK'
    BY <2>1 DEF Ordered, TypeOK, Phases
  <2> QED
    BY <2>1, <2>2 DEF Ordered, Single, Heard, Current, Popped, NothingLate, Active, Sweeps
<1>2. CASE UNCHANGED vars
  <2>1. UNCHANGED <<phase, round, mapper, remaining, job, scheduled, worker_jobs,
                    up, dht, current_job, threads, mapped, returned, faults>>
    BY <1>2 DEF vars, coordinator, workers
  <2>2. TypeOK'
    BY <2>1 DEF Ordered, TypeOK
  <2> QED
    BY <2>1, <2>2 DEF Ordered, Single, Heard, Current, Popped, NothingLate
<1>3. CASE Run
  BY <1>1, <1>3, StartRoundInOrder, SetupFailsInOrder, PopJobInOrder, HandOutInOrder,
     AwaitEndsInOrder, KeepWaitingInOrder, RescheduleInOrder, CurrentJobInOrder DEF Run
<1>4. CASE \E w \in Workers : MapEnds(w) \/ Crash(w) \/ Restart(w)
  BY <1>4, MapEndsInOrder, CrashInOrder, RestartInOrder
<1> QED
  BY <1>2, <1>3, <1>4 DEF Next, Stopped

LEMMA OrderedAlways == Spec => []Ordered
<1> QED
  BY InitOrdered, OrderedNext, PTL DEF Spec

(* The program keeps the types of its variables. *)
THEOREM Typed == Spec => []TypeOK
<1>1. Ordered => TypeOK
  BY DEF Ordered
<1> QED
  BY <1>1, OrderedAlways, PTL

(* Nothing runs between mappers, and what runs belongs to this mapper. *)
THEOREM NothingRunsLate == Spec => []NothingLate
<1>1. Ordered => NothingLate
  BY DEF Ordered
<1> QED
  BY <1>1, OrderedAlways, PTL

(* A worker never runs two maps. *)
THEOREM OneMapEach == Spec => []OneMapAtATime
<1>1. Ordered => OneMapAtATime
  <2> SUFFICES ASSUME Ordered, NEW w \in Workers PROVE Cardinality(threads[w]) <= 1
    BY DEF OneMapAtATime
  <2>1. threads[w] = {} \/ \E t : threads[w] = {t}
    BY DEF Ordered, Single
  <2>2. \A t : Cardinality({t}) = 1
    BY FS_Singleton
  <2>3. Cardinality({}) = 0
    BY FS_EmptySet
  <2> QED
    BY <2>1, <2>2, <2>3
<1> QED
  BY <1>1, OrderedAlways, PTL

-----------------------------------------------------------------------------
(* No job is lost, as long as a worker that died stays away in the round:  *)
(* a job is in the queue, or in the hands of the coordinator, or mapped,   *)
(* or a worker maps it.  A worker that died may have taken jobs with it;   *)
(* then it does not answer, and await_scheduled_jobs does not end.  One    *)
(* that died after it answered in this sweep that it has no job took none. *)

Elems(s) == {s[i] : i \in DOMAIN s}

Kept(j) ==
  \/ j \in Elems(remaining) \/ (phase = "poll" /\ job = j) \/ j \in mapped
  \/ \E w \in Workers : \E t \in threads[w] : t.job = j

Away(w) == ~up[w] /\ (phase \in Sweeps => worker_jobs[w] # NoJob)

NoneLost ==
  phase \in Active /\ returned = {}
    => (\A j \in Jobs : Kept(j)) \/ \E w \in Workers : Away(w)

(* A live worker has the DHT, so that its maps do not panic. *)
Equipped ==
  \A w \in Workers :
    phase \in Active /\ returned = {} /\ up[w] => dht[w] = round /\ round # 0

Emptied == phase = "await" => remaining = <<>>

RoundMapped == phase = "round" /\ round > 0 /\ returned = {} => Jobs \subseteq mapped

Accounted == NoneLost /\ Equipped /\ Emptied /\ RoundMapped

LEMMA ElemsOfTail ==
  ASSUME NEW S, NEW s \in Seq(S), s # <<>>
  PROVE  Elems(s) \subseteq {Head(s)} \cup Elems(Tail(s))
<1> SUFFICES ASSUME NEW i \in DOMAIN s, s[i] # Head(s) PROVE s[i] \in Elems(Tail(s))
  BY DEF Elems
<1>1. /\ DOMAIN s = 1 .. Len(s) /\ Head(s) = s[1] /\ Len(s) \in Nat
      /\ Tail(s) \in Seq(S) /\ DOMAIN Tail(s) = 1 .. Len(s) - 1
      /\ \A k \in 1 .. Len(s) - 1 : Tail(s)[k] = s[k + 1]
  <2>1. Tail(s) \in Seq(S) /\ Len(Tail(s)) = Len(s) - 1
        /\ \A k \in 1 .. Len(Tail(s)) : Tail(s)[k] = s[k + 1]
    BY HeadTailProperties
  <2> QED
    BY <2>1
<1>2. i - 1 \in 1 .. Len(s) - 1 /\ (i - 1) + 1 = i
  BY <1>1
<1>3. Tail(s)[i - 1] = s[i] /\ i - 1 \in DOMAIN Tail(s)
  BY <1>1, <1>2
<1> QED
  BY <1>3 DEF Elems

LEMMA ElemsOfConcat ==
  ASSUME NEW S, NEW s \in Seq(S), NEW u \in Seq(S)
  PROVE  Elems(s) \subseteq Elems(s \o u) /\ Elems(u) \subseteq Elems(s \o u)
<1>1. /\ DOMAIN s = 1 .. Len(s) /\ DOMAIN u = 1 .. Len(u) /\ Len(s) \in Nat /\ Len(u) \in Nat
      /\ DOMAIN (s \o u) = 1 .. Len(s) + Len(u)
      /\ \A i \in 1 .. Len(s) + Len(u) :
           (s \o u)[i] = IF i <= Len(s) THEN s[i] ELSE u[i - Len(s)]
  <2>1. s \o u \in Seq(S) /\ Len(s \o u) = Len(s) + Len(u)
    BY ConcatProperties
  <2>2. \A i \in 1 .. Len(s) + Len(u) :
          (s \o u)[i] = IF i <= Len(s) THEN s[i] ELSE u[i - Len(s)]
    BY ConcatProperties
  <2> QED
    BY <2>1, <2>2
<1>2. ASSUME NEW i \in DOMAIN s PROVE s[i] \in Elems(s \o u)
  <2>1. i \in DOMAIN (s \o u) /\ (s \o u)[i] = s[i]
    BY <1>1
  <2> QED
    BY <2>1 DEF Elems
<1>3. ASSUME NEW i \in DOMAIN u PROVE u[i] \in Elems(s \o u)
  <2>1. Len(s) + i \in DOMAIN (s \o u) /\ ~(Len(s) + i <= Len(s)) /\ (Len(s) + i) - Len(s) = i
    BY <1>1
  <2>2. (s \o u)[Len(s) + i] = u[i]
    BY <1>1, <2>1
  <2> QED
    BY <2>1, <2>2 DEF Elems
<1> QED
  BY <1>2, <1>3 DEF Elems

(* Nothing is claimed of a round in which a worker came back. *)
LEMMA AfterReturn ==
  ASSUME returned' # {}, Emptied' PROVE Accounted'
BY DEF Accounted, NoneLost, Equipped, RoundMapped

LEMMA InitAccounted == Init => Accounted
BY DEF Init, Accounted, NoneLost, Equipped, Emptied, RoundMapped, Active

LEMMA MapEndsAccounted ==
  ASSUME Ordered, Accounted, NEW w \in Workers, MapEnds(w) PROVE Accounted'
<1>1. PICK t \in threads[w] :
        /\ threads' = [threads EXCEPT ![w] = @ \ {t}]
        /\ mapped' = IF t.round = round /\ t.mapper = mapper THEN mapped \cup {t.job} ELSE mapped
  BY DEF MapEnds
<1>2. UNCHANGED <<phase, round, remaining, job, worker_jobs, up, dht, returned>>
  BY DEF MapEnds, coordinator
<1>3. mapped' = mapped \cup {t.job} /\ threads \in [Workers -> SUBSET Thread]
  BY <1>1 DEF Ordered, NothingLate, TypeOK
<1>4. ASSUME NEW j, Kept(j) PROVE Kept(j)'
  BY <1>1, <1>2, <1>3, <1>4 DEF Kept
<1>5. NoneLost'
  BY <1>2, <1>4 DEF Accounted, NoneLost, Away
<1> QED
  BY <1>2, <1>3, <1>5 DEF Accounted, Equipped, Emptied, RoundMapped

LEMMA CrashAccounted ==
  ASSUME Ordered, Accounted, NEW w \in Workers, Crash(w) PROVE Accounted'
<1>1. /\ UNCHANGED <<phase, round, remaining, job, worker_jobs, mapped, returned>>
      /\ up' = [up EXCEPT ![w] = FALSE] /\ dht' = [dht EXCEPT ![w] = 0]
      /\ threads' = [threads EXCEPT ![w] = {}]
  BY DEF Crash, coordinator
<1>2. TypeOK
  BY DEF Ordered
<1>3. \A v \in Workers :
        IF v = w THEN threads'[v] = {} /\ ~up'[v]
        ELSE threads'[v] = threads[v] /\ up'[v] = up[v] /\ dht'[v] = dht[v]
  BY <1>1, <1>2 DEF TypeOK
<1>4. Equipped'
  BY <1>1, <1>3 DEF Accounted, Equipped
<1>5. NoneLost'
  <2> SUFFICES ASSUME phase \in Active, returned = {}, \A v \in Workers : ~Away(v)'
               PROVE  \A j \in Jobs : Kept(j)'
    BY <1>1 DEF NoneLost
  <2>1. phase \in Sweeps /\ worker_jobs[w] = NoJob
    BY <1>1, <1>3 DEF Away
  <2>2. threads[w] = {}
    BY <2>1 DEF Ordered, Heard, Single
  <2>3. \A v \in Workers : ~Away(v)
    BY <1>1, <1>3 DEF Away
  <2>4. \A v \in Workers : threads'[v] = threads[v]
    BY <1>3, <2>2
  <2> QED
    BY <1>1, <2>3, <2>4 DEF Accounted, NoneLost, Kept
<1> QED
  BY <1>1, <1>4, <1>5 DEF Accounted, Emptied, RoundMapped

(* A mapper starts with all jobs in the queue. *)
LEMMA StartMapperAccounted ==
  ASSUME TypeOK, NEW m, StartMapper(m)
  PROVE  \A j \in Jobs : j \in Elems(remaining')
BY JobsInList DEF StartMapper, Elems

LEMMA StartRoundAccounted ==
  ASSUME Ordered, Accounted, StartRound PROVE Accounted'
<1>1. /\ phase' = "next" /\ round' = round + 1
      /\ dht' = [w \in Workers |-> round + 1] /\ StartMapper(1) /\ TypeOK
  BY DEF StartRound, StartMapper, Ordered
<1>2. \A j \in Jobs : j \in Elems(remaining')
  BY <1>1, StartMapperAccounted
<1>3. NoneLost'
  BY <1>2 DEF NoneLost, Kept
<1>4. Equipped'
  <2>1. round + 1 # 0
    BY <1>1, ConstantAssumptions DEF TypeOK
  <2> QED
    BY <1>1, <2>1 DEF Equipped
<1> QED
  BY <1>1, <1>3, <1>4 DEF Accounted, Emptied, RoundMapped

LEMMA PopJobAccounted ==
  ASSUME Ordered, Accounted, PopJob PROVE Accounted'
<1>1. /\ phase = "next" /\ worker_jobs' = Ask
      /\ UNCHANGED <<round, up, dht, threads, mapped, returned>>
      /\ \/ remaining = <<>> /\ phase' = "await" /\ UNCHANGED <<remaining, job>>
         \/ remaining # <<>> /\ phase' = "poll" /\ job' = Head(remaining)
              /\ remaining' = Tail(remaining)
  BY DEF PopJob, workers
<1>2. remaining # <<>> => Elems(remaining) \subseteq {Head(remaining)} \cup Elems(Tail(remaining))
  BY ElemsOfTail DEF Ordered, TypeOK
<1>3. ASSUME NEW j, Kept(j) PROVE Kept(j)'
  BY <1>1, <1>2, <1>3 DEF Kept
<1>4. ASSUME NEW w \in Workers, Away(w) PROVE Away(w)'
  BY <1>1, <1>4, Distinct DEF Away, Ask
<1>5. NoneLost'
  BY <1>1, <1>3, <1>4 DEF Accounted, NoneLost, Active
<1> QED
  BY <1>1, <1>5 DEF Accounted, Equipped, Emptied, RoundMapped, Active

LEMMA CurrentJobAccounted ==
  ASSUME Ordered, Accounted, NEW w \in Workers, CurrentJob(w) PROVE Accounted'
<1>1. /\ UNCHANGED <<phase, round, remaining, job, up, dht, threads, mapped, returned>>
      /\ \/ up[w] /\ worker_jobs' = [worker_jobs EXCEPT ![w] = current_job[w]]
         \/ worker_jobs' = [worker_jobs EXCEPT ![w] = Lost]
  BY DEF CurrentJob, workers
<1>2. worker_jobs \in [Workers -> Jobs \cup {NoJob, Lost, Unasked}]
  BY DEF Ordered, TypeOK
<1>3. ASSUME NEW v \in Workers, Away(v) PROVE Away(v)'
  BY <1>1, <1>2, <1>3, Distinct DEF Away
<1>4. ASSUME NEW j, Kept(j) PROVE Kept(j)'
  BY <1>1, <1>4 DEF Kept
<1>5. NoneLost'
  BY <1>1, <1>3, <1>4 DEF Accounted, NoneLost
<1> QED
  BY <1>1, <1>5 DEF Accounted, Equipped, Emptied, RoundMapped

(* An idle worker that answers runs the job it is given. *)
LEMMA Answered ==
  ASSUME Ordered, Accounted, phase \in Sweeps, returned = {}, NEW w \in Workers, NEW j \in Jobs,
         Schedule(w, j, TRUE)
  PROVE  /\ \A v \in Workers : threads[v] \subseteq threads'[v]
         /\ \E t \in threads'[w] : t.job = j
<1> DEFINE t == [round |-> dht[w], mapper |-> mapper, job |-> j]
<1>1. up[w] /\ Receive(w, j)
  BY DEF Schedule
<1>2. dht[w] = round /\ round # 0
  BY <1>1 DEF Accounted, Equipped, Active, Sweeps
<1>3. threads \in [Workers -> SUBSET Thread]
  BY DEF Ordered, TypeOK
<1>4. threads' = [threads EXCEPT ![w] = @ \cup {t}]
  BY <1>1, <1>2 DEF Receive
<1>5. t.job = j
  OBVIOUS
<1> HIDE DEF t
<1> QED
  BY <1>3, <1>4, <1>5

LEMMA HandOutAccounted ==
  ASSUME Ordered, Accounted, HandOut PROVE Accounted'
<1>1. /\ Swept /\ phase = "poll" /\ phase \in Sweeps
      /\ UNCHANGED <<round, up, dht, mapped, returned>>
  BY DEF HandOut, Sweeps
<1>2. TypeOK /\ job \in Jobs
  BY <1>1 DEF Ordered, Popped
<1>3. PICK f \in RestoredOrders :
        \/ phase' = "failed"
        \/ /\ phase' = "next" /\ remaining' = <<job>> \o (Restored(f) \o remaining)
           /\ UNCHANGED threads
        \/ /\ phase' = "next" /\ remaining' = Restored(f) \o remaining
           /\ Idle(job) # {} /\ Schedule(Least(Idle(job)), job, TRUE)
  <2>1. PICK f \in RestoredOrders :
        \/ /\ phase' = "failed" /\ remaining' = Restored(f) \o remaining /\ scheduled' = Dropped
           /\ UNCHANGED <<current_job, threads, faults>>
        \/ /\ phase' = "next" /\ remaining' = <<job>> \o (Restored(f) \o remaining)
           /\ scheduled' = Dropped /\ UNCHANGED <<current_job, threads, faults>>
        \/ /\ Idle(job) # {} /\ remaining' = Restored(f) \o remaining
           /\ \E answered \in BOOLEAN :
                /\ Schedule(Least(Idle(job)), job, answered)
                /\ phase' = IF answered THEN "next" ELSE "failed"
                /\ scheduled' = IF answered THEN [Dropped EXCEPT ![Least(Idle(job))] = job]
                                ELSE Dropped
    BY Zenon DEF HandOut
  <2> QED
    BY <2>1
<1> DEFINE rest == Restored(f) \o remaining
<1>4. /\ Elems(remaining) \subseteq Elems(rest)
      /\ Elems(rest) \subseteq Elems(<<job>> \o rest) /\ job \in Elems(<<job>> \o rest)
  <2>1. Restored(f) \in Seq(Jobs) /\ remaining \in Seq(Jobs) /\ <<job>> \in Seq(Jobs)
    BY <1>2, RestoredJobs DEF TypeOK
  <2>2. rest \in Seq(Jobs) /\ Elems(remaining) \subseteq Elems(rest)
    BY <2>1, ConcatProperties, ElemsOfConcat
  <2>3. job \in Elems(<<job>>)
    BY DEF Elems
  <2> HIDE DEF rest
  <2>4. Elems(<<job>>) \subseteq Elems(<<job>> \o rest) /\ Elems(rest) \subseteq Elems(<<job>> \o rest)
    BY <2>1, <2>2, ElemsOfConcat
  <2> QED
    BY <2>2, <2>3, <2>4
<1> HIDE DEF rest
<1>5. CASE phase' = "failed"
  BY <1>5 DEF Accounted, NoneLost, Equipped, Emptied, RoundMapped, Active
<1>6. ASSUME phase' = "next",
             \A v \in Workers : threads[v] \subseteq threads'[v],
             Elems(remaining) \subseteq Elems(remaining'),
             job \in Elems(remaining') \/ \E w \in Workers : \E t \in threads'[w] : t.job = job
      PROVE  Accounted'
  <2>1. ASSUME NEW j, Kept(j) PROVE Kept(j)'
    BY <1>1, <1>6, <2>1 DEF Kept
  <2>2. ASSUME NEW w \in Workers, Away(w) PROVE Away(w)'
    BY <1>1, <1>6, <2>2 DEF Away, Sweeps
  <2>3. NoneLost'
    BY <1>1, <2>1, <2>2 DEF Accounted, NoneLost, Active
  <2> QED
    BY <1>1, <1>6, <2>3 DEF Accounted, Equipped, Emptied, RoundMapped, Active
<1>7. CASE phase' = "next" /\ remaining' = <<job>> \o rest /\ UNCHANGED threads
  BY <1>4, <1>6, <1>7
<1>8. CASE /\ phase' = "next" /\ remaining' = rest /\ returned = {}
           /\ Idle(job) # {} /\ Schedule(Least(Idle(job)), job, TRUE)
  <2>1. Least(Idle(job)) \in Workers
    BY <1>1, <1>8, IdleWorker
  <2>2. /\ \A v \in Workers : threads[v] \subseteq threads'[v]
        /\ \E w \in Workers : \E t \in threads'[w] : t.job = job
    BY <1>1, <1>2, <1>8, <2>1, Answered
  <2> QED
    BY <1>4, <1>6, <1>8, <2>2
<1>9. CASE phase' = "next" /\ returned # {}
  BY <1>1, <1>9, AfterReturn DEF Emptied
<1> QED
  BY <1>3, <1>5, <1>7, <1>8, <1>9 DEF rest

(* A mapper ends only when all jobs are mapped. *)
LEMMA MappedAtEnd ==
  ASSUME Ordered, Accounted, AwaitEnds, returned = {}
  PROVE  Jobs \subseteq mapped
<1>1. Swept /\ phase = "await" /\ AllIdle
  BY DEF AwaitEnds
<1>2. \A w \in Workers : threads[w] = {} /\ ~Away(w)
  BY <1>1, AllQuiet DEF Away, AllIdle, Sweeps
<1>3. Elems(remaining) = {}
  BY <1>1 DEF Accounted, Emptied, Elems
<1> QED
  BY <1>1, <1>2, <1>3 DEF Accounted, NoneLost, Kept, Active

LEMMA AwaitEndsAccounted ==
  ASSUME Ordered, Accounted, AwaitEnds PROVE Accounted'
<1>1. /\ phase = "await" /\ MapperEnds /\ UNCHANGED <<round, up, dht, returned>> /\ TypeOK
  BY DEF AwaitEnds, workers, Ordered
<1>2. \/ StartMapper(mapper + 1) /\ phase' = "next"
      \/ phase' = "round" /\ UNCHANGED mapped
  BY <1>1 DEF MapperEnds, StartMapper
<1>3. CASE StartMapper(mapper + 1) /\ phase' = "next"
  <2>1. NoneLost'
    BY <1>1, <1>3, StartMapperAccounted DEF NoneLost, Kept
  <2> QED
    BY <1>1, <1>3, <2>1 DEF Accounted, Equipped, Emptied, RoundMapped, Active
<1>4. CASE phase' = "round" /\ UNCHANGED mapped
  BY <1>1, <1>4, MappedAtEnd
  DEF Accounted, NoneLost, Equipped, Emptied, RoundMapped, Active
<1> QED
  BY <1>2, <1>3, <1>4

LEMMA KeepWaitingAccounted ==
  ASSUME Ordered, Accounted, KeepWaiting PROVE Accounted'
<1>1. /\ phase' = phase /\ worker_jobs' = Ask /\ phase = "await"
      /\ UNCHANGED <<round, remaining, mapped, job, up, dht, threads, returned>>
  BY DEF KeepWaiting, Again, workers
<1>2. \A w \in Workers : Away(w) => Away(w)'
  BY <1>1, Distinct DEF Away, Ask
<1>3. \A j : Kept(j) => Kept(j)'
  BY <1>1 DEF Kept
<1>4. NoneLost'
  BY <1>1, <1>2, <1>3 DEF Accounted, NoneLost
<1> QED
  BY <1>1, <1>4 DEF Accounted, Equipped, Emptied, RoundMapped

LEMMA RescheduleAccounted ==
  ASSUME Ordered, Accounted, Reschedule PROVE Accounted'
<1> DEFINE r == Least(Breaks)
           j == scheduled[r]
<1>1. /\ Swept /\ phase = "await" /\ phase \in Sweeps
      /\ Breaks # {} /\ worker_jobs[r] = Lost /\ UNCHANGED <<job, up, dht, returned>>
  BY DEF Reschedule, Sweeps
<1>2. j \in Jobs
  <2>1. Breaks \subseteq Workers /\ TypeOK
    BY DEF Breaks, Ordered
  <2>2. r \in Breaks
    BY <1>1, <2>1, LeastIn
  <2> QED
    BY <1>1, <2>1, <2>2, Distinct DEF Breaks, TypeOK
<1>3. \/ phase' = "failed"
      \/ /\ phase' = "await" /\ worker_jobs' = Ask /\ UNCHANGED <<round, remaining, mapped>>
         /\ UNCHANGED threads \/ (Idle(j) # {} /\ Schedule(Least(Idle(j)), j, TRUE))
  BY DEF Reschedule, Again, workers
<1> HIDE DEF r, j
<1>4. CASE phase' = "failed"
  BY <1>4 DEF Accounted, NoneLost, Equipped, Emptied, RoundMapped, Active
<1>5. CASE /\ phase' = "await" /\ worker_jobs' = Ask /\ UNCHANGED <<round, remaining, mapped>>
           /\ returned = {}
           /\ UNCHANGED threads \/ (Idle(j) # {} /\ Schedule(Least(Idle(j)), j, TRUE))
  <2>1. \A v \in Workers : threads[v] \subseteq threads'[v]
    BY <1>1, <1>2, <1>5, IdleWorker, Answered
  <2>2. \A w \in Workers : Away(w) => Away(w)'
    BY <1>1, <1>5, Distinct DEF Away, Ask
  <2>3. \A k : Kept(k) => Kept(k)'
    BY <1>1, <1>5, <2>1 DEF Kept
  <2>4. NoneLost'
    BY <1>1, <2>2, <2>3 DEF Accounted, NoneLost, Active
  <2> QED
    BY <1>1, <1>5, <2>4 DEF Accounted, Equipped, Emptied, RoundMapped, Active
<1>6. CASE phase' = "await" /\ returned # {} /\ UNCHANGED remaining
  BY <1>1, <1>6, AfterReturn DEF Accounted, Emptied
<1> QED
  BY <1>3, <1>4, <1>5, <1>6

LEMMA AccountedNext == Ordered /\ Accounted /\ [Next]_vars => Accounted'
<1> SUFFICES ASSUME Ordered, Accounted, [Next]_vars PROVE Accounted'
  OBVIOUS
<1>1. CASE Finished
  BY <1>1 DEF Finished, Accounted, NoneLost, Equipped, Emptied, RoundMapped, Active
<1>2. CASE SetupFails
  BY <1>2 DEF SetupFails, Accounted, NoneLost, Equipped, Emptied, RoundMapped, Active
<1>3. CASE UNCHANGED vars
  <2>1. UNCHANGED <<phase, round, remaining, job, worker_jobs, up, dht, threads, mapped, returned>>
    BY <1>3 DEF vars, coordinator, workers
  <2> QED
    BY <2>1 DEF Accounted, NoneLost, Equipped, Emptied, RoundMapped, Kept, Away
<1>4. CASE Run
  BY <1>1, <1>2, <1>4, StartRoundAccounted, PopJobAccounted, HandOutAccounted,
     AwaitEndsAccounted, KeepWaitingAccounted, RescheduleAccounted, CurrentJobAccounted DEF Run
<1>5. CASE \E w \in Workers : MapEnds(w) \/ Crash(w) \/ Restart(w)
  <2>1. ASSUME NEW w \in Workers, Restart(w) PROVE Accounted'
    <3>1. returned' # {} /\ UNCHANGED <<phase, remaining>>
      BY <2>1 DEF Restart, coordinator
    <3> QED
      BY <3>1 DEF Accounted, NoneLost, Equipped, Emptied, RoundMapped
  <2> QED
    BY <1>5, <2>1, MapEndsAccounted, CrashAccounted
<1> QED
  BY <1>3, <1>4, <1>5 DEF Next, Stopped

(* The place where the mapper or the round changes: all jobs are mapped. *)
LEMMA StepMapsJobs ==
  ASSUME Ordered, Accounted, [Next]_vars
  PROVE  [<<round, mapper>>' # <<round, mapper>> /\ round > 0 /\ returned = {}
            => Jobs \subseteq mapped]_vars
<1> SUFFICES ASSUME Next, <<round, mapper>>' # <<round, mapper>>, round > 0, returned = {}
             PROVE  Jobs \subseteq mapped
  OBVIOUS
<1>1. StartRound \/ AwaitEnds
  BY DEF Next, Run, Stopped, Finished, SetupFails, PopJob, HandOut, KeepWaiting, Reschedule,
         Again, CurrentJob, MapEnds, Crash, Restart, vars, coordinator
<1>2. CASE StartRound
  BY <1>2 DEF StartRound, Accounted, RoundMapped
<1> QED
  BY <1>1, <1>2, MappedAtEnd

(* A mapper ends only when it has mapped every job, whatever answers are   *)
(* lost, whichever workers die, unless one of those that died comes back   *)
(* in the same round.                                                      *)
THEOREM MapsEveryJob == Spec => EveryJobMapped
<1>1. Spec => []Accounted
  BY InitAccounted, AccountedNext, OrderedAlways, PTL DEF Spec
<1>2. Ordered /\ Accounted /\ [Next]_vars
        => [<<round, mapper>>' # <<round, mapper>> /\ round > 0 /\ returned = {}
            => Jobs \subseteq mapped]_vars
  BY StepMapsJobs
<1> QED
  BY <1>1, <1>2, OrderedAlways, PTL DEF Spec, EveryJobMapped

-----------------------------------------------------------------------------
(* Without a fault no worker is missed, and a job is in one place at a     *)
(* time: in the queue, in the hands of the coordinator, at one worker, or  *)
(* mapped.                                                                 *)

Unharmed ==
  /\ \A w \in Workers : up[w] /\ worker_jobs[w] # Lost
  /\ phase # "poll" => job = NoJob
  /\ \A i, k \in DOMAIN remaining : remaining[i] = remaining[k] => i = k
  /\ job \notin Elems(remaining)
  /\ mapped \cap (Elems(remaining) \cup {job}) = {}
  /\ \A w \in Workers : \A t \in threads[w] :
       /\ t.job \notin mapped \cup Elems(remaining) \cup {job}
       /\ \A v \in Workers \ {w} : \A s \in threads[v] : s.job # t.job

FaultFree == faults = 0 => Unharmed

LEMMA StartMapperUnharmed ==
  ASSUME NEW m, StartMapper(m), \A w \in Workers : threads'[w] = {},
         \A w \in Workers : up'[w] /\ worker_jobs'[w] # Lost, job' = NoJob
  PROVE  Unharmed'
<1>1. remaining' = JobList /\ mapped' = {} /\ phase' = "next"
  BY DEF StartMapper
<1> QED
  BY <1>1, JobsInList, Distinct DEF Unharmed, Elems

LEMMA StartRoundUnharmed ==
  ASSUME Ordered, Unharmed, StartRound PROVE Unharmed'
<1>1. phase = "round" /\ StartMapper(1) /\ UNCHANGED <<job, worker_jobs, up, threads>>
  BY DEF StartRound
<1>2. \A w \in Workers : threads[w] = {}
  BY <1>1 DEF Ordered, NothingLate, Single
<1>3. job = NoJob /\ \A w \in Workers : up[w] /\ worker_jobs[w] # Lost
  BY <1>1 DEF Unharmed
<1> QED
  BY <1>1, <1>2, <1>3, StartMapperUnharmed

LEMMA AwaitEndsUnharmed ==
  ASSUME Ordered, Unharmed, AwaitEnds PROVE Unharmed'
<1>1. /\ Swept /\ phase = "await" /\ AllIdle /\ MapperEnds /\ worker_jobs' = Ask
      /\ UNCHANGED <<job, up, threads>>
  BY DEF AwaitEnds, workers
<1>2. \A w \in Workers : threads[w] = {}
  BY <1>1, AllQuiet
<1>3. job = NoJob /\ \A w \in Workers : up'[w] /\ worker_jobs'[w] # Lost
  BY <1>1, Distinct DEF Unharmed, Ask
<1>4. CASE StartMapper(mapper + 1)
  BY <1>1, <1>2, <1>3, <1>4, StartMapperUnharmed
<1>5. CASE phase' = "round" /\ UNCHANGED <<mapper, remaining, scheduled, mapped>>
  BY <1>1, <1>3, <1>5 DEF Unharmed
<1> QED
  BY <1>1, <1>4, <1>5 DEF MapperEnds

LEMMA PopJobUnharmed ==
  ASSUME Ordered, Unharmed, PopJob PROVE Unharmed'
<1>1. /\ phase = "next" /\ worker_jobs' = Ask
      /\ UNCHANGED <<up, threads, mapped>>
      /\ \/ phase' = "await" /\ UNCHANGED <<remaining, job>>
         \/ remaining # <<>> /\ phase' = "poll" /\ job' = Head(remaining)
              /\ remaining' = Tail(remaining)
  BY DEF PopJob, workers
<1>2. \A w \in Workers : up'[w] /\ worker_jobs'[w] # Lost
  BY <1>1, Distinct DEF Unharmed, Ask
<1>3. CASE phase' = "await" /\ UNCHANGED <<remaining, job>>
  BY <1>1, <1>2, <1>3 DEF Unharmed
<1>4. CASE /\ remaining # <<>> /\ phase' = "poll" /\ job' = Head(remaining)
           /\ remaining' = Tail(remaining)
  <2> DEFINE s == remaining
             n == Len(s)
  <2>1. /\ n \in Nat \ {0} /\ DOMAIN s = 1 .. n /\ Head(s) = s[1]
        /\ DOMAIN Tail(s) = 1 .. n - 1 /\ \A k \in 1 .. n - 1 : Tail(s)[k] = s[k + 1]
    <3>1. s \in Seq(Jobs)
      BY DEF Ordered, TypeOK
    <3>2. Tail(s) \in Seq(Jobs) /\ Len(Tail(s)) = Len(s) - 1
          /\ \A k \in 1 .. Len(Tail(s)) : Tail(s)[k] = s[k + 1]
      BY <1>4, <3>1, HeadTailProperties
    <3>3. Len(s) # 0 /\ Len(s) \in Nat /\ DOMAIN s = 1 .. Len(s)
      BY <1>4, <3>1, EmptySeq
    <3> QED
      BY <3>1, <3>2, <3>3
  <2>2. \A k \in 1 .. n - 1 : k + 1 \in DOMAIN s /\ k + 1 # 1
    BY <2>1
  <2>3. Elems(Tail(s)) \subseteq Elems(s) /\ Head(s) \in Elems(s)
    <3>1. \A k \in 1 .. n - 1 : Tail(s)[k] \in Elems(s)
      BY <2>1, <2>2 DEF Elems
    <3> QED
      BY <2>1, <3>1 DEF Elems
  <2>4. Head(s) \notin Elems(Tail(s))
    <3> SUFFICES ASSUME NEW k \in 1 .. n - 1, s[k + 1] = s[1] PROVE FALSE
      BY <2>1 DEF Elems
    <3> QED
      BY <2>1, <2>2 DEF Unharmed
  <2>5. ASSUME NEW i \in 1 .. n - 1, NEW k \in 1 .. n - 1, Tail(s)[i] = Tail(s)[k]
        PROVE  i = k
    <3>1. i + 1 = k + 1
      BY <2>1, <2>2, <2>5 DEF Unharmed
    <3> QED
      BY <3>1
  <2> HIDE DEF n
  <2>6. \A i, k \in DOMAIN remaining' : remaining'[i] = remaining'[k] => i = k
    BY <1>4, <2>1, <2>5
  <2> QED
    BY <1>1, <1>2, <1>4, <2>3, <2>4, <2>6 DEF Unharmed
<1> QED
  BY <1>1, <1>3, <1>4

(* Nothing is restored to the queue. *)
LEMMA NothingRestored ==
  ASSUME TypeOK, Unharmed, NEW f \in RestoredOrders
  PROVE  Restored(f) \o remaining = remaining
<1>1. Owners = {}
  BY DEF Owners, Failed, Unharmed
<1>2. Cardinality(Owners) = 0
  BY <1>1, FS_EmptySet
<1>3. DOMAIN f = 1 .. 0
  BY <1>2 DEF RestoredOrders
<1>4. Restored(f) = <<>>
  <2>1. Restored(f) \in Seq(Jobs) /\ DOMAIN Restored(f) = 1 .. 0
    BY <1>3, RestoredJobs DEF Restored
  <2> QED
    BY <2>1, EmptySeq
<1> QED
  BY <1>4, ConcatEmptySeq DEF TypeOK

(* A worker is given a job that is nowhere else. *)
LEMMA ReceiveUnharmed ==
  ASSUME Ordered, Unharmed, phase \in Sweeps, NEW w \in Workers, NEW j \in Jobs,
         NEW answered \in BOOLEAN, Schedule(w, j, answered), current_job[w] = NoJob,
         UNCHANGED <<mapped, up>>, phase' # "poll", job' = NoJob,
         \A v \in Workers : worker_jobs'[v] # Lost,
         \A i, k \in DOMAIN remaining' : remaining'[i] = remaining'[k] => i = k,
         Elems(remaining') \subseteq Elems(remaining),
         j \notin Elems(remaining') \cup mapped,
         \A v \in Workers : \A s \in threads[v] : s.job # j
  PROVE  Unharmed'
<1>1. Elems(remaining)' = Elems(remaining') /\ NoJob \notin mapped \cup Elems(remaining')
  <2>1. mapped \subseteq Jobs /\ remaining \in Seq(Jobs)
    BY DEF Ordered, TypeOK
  <2>2. \A i \in DOMAIN remaining : remaining[i] \in Jobs
    BY <2>1
  <2>3. NoJob \notin Elems(remaining)
    BY <2>2, Distinct DEF Elems
  <2> QED
    BY <2>1, <2>3, Distinct DEF Elems
<1>2. ASSUME NEW v \in Workers, NEW t \in threads'[v]
      PROVE  /\ t.job # NoJob /\ t.job \notin mapped \cup Elems(remaining')
             /\ t \in threads[v] \/ (v = w /\ t.job = j)
  <2>1. \/ threads'[v] = threads[v]
        \/ v = w /\ t = [round |-> round, mapper |-> mapper, job |-> j]
    BY <1>2, Receives
  <2>2. CASE t \in threads[v]
    <3>1. t.job \in Jobs
      BY <2>2 DEF Ordered, TypeOK, Thread
    <3> QED
      BY <2>2, <3>1, Distinct DEF Unharmed
  <2>3. CASE v = w /\ t = [round |-> round, mapper |-> mapper, job |-> j]
    <3>1. t.job = j
      BY <2>3
    <3> QED
      BY <2>3, <3>1, Distinct
  <2> QED
    BY <1>2, <2>1, <2>2, <2>3
<1>3. ASSUME NEW v \in Workers, NEW t \in threads'[v], NEW x \in Workers \ {v}, NEW s \in threads'[x]
      PROVE  s.job # t.job
  BY <1>2 DEF Unharmed
<1> QED
  BY <1>1, <1>2, <1>3 DEF Unharmed

LEMMA HandOutUnharmed ==
  ASSUME Ordered, Unharmed, HandOut PROVE Unharmed'
<1>1. /\ Swept /\ phase = "poll" /\ phase \in Sweeps /\ job' = NoJob
      /\ UNCHANGED <<worker_jobs, up, mapped>>
  BY DEF HandOut, Sweeps
<1>2. TypeOK /\ job \in Jobs /\ remaining \in Seq(Jobs)
  BY <1>1 DEF Ordered, Popped, TypeOK
<1>3. \/ phase' = "failed" /\ remaining' = remaining /\ UNCHANGED threads
      \/ phase' = "next" /\ remaining' = <<job>> \o remaining /\ UNCHANGED threads
      \/ /\ phase' \in {"next", "failed"} /\ remaining' = remaining /\ Idle(job) # {}
         /\ \E answered \in BOOLEAN : Schedule(Least(Idle(job)), job, answered)
  <2>1. PICK f \in RestoredOrders :
        \/ phase' = "failed" /\ remaining' = Restored(f) \o remaining /\ UNCHANGED threads
        \/ /\ phase' = "next" /\ remaining' = <<job>> \o (Restored(f) \o remaining)
           /\ UNCHANGED threads
        \/ /\ Idle(job) # {} /\ remaining' = Restored(f) \o remaining
           /\ \E answered \in BOOLEAN :
                /\ Schedule(Least(Idle(job)), job, answered)
                /\ phase' = IF answered THEN "next" ELSE "failed"
    BY Zenon DEF HandOut
  <2>2. Restored(f) \o remaining = remaining
    BY <1>2, NothingRestored
  <2> QED
    BY <2>1, <2>2
<1>4. job \notin Elems(remaining) \cup mapped /\ \A v \in Workers : \A s \in threads[v] : s.job # job
  BY DEF Unharmed
<1>5. NoJob \notin mapped \cup Elems(remaining)
      /\ \A v \in Workers : \A t \in threads[v] : t.job # NoJob
  <2>1. \A i \in DOMAIN remaining : remaining[i] \in Jobs
    BY <1>2
  <2>2. \A v \in Workers : \A t \in threads[v] : t.job \in Jobs
    BY <1>2 DEF TypeOK, Thread
  <2> QED
    BY <1>2, <2>1, <2>2, Distinct DEF Elems, TypeOK
<1>6. CASE phase' = "failed" /\ remaining' = remaining /\ UNCHANGED threads
  BY <1>1, <1>5, <1>6 DEF Unharmed
<1>7. CASE phase' = "next" /\ remaining' = <<job>> \o remaining /\ UNCHANGED threads
  <2> DEFINE s == remaining'
             n == Len(remaining)
  <2>1. /\ n \in Nat /\ DOMAIN remaining = 1 .. n
        /\ DOMAIN s = 1 .. n + 1 /\ s[1] = job
        /\ \A i \in 2 .. n + 1 : i - 1 \in DOMAIN remaining /\ s[i] = remaining[i - 1]
    <3>1. <<job>> \in Seq(Jobs) /\ Len(<<job>>) = 1 /\ <<job>>[1] = job
      BY <1>2
    <3>2. s \in Seq(Jobs) /\ Len(s) = 1 + n
          /\ \A i \in 1 .. 1 + n :
               s[i] = IF i <= 1 THEN <<job>>[i] ELSE remaining[i - 1]
      BY <1>2, <1>7, <3>1, ConcatProperties
    <3>3. n \in Nat /\ DOMAIN remaining = 1 .. n /\ DOMAIN s = 1 .. 1 + n
      BY <1>2, <3>2
    <3> HIDE DEF s, n
    <3> QED
      BY <3>1, <3>2, <3>3
  <2> HIDE DEF n
  <2>2. ASSUME NEW i \in DOMAIN s PROVE i = 1 \/ (i \in 2 .. n + 1)
    BY <2>1
  <2>3. Elems(s) \subseteq {job} \cup Elems(remaining)
    BY <2>1, <2>2 DEF Elems
  <2>4. ASSUME NEW i \in DOMAIN s, NEW k \in DOMAIN s, s[i] = s[k]
        PROVE  i = k
    <3>1. CASE i = 1 /\ k = 1
      BY <3>1
    <3>2. CASE i \in 2 .. n + 1 /\ k \in 2 .. n + 1
      <4>1. i - 1 = k - 1
        BY <2>1, <2>4, <3>2 DEF Unharmed
      <4> QED
        BY <3>2, <4>1
    <3>3. CASE i = 1 /\ k \in 2 .. n + 1
      BY <1>4, <2>1, <2>4, <3>3 DEF Elems
    <3>4. CASE k = 1 /\ i \in 2 .. n + 1
      BY <1>4, <2>1, <2>4, <3>4 DEF Elems
    <3> QED
      BY <2>2, <3>1, <3>2, <3>3, <3>4
  <2>5. Elems(s) \cap mapped = {} /\ NoJob \notin Elems(s)
    BY <1>2, <1>4, <1>5, <2>3, Distinct DEF Unharmed
  <2>6. \A w \in Workers : \A t \in threads[w] : t.job \notin Elems(s)
    BY <1>4, <2>3 DEF Unharmed
  <2> QED
    BY <1>1, <1>5, <1>7, <2>4, <2>5, <2>6 DEF Unharmed
<1>8. CASE /\ phase' \in {"next", "failed"} /\ remaining' = remaining /\ Idle(job) # {}
           /\ \E answered \in BOOLEAN : Schedule(Least(Idle(job)), job, answered)
  <2>1. Least(Idle(job)) \in Workers /\ current_job[Least(Idle(job))] = NoJob
    BY <1>1, <1>8, IdleWorker
  <2> HIDE DEF Unharmed
  <2>2. \A v \in Workers : worker_jobs'[v] # Lost
    BY <1>1 DEF Unharmed
  <2>3. \A i, k \in DOMAIN remaining' : remaining'[i] = remaining'[k] => i = k
    BY <1>8 DEF Unharmed
  <2> QED
    BY <1>1, <1>2, <1>4, <1>8, <2>1, <2>2, <2>3, ReceiveUnharmed
<1> QED
  BY <1>3, <1>6, <1>7, <1>8

LEMMA MapEndsUnharmed ==
  ASSUME Ordered, Unharmed, NEW w \in Workers, MapEnds(w) PROVE Unharmed'
<1>1. PICK t \in threads[w] :
        /\ threads' = [threads EXCEPT ![w] = @ \ {t}]
        /\ mapped' = IF t.round = round /\ t.mapper = mapper THEN mapped \cup {t.job} ELSE mapped
  BY DEF MapEnds
<1>2. UNCHANGED <<phase, remaining, job, worker_jobs, up>>
  BY DEF MapEnds, coordinator
<1>3. threads \in [Workers -> SUBSET Thread] /\ threads[w] = {t} /\ mapped' \subseteq mapped \cup {t.job}
  BY <1>1 DEF Ordered, TypeOK, Single
<1>4. threads'[w] = {} /\ \A v \in Workers : v # w => threads'[v] = threads[v]
  BY <1>1, <1>3
<1>5. \A v \in Workers : v # w => \A s \in threads[v] : s.job # t.job
  BY <1>1 DEF Unharmed
<1>6. t.job \notin Elems(remaining) \cup {job}
  BY <1>1 DEF Unharmed
<1>7. \A v \in Workers : \A s \in threads'[v] :
        v # w /\ s \in threads[v] /\ s.job \notin mapped' \cup Elems(remaining) \cup {job}
  BY <1>3, <1>4, <1>5 DEF Unharmed
<1> QED
  BY <1>2, <1>3, <1>6, <1>7 DEF Unharmed

LEMMA UnharmedNext ==
  Ordered /\ FaultFree /\ [Next]_vars => FaultFree'
<1> SUFFICES ASSUME Ordered, FaultFree, [Next]_vars, faults' = 0 PROVE Unharmed'
  BY DEF FaultFree
<1>1. ASSUME NEW kind PROVE ~Fail(kind)
  BY DEF Fail, MayFail, Ordered, TypeOK
<1>2. ASSUME faults = 0 PROVE Unharmed
  BY <1>2 DEF FaultFree
<1>3. CASE Finished
  BY <1>2, <1>3 DEF Finished, Unharmed, workers
<1>4. CASE StartRound
  BY <1>2, <1>4, StartRoundUnharmed DEF StartRound
<1>5. CASE SetupFails
  <2>1. /\ phase = "round" /\ phase' = "failed"
        /\ UNCHANGED <<remaining, job, worker_jobs, up, threads, mapped, faults>>
    BY <1>1, <1>5 DEF SetupFails
  <2> QED
    BY <1>2, <2>1 DEF Unharmed
<1>6. CASE PopJob
  BY <1>2, <1>6, PopJobUnharmed DEF PopJob
<1>7. CASE HandOut
  <2>1. faults' = faults
    <3>1. \A w, j, answered : Schedule(w, j, answered) => faults' = faults
      BY <1>1 DEF Schedule
    <3> QED
      BY <1>7, <3>1 DEF HandOut
  <2> QED
    BY <1>2, <1>7, <2>1, HandOutUnharmed
<1>8. CASE AwaitEnds
  BY <1>2, <1>8, AwaitEndsUnharmed DEF AwaitEnds
<1>9. CASE KeepWaiting
  <2>1. /\ phase' = phase /\ phase = "await" /\ worker_jobs' = Ask
        /\ UNCHANGED <<remaining, job, up, threads, mapped, faults>>
    BY <1>9 DEF KeepWaiting, Again, workers
  <2> QED
    BY <1>2, <2>1, Distinct DEF Unharmed, Ask
<1>10. CASE Reschedule
  <2>1. faults' = faults
    <3>1. \A w, j, answered : Schedule(w, j, answered) => faults' = faults
      BY <1>1 DEF Schedule
    <3> QED
      BY <1>10, <3>1 DEF Reschedule
  <2>2. Least(Breaks) \in Workers /\ worker_jobs[Least(Breaks)] = Lost
    <3>1. Breaks \subseteq Workers /\ Breaks # {} /\ worker_jobs[Least(Breaks)] = Lost
      BY <1>10 DEF Reschedule, Breaks
    <3> QED
      BY <3>1, LeastIn
  <2> QED
    BY <1>2, <2>1, <2>2 DEF Unharmed
<1>11. ASSUME NEW w \in Workers, CurrentJob(w) PROVE Unharmed'
  <2>1. /\ UNCHANGED <<phase, remaining, job, up, threads, mapped, faults>>
        /\ ~up[w] \/ worker_jobs' = [worker_jobs EXCEPT ![w] = current_job[w]]
    BY <1>1, <1>11 DEF CurrentJob, workers
  <2>2. Unharmed /\ up[w] /\ current_job[w] # Lost
    BY <1>2, <2>1, Distinct DEF Unharmed, Ordered, TypeOK
  <2>3. \A v \in Workers : worker_jobs'[v] # Lost
    BY <2>1, <2>2 DEF Unharmed, Ordered, TypeOK
  <2> QED
    BY <2>1, <2>2, <2>3 DEF Unharmed
<1>12. ASSUME NEW w \in Workers, MapEnds(w) PROVE Unharmed'
  BY <1>2, <1>12, MapEndsUnharmed DEF MapEnds
<1>13. ASSUME NEW w \in Workers, Crash(w) \/ Restart(w) PROVE FALSE
  BY <1>1, <1>13 DEF Crash, Restart
<1>14. CASE UNCHANGED vars
  <2>1. UNCHANGED <<phase, remaining, job, worker_jobs, up, threads, mapped, faults>>
    BY <1>14 DEF vars, coordinator, workers
  <2> QED
    BY <1>2, <2>1 DEF Unharmed, Elems
<1> QED
  BY <1>3, <1>4, <1>5, <1>6, <1>7, <1>8, <1>9, <1>10, <1>11, <1>12, <1>13, <1>14
  DEF Next, Run, Stopped

(* No entry of `jobs` is mapped twice by a mapper, unless there is a       *)
(* fault, whether or not entries are equal: an idle worker that is asked in a sweep is still idle when the   *)
(* job reaches it, and a job that is handed out has left the queue.        *)
THEOREM MapsOnce == Spec => []OnceUnlessFaulty
<1>1. Init => FaultFree
  <2> SUFFICES ASSUME Init PROVE Unharmed
    BY DEF FaultFree
  <2>1. \A w \in Workers : up[w] /\ worker_jobs[w] # Lost /\ threads[w] = {}
    BY Distinct DEF Init, Ask
  <2>2. remaining = <<>> /\ job = NoJob /\ mapped = {}
    BY DEF Init
  <2> QED
    BY <2>1, <2>2 DEF Unharmed, Elems
<1>2. Ordered /\ FaultFree /\ [Next]_vars => FaultFree'
  BY UnharmedNext
<1>3. FaultFree => OnceUnlessFaulty
  BY DEF FaultFree, Unharmed, OnceUnlessFaulty, Elems
<1> QED
  BY <1>1, <1>2, <1>3, OrderedAlways, PTL DEF Spec

=============================================================================
