---------------------------- MODULE Worker_proofs ---------------------------
(* The scheduler and run_once for every number of jobs, threads and rows: a *)
(* job has one run at a time, and what the jobs do to the rows is what      *)
(* Pipeline allows, so that they keep all it promises.                      *)
EXTENDS Worker, Pipeline_proofs, FiniteSetTheorems, SequenceTheorems

-----------------------------------------------------------------------------
(* The jobs are clients of the pipeline.                                    *)

\* A pass of a job is a pass of the default size, or finds the pool empty.
LEMMA PoolPassIsPass ==
  ASSUME PassOverPool, UNCHANGED reclustering PROVE [Next]_vars
  <1>1. CASE Unprocessed = {}
      BY <1>1 DEF PassOverPool, vars
  <1>2. CASE Unprocessed # {}
    <2>1. Cluster(DefaultLimit)
        BY <1>2 DEF PassOverPool, Cluster
    <2> QED
        BY <2>1, TablesAssumption DEF Next
  <1> QED
      BY <1>1, <1>2

\* Every step of a process is a transaction of the pipeline or leaves the rows alone.
LEMMA WorkerStepsPipeline == [WorkerNext]_workerVars => [Next]_vars
  <1> SUFFICES ASSUME [WorkerNext]_workerVars PROVE [Next]_vars
      OBVIOUS
  <1>1. CASE Round \/ Stop \/ UNCHANGED workerVars
      BY <1>1 DEF Round, Stop, workerVars
  <1>2. ASSUME NEW t \in Thread, Crash(t) PROVE [Next]_vars
      BY <1>2 DEF Crash
  <1>3. ASSUME NEW t \in Thread, Work(t) PROVE [Next]_vars
    <2>1. CASE Take(t) \/ Fetch(t) \/ Stored(t) \/ Fail(t)
        BY <2>1 DEF Take, Fetch, Stored, Fail
    <2>2. CASE StoreItem(t)
        BY <2>2 DEF StoreItem, Next
    <2>3. CASE ClusterAndEnd(t)
        BY <2>3, PoolPassIsPass DEF ClusterAndEnd
    <2> QED
        BY <1>3, <2>1, <2>2, <2>3 DEF Work
  <1>4. CASE Once
    <2>1. CASE StartOnce \/ OnceCount \/ OnceFails
        BY <2>1 DEF StartOnce, OnceCount, OnceFails
    <2>2. CASE OncePass
        BY <2>2, PoolPassIsPass DEF OncePass
    <2> QED
        BY <1>4, <2>1, <2>2 DEF Once
  <1>5. CASE Request
      BY <1>5 DEF Request, Next
  <1> QED
      BY <1>1, <1>2, <1>3, <1>4, <1>5 DEF WorkerNext

\* Jobs that fail, overlap and are cut off, run_once beside them and requests from
\* outside are a run of the pipeline: each of its theorems holds of them.
THEOREM WorkerRunsPipeline == WorkerSpec => Spec
  <1>1. WorkerInit => Init
      BY DEF WorkerInit
  <1> QED
      BY <1>1, WorkerStepsPipeline, PTL DEF WorkerSpec, Spec

LEMMA WorkerKeepsIInv == WorkerSpec => []IInv
  BY WorkerRunsPipeline, SpecIInv, PTL

-----------------------------------------------------------------------------
(* Where a job may be: nowhere, in the queue, or in a thread.               *)

ThreadsTypeOK ==
    /\ running \in [Job -> BOOLEAN]
    /\ \A j \in Job : sinceRun[j] \in 0 .. interval[j]
    /\ queue \in Seq(Job)
    /\ job \in [Thread -> Job \cup {None}]
    /\ pc \in [Thread -> {"free", "fetch", "store", "pass"}]
    /\ \A t \in Thread : pc[t] = "free" <=> job[t] = None
    /\ left \in [Thread -> 0 .. MaxItems]
    /\ once \in {"off", "pass", "count"} /\ found \in BOOLEAN

Waits(j) == \E n \in 1 .. Len(queue) : queue[n] = j
Works(j) == \E t \in Thread : job[t] = j

\* No job is twice in the queue, in two threads, or in both, and _running says
\* whether it is in one.
EachInOnePlace ==
    /\ \A m, n \in 1 .. Len(queue) : queue[m] = queue[n] => m = n
    /\ \A t, u \in Thread : job[t] = job[u] /\ job[t] # None => t = u
    /\ \A j \in Job : ~ (Waits(j) /\ Works(j))
    /\ \A j \in Job : running[j] <=> Waits(j) \/ Works(j)

WInv == ThreadsTypeOK /\ EachInOnePlace

LEMMA JobsAreFinite == IsFiniteSet(Job)
  <1> DEFINE n == Len(Jobs)
             nth == [i \in 1 .. n |-> Jobs[i]]
  <1>1. n \in Nat
      BY WorkerAssumption
  <1>2. IsFiniteSet(1 .. n)
      BY <1>1, FS_Interval
  <1>3. nth \in Surjection(1 .. n, Job)
      BY DEF Job, Surjection
  <1> HIDE DEF nth
  <1> QED
      BY <1>2, <1>3, FS_Surjection

\* The constants, as the proofs use them.
LEMMA Bounds ==
  /\ Len(Jobs) \in Nat /\ \A i \in 1 .. Len(Jobs) : Jobs[i] \in Job
  /\ \A i, j \in 1 .. Len(Jobs) : Jobs[i] = Jobs[j] => i = j
  /\ None \notin Job
  /\ interval \in [Job -> Nat] /\ \A j \in Job : interval[j] > 0
  /\ MaxItems \in Nat
  <1>1. Len(Jobs) \in Nat /\ \A i, j \in 1 .. Len(Jobs) : Jobs[i] = Jobs[j] => i = j
      BY WorkerAssumption
  <1>2. \A i \in 1 .. Len(Jobs) : Jobs[i] \in Job
      BY DEF Job
  <1>3. None \notin Job /\ MaxItems \in Nat
      BY WorkerAssumption
  <1>4. interval \in [Job -> Nat] /\ \A j \in Job : interval[j] > 0
      BY WorkerAssumption
  <1> QED
      BY <1>1, <1>2, <1>3, <1>4

LEMMA InitWInv == WorkerInit => WInv
  <1> SUFFICES ASSUME WorkerInit PROVE WInv
      OBVIOUS
  <1> USE Bounds DEF WorkerInit
  <1>1. \A j \in Job : sinceRun[j] \in 0 .. interval[j]
      OBVIOUS
  <1>2. queue \in Seq(Job) /\ left \in [Thread -> 0 .. MaxItems]
      OBVIOUS
  <1>3. ThreadsTypeOK
      BY <1>1, <1>2 DEF ThreadsTypeOK
  <1>4. EachInOnePlace
      BY DEF EachInOnePlace, Waits, Works
  <1> QED
      BY <1>3, <1>4 DEF WInv
-----------------------------------------------------------------------------
(* What each step does to the places of a job.                              *)

\* Where an element of a second queue stands behind a first one.
LEMMA PlaceBehind ==
    ASSUME NEW length \in Nat, NEW k \in Nat, NEW n \in Nat, 1 <= n, n <= k
    PROVE  length + n \in 1 .. length + k /\ ~ (length + n <= length) /\ length + n - length = n
  OBVIOUS

\* A round queues the jobs that are due: they were nowhere, and each goes in once.
LEMMA RoundWInv == ASSUME WInv, Round PROVE WInv'
  <1> USE Bounds
  <1>1. PICK starts \in [1 .. Cardinality(DueJobs) -> DueJobs] :
            InOrder(starts) /\ queue' = queue \o starts
      BY DEF Round
  <1>2. DueJobs \subseteq Job /\ Cardinality(DueJobs) \in Nat
      BY JobsAreFinite, FS_Subset, FS_CardinalityType DEF DueJobs
  <1>3. /\ starts \in Seq(Job) /\ Len(starts) \in Nat
        /\ DOMAIN starts = 1 .. Len(starts) /\ starts \in [1 .. Len(starts) -> DueJobs]
    <2>1. starts \in [1 .. Cardinality(DueJobs) -> Job]
        BY <1>1, <1>2
    <2>2. starts \in Seq(Job)
        BY <1>2, <2>1, SeqDef
    <2>3. Len(starts) \in Nat /\ DOMAIN starts = 1 .. Len(starts)
        BY <2>2, LenProperties
    <2>4. starts \in [1 .. Len(starts) -> DueJobs]
        BY <1>1, <2>3
    <2> QED
        BY <2>2, <2>3, <2>4
  <1>4. \A m, n \in 1 .. Len(starts) : starts[m] = starts[n] => m = n
    <2>1. ASSUME NEW m \in 1 .. Len(starts), NEW n \in 1 .. Len(starts), m < n
          PROVE  starts[m] # starts[n]
      <3>1. PICK a \in 1 .. Len(Jobs), b \in 1 .. Len(Jobs) :
                a < b /\ Jobs[a] = starts[m] /\ Jobs[b] = starts[n]
          BY <1>1, <1>3, <2>1 DEF InOrder
      <3> QED
          BY <3>1
    <2> QED
        BY <1>2, <1>3, <2>1
  <1>5. \A j \in Job : j \in DueJobs <=> \E n \in 1 .. Len(starts) : starts[n] = j
    <2>1. \A n \in 1 .. Len(starts) : starts[n] \in DueJobs
        BY <1>3
    <2>2. \A j \in DueJobs : \E n \in 1 .. Len(starts) : starts[n] = j
        BY <1>1, <1>3 DEF InOrder
    <2> QED
        BY <2>1, <2>2
  <1>6. queue \in Seq(Job) /\ Len(queue) \in Nat
      BY DEF WInv, ThreadsTypeOK
  <1>7. /\ queue' \in Seq(Job) /\ Len(queue') = Len(queue) + Len(starts)
        /\ \A n \in 1 .. Len(queue) : queue'[n] = queue[n]
        /\ \A n \in 1 .. Len(starts) : queue'[Len(queue) + n] = starts[n]
        /\ \A n \in 1 .. Len(queue') : n > Len(queue) =>
              n - Len(queue) \in 1 .. Len(starts) /\ queue'[n] = starts[n - Len(queue)]
    <2>1. /\ queue' \in Seq(Job) /\ Len(queue') = Len(queue) + Len(starts)
          /\ \A n \in 1 .. Len(queue) + Len(starts) :
                queue'[n] = IF n <= Len(queue) THEN queue[n] ELSE starts[n - Len(queue)]
        BY <1>1, <1>3, <1>6, ConcatProperties
    <2>2. ASSUME NEW n \in 1 .. Len(queue) PROVE queue'[n] = queue[n]
      <3>1. n \in 1 .. Len(queue) + Len(starts) /\ n <= Len(queue)
          BY <1>3, <1>6
      <3> QED
          BY <2>1, <3>1
    <2>3. ASSUME NEW n \in 1 .. Len(starts) PROVE queue'[Len(queue) + n] = starts[n]
      <3>1. /\ Len(queue) + n \in 1 .. Len(queue) + Len(starts) /\ ~ (Len(queue) + n <= Len(queue))
            /\ Len(queue) + n - Len(queue) = n
        <4>1. n \in Nat /\ 1 <= n /\ n <= Len(starts)
            BY <1>3
        <4> QED
            BY <1>3, <1>6, <4>1, PlaceBehind, Zenon
      <3>2. queue'[Len(queue) + n] = starts[Len(queue) + n - Len(queue)]
        <4> DEFINE k == Len(queue) + n
        <4>1. k \in 1 .. Len(queue) + Len(starts) /\ ~ (k <= Len(queue))
            BY <3>1
        <4> HIDE DEF k
        <4>2. queue'[k] = starts[k - Len(queue)]
            BY <2>1, <4>1
        <4> QED
            BY <4>2 DEF k
      <3> QED
          BY <3>1, <3>2, Zenon
    <2>4. ASSUME NEW n \in 1 .. Len(queue'), n > Len(queue)
          PROVE  n - Len(queue) \in 1 .. Len(starts) /\ queue'[n] = starts[n - Len(queue)]
      <3>1. n \in 1 .. Len(queue) + Len(starts) /\ ~ (n <= Len(queue))
          BY <1>6, <2>1, <2>4
      <3>2. n - Len(queue) \in 1 .. Len(starts)
          BY <1>3, <1>6, <3>1
      <3> QED
          BY <2>1, <3>1, <3>2
    <2> QED
        BY <2>1, <2>2, <2>3, <2>4
  <1>8. /\ \A j \in Job : running'[j] <=> running[j] \/ j \in DueJobs
        /\ \A j \in DueJobs : ~running[j]
        /\ UNCHANGED <<job, pc, left, once, found>>
      BY DEF Round, DueJobs, Due, worker
  <1>9. ThreadsTypeOK'
    <2>1. running' \in [Job -> BOOLEAN]
        BY DEF Round, WInv, ThreadsTypeOK, Due
    <2>2. \A j \in Job : sinceRun'[j] \in 0 .. interval[j]
        BY DEF Round, WInv, ThreadsTypeOK, Due, Elapsed
    <2> QED
        BY <1>7, <1>8, <2>1, <2>2 DEF WInv, ThreadsTypeOK
  <1>10. \A j \in Job : Waits(j)' <=> Waits(j) \/ j \in DueJobs
    <2> TAKE j \in Job
    <2>1. Waits(j) => Waits(j)'
        BY <1>3, <1>6, <1>7 DEF Waits
    <2>2. ASSUME j \in DueJobs PROVE Waits(j)'
      <3>1. PICK n \in 1 .. Len(starts) : starts[n] = j
          BY <1>5, <2>2
      <3>2. Len(queue) + n \in 1 .. Len(queue') /\ queue'[Len(queue) + n] = j
          BY <1>3, <1>6, <1>7, <3>1
      <3> QED
          BY <3>2 DEF Waits
    <2>3. ASSUME Waits(j)' PROVE Waits(j) \/ j \in DueJobs
      <3>1. PICK n \in 1 .. Len(queue') : queue'[n] = j
          BY <2>3 DEF Waits
      <3>2. CASE n <= Len(queue)
        <4>1. n \in 1 .. Len(queue) /\ queue[n] = j
            BY <1>3, <1>6, <1>7, <3>1, <3>2
        <4> QED
            BY <4>1 DEF Waits
      <3>3. CASE n > Len(queue)
          BY <1>5, <1>7, <3>1, <3>3
      <3> QED
          BY <1>3, <1>6, <1>7, <3>2, <3>3
    <2> QED
        BY <2>1, <2>2, <2>3
  <1>11. \A j \in DueJobs : ~Waits(j) /\ ~Works(j)
      BY <1>2, <1>8 DEF WInv, EachInOnePlace
  <1>12. ASSUME NEW m \in 1 .. Len(queue'), NEW n \in 1 .. Len(queue'), queue'[m] = queue'[n]
         PROVE  m = n
    <2>1. CASE m <= Len(queue) /\ n <= Len(queue)
        BY <1>6, <1>7, <1>12, <2>1 DEF WInv, EachInOnePlace
    <2>2. CASE m > Len(queue) /\ n > Len(queue)
      <3>1. m - Len(queue) = n - Len(queue)
        <4>1. /\ m - Len(queue) \in 1 .. Len(starts) /\ n - Len(queue) \in 1 .. Len(starts)
              /\ starts[m - Len(queue)] = starts[n - Len(queue)]
            BY <1>7, <1>12, <2>2
        <4> QED
            BY <1>4, <4>1
      <3> QED
          BY <1>3, <1>6, <1>7, <3>1
    <2>3. ASSUME NEW a \in 1 .. Len(queue'), NEW b \in 1 .. Len(queue'),
                 a <= Len(queue), b > Len(queue), queue'[a] = queue'[b]
          PROVE  FALSE
      <3>1. queue[a] = queue'[b] /\ queue'[b] \in DueJobs /\ a \in 1 .. Len(queue)
        <4>1. a \in 1 .. Len(queue)
            BY <1>3, <1>6, <1>7, <2>3
        <4>2. queue[a] = queue'[b]
            BY <1>7, <2>3, <4>1
        <4>3. queue'[b] \in DueJobs
            BY <1>3, <1>7, <2>3
        <4> QED
            BY <4>1, <4>2, <4>3
      <3> QED
          BY <1>11, <3>1 DEF Waits
    <2> QED
        BY <1>6, <1>7, <1>12, <2>1, <2>2, <2>3
  <1>13. EachInOnePlace'
      BY <1>8, <1>10, <1>11, <1>12 DEF WInv, EachInOnePlace, Works
  <1> QED
      BY <1>9, <1>13 DEF WInv

\* The first job of the queue moves to a free thread.
LEMMA TakeWInv == ASSUME WInv, NEW t \in Thread, Take(t) PROVE WInv'
  <1> USE Bounds
  <1>0. /\ queue \in Seq(Job) /\ Len(queue) \in Nat /\ queue # <<>>
        /\ job \in [Thread -> Job \cup {None}] /\ pc[t] = "free" /\ job[t] = None
        /\ pc \in [Thread -> {"free", "fetch", "store", "pass"}]
      BY DEF WInv, ThreadsTypeOK, Take
  <1> DEFINE j == queue[1]
  <1>1. /\ Len(queue) > 0 /\ j \in Job /\ Head(queue) = j
        /\ queue' \in Seq(Job) /\ Len(queue') = Len(queue) - 1
        /\ \A n \in 1 .. Len(queue') : queue'[n] = queue[n + 1]
      BY <1>0 DEF Take
  <1>2. /\ \A u \in Thread : job'[u] = IF u = t THEN j ELSE job[u]
        /\ \A u \in Thread : pc'[u] = IF u = t THEN "fetch" ELSE pc[u]
        /\ job' \in [Thread -> Job \cup {None}]
        /\ pc' \in [Thread -> {"free", "fetch", "store", "pass"}]
        /\ UNCHANGED <<running, sinceRun, left, once, found>>
      BY <1>0, <1>1 DEF Take, scheduler, worker
  <1>3. ThreadsTypeOK'
      BY <1>1, <1>2 DEF WInv, ThreadsTypeOK
  <1>4. \A k \in Job : Waits(k)' <=> Waits(k) /\ k # j
    <2> TAKE k \in Job
    <2>1. Waits(k)' => Waits(k) /\ k # j
      <3> SUFFICES ASSUME NEW n \in 1 .. Len(queue'), queue'[n] = k PROVE Waits(k) /\ k # j
          BY DEF Waits
      <3>1. n + 1 \in 1 .. Len(queue) /\ queue[n + 1] = k /\ n + 1 # 1 /\ 1 \in 1 .. Len(queue)
          BY <1>0, <1>1
      <3> QED
          BY <3>1 DEF Waits, WInv, EachInOnePlace
    <2>2. Waits(k) /\ k # j => Waits(k)'
      <3> SUFFICES ASSUME NEW n \in 1 .. Len(queue), queue[n] = k, k # j PROVE Waits(k)'
          BY DEF Waits
      <3>1. n - 1 \in 1 .. Len(queue') /\ queue'[n - 1] = k
          BY <1>0, <1>1
      <3> QED
          BY <3>1 DEF Waits
    <2> QED
        BY <2>1, <2>2
  <1>5. Waits(j) /\ ~Works(j)
      BY <1>0, <1>1 DEF Waits, WInv, EachInOnePlace
  <1>6. \A k \in Job : Works(k)' <=> Works(k) \/ k = j
      BY <1>0, <1>2 DEF Works
  <1>7. \A m, n \in 1 .. Len(queue') : queue'[m] = queue'[n] => m = n
    <2> SUFFICES ASSUME NEW m \in 1 .. Len(queue'), NEW n \in 1 .. Len(queue'),
                        queue'[m] = queue'[n]
                 PROVE  m = n
        OBVIOUS
    <2>1. m + 1 \in 1 .. Len(queue) /\ n + 1 \in 1 .. Len(queue) /\ queue[m + 1] = queue[n + 1]
      <3>1. queue'[m] = queue[m + 1] /\ queue'[n] = queue[n + 1]
          BY <1>0, <1>1
      <3>2. m + 1 \in 1 .. Len(queue) /\ n + 1 \in 1 .. Len(queue)
          BY <1>0, <1>1
      <3> QED
          BY <3>1, <3>2
    <2>2. m + 1 = n + 1
        BY <2>1 DEF WInv, EachInOnePlace
    <2> QED
        BY <2>2
  <1> HIDE DEF j
  <1>8. \A u, v \in Thread : job'[u] = job'[v] /\ job'[u] # None => u = v
      BY <1>1, <1>2, <1>5 DEF WInv, EachInOnePlace, Works
  <1>9. EachInOnePlace'
      BY <1>2, <1>4, <1>5, <1>6, <1>7, <1>8 DEF WInv, EachInOnePlace
  <1> QED
      BY <1>3, <1>9 DEF WInv

\* A job that ends leaves its thread and takes its mark along.
LEMMA EndWInv ==
  ASSUME WInv, NEW t \in Thread, pc[t] # "free", End(t), UNCHANGED <<once, found>>
  PROVE  WInv'
  <1> USE Bounds
  <1> DEFINE j == job[t]
  <1>0. /\ job \in [Thread -> Job \cup {None}] /\ j \in Job
        /\ pc \in [Thread -> {"free", "fetch", "store", "pass"}]
        /\ running \in [Job -> BOOLEAN] /\ left \in [Thread -> 0 .. MaxItems]
      BY DEF WInv, ThreadsTypeOK
  <1>1. /\ \A u \in Thread : job'[u] = IF u = t THEN None ELSE job[u]
        /\ \A u \in Thread : pc'[u] = IF u = t THEN "free" ELSE pc[u]
        /\ \A k \in Job : running'[k] = IF k = j THEN FALSE ELSE running[k]
        /\ UNCHANGED <<queue, sinceRun>>
      BY <1>0 DEF End, Free
  <1>2. ThreadsTypeOK'
    <2>1. /\ job' \in [Thread -> Job \cup {None}] /\ running' \in [Job -> BOOLEAN]
          /\ pc' \in [Thread -> {"free", "fetch", "store", "pass"}]
          /\ left' \in [Thread -> 0 .. MaxItems]
        BY <1>0 DEF End, Free
    <2> QED
        BY <1>1, <2>1 DEF WInv, ThreadsTypeOK
  <1>3. \A k \in Job : Waits(k)' <=> Waits(k)
      BY <1>1 DEF Waits
  <1>4. \A k \in Job : Works(k)' <=> Works(k) /\ k # j
    <2> TAKE k \in Job
    <2>1. Works(k)' => Works(k) /\ k # j
        BY <1>0, <1>1 DEF Works, WInv, EachInOnePlace
    <2>2. Works(k) /\ k # j => Works(k)'
        BY <1>1 DEF Works
    <2> QED
        BY <2>1, <2>2
  <1>5. Works(j)
      BY DEF Works
  <1> HIDE DEF j
  <1>6. ASSUME NEW k \in Job PROVE running'[k] <=> Waits(k)' \/ Works(k)'
    <2>1. CASE k = j
      <3>1. ~Waits(j) /\ ~running'[k]
          BY <1>0, <1>1, <1>5, <2>1 DEF WInv, EachInOnePlace
      <3> QED
          BY <1>3, <1>4, <2>1, <3>1
    <2>2. CASE k # j
      <3>1. running'[k] = running[k] /\ (running[k] <=> Waits(k) \/ Works(k))
          BY <1>1, <2>2 DEF WInv, EachInOnePlace
      <3> QED
          BY <1>3, <1>4, <2>2, <3>1
    <2> QED
        BY <2>1, <2>2
  <1>7. EachInOnePlace'
      BY <1>1, <1>3, <1>4, <1>6 DEF WInv, EachInOnePlace
  <1> QED
      BY <1>2, <1>7 DEF WInv

\* A thread goes on with its job.
LEMMA GotoWInv ==
  ASSUME WInv, NEW t \in Thread, pc[t] # "free", NEW label \in {"fetch", "store", "pass"},
         NEW items \in 0 .. MaxItems, Goto(t, label, items), once' \in {"off", "pass", "count"},
         found' \in BOOLEAN
  PROVE  WInv'
  <1>0. /\ pc \in [Thread -> {"free", "fetch", "store", "pass"}]
        /\ left \in [Thread -> 0 .. MaxItems]
      BY DEF WInv, ThreadsTypeOK
  <1>1. /\ \A u \in Thread : pc'[u] = IF u = t THEN label ELSE pc[u]
        /\ pc' \in [Thread -> {"free", "fetch", "store", "pass"}]
        /\ left' \in [Thread -> 0 .. MaxItems]
        /\ UNCHANGED <<queue, job, running, sinceRun>>
      BY <1>0 DEF Goto, scheduler
  <1>2. ThreadsTypeOK'
      BY <1>1 DEF WInv, ThreadsTypeOK
  <1>3. EachInOnePlace'
      BY <1>1 DEF WInv, EachInOnePlace, Waits, Works
  <1> QED
      BY <1>2, <1>3 DEF WInv

\* A scheduler that stops forgets its jobs, wherever they are.
LEMMA StopWInv == ASSUME WInv, Stop PROVE WInv'
  <1> USE Bounds DEF Stop
  <1>1. \A j \in Job : sinceRun'[j] \in 0 .. interval[j]
      OBVIOUS
  <1>2. queue' \in Seq(Job) /\ left' \in [Thread -> 0 .. MaxItems]
      OBVIOUS
  <1>3. ThreadsTypeOK'
      BY <1>1, <1>2 DEF WInv, ThreadsTypeOK, worker
  <1>4. EachInOnePlace'
      BY DEF EachInOnePlace, Waits, Works
  <1> QED
      BY <1>3, <1>4 DEF WInv

\* run_once, requests and standing still touch no job.
LEMMA IdleWInv ==
  ASSUME WInv, UNCHANGED <<scheduler, threads>>,
         once' \in {"off", "pass", "count"}, found' \in BOOLEAN
  PROVE  WInv'
  <1>1. ThreadsTypeOK'
      BY DEF WInv, ThreadsTypeOK, scheduler, threads
  <1>2. EachInOnePlace'
      BY DEF WInv, EachInOnePlace, Waits, Works, scheduler, threads
  <1> QED
      BY <1>1, <1>2 DEF WInv

LEMMA NextWInv == WInv /\ [WorkerNext]_workerVars => WInv'
  <1> SUFFICES ASSUME WInv, [WorkerNext]_workerVars PROVE WInv'
      OBVIOUS
  <1>0. once \in {"off", "pass", "count"} /\ found \in BOOLEAN
      BY DEF WInv, ThreadsTypeOK
  <1>1. ASSUME NEW t \in Thread, Work(t) PROVE WInv'
    <2>1. CASE Take(t)
        BY <2>1, TakeWInv
    <2>2. CASE Fetch(t)
      <3>1. PICK items \in 0 .. MaxItems : Goto(t, "store", items)
          BY <2>2 DEF Fetch
      <3> QED
          BY <1>0, <2>2, <3>1, GotoWInv DEF Fetch, worker
    <2>3. CASE StoreItem(t)
      <3>1. left[t] \in 0 .. MaxItems /\ left[t] > 0 /\ MaxItems \in Nat
          BY <2>3, Bounds DEF WInv, ThreadsTypeOK, StoreItem
      <3>2. left[t] - 1 \in 0 .. MaxItems
          BY <3>1
      <3> QED
          BY <1>0, <2>3, <3>2, GotoWInv DEF StoreItem, worker
    <2>4. CASE Stored(t)
        BY <1>0, <2>4, Bounds, GotoWInv DEF Stored, worker
    <2>5. CASE Fail(t)
        BY <1>0, <2>5, Bounds, GotoWInv, EndWInv DEF Fail, worker
    <2>6. CASE ClusterAndEnd(t)
        BY <2>6, EndWInv DEF ClusterAndEnd, worker
    <2> QED
        BY <1>1, <2>1, <2>2, <2>3, <2>4, <2>5, <2>6 DEF Work
  <1>2. ASSUME NEW t \in Thread, Crash(t) PROVE WInv'
      BY <1>2, EndWInv DEF Crash, worker
  <1>3. CASE Once
    <2>1. UNCHANGED <<scheduler, threads>>
        BY <1>3 DEF Once, StartOnce, OncePass, OnceCount, OnceFails
    <2>2. once' \in {"off", "pass", "count"}
        BY <1>3 DEF Once, StartOnce, OncePass, OnceCount, OnceFails
    <2>3. found' \in BOOLEAN
        BY <1>3 DEF Once, StartOnce, OncePass, OnceCount, OnceFails
    <2> QED
        BY <2>1, <2>2, <2>3, IdleWInv
  <1>4. CASE Request \/ UNCHANGED workerVars
    <2>1. UNCHANGED <<scheduler, threads, worker>>
        BY <1>4 DEF Request, workerVars
    <2> QED
        BY <1>0, <2>1, IdleWInv DEF worker
  <1> QED
      BY <1>1, <1>2, <1>3, <1>4, RoundWInv, StopWInv DEF WorkerNext

LEMMA SpecWInv == WorkerSpec => []WInv
  BY InitWInv, NextWInv, PTL DEF WorkerSpec

-----------------------------------------------------------------------------
(* What always holds.                                                       *)

\* The jobs, their threads and the rows keep their types.
THEOREM WorkerTypes == WorkerSpec => []WorkerTypeOK
  <1>1. IInv /\ WInv => WorkerTypeOK
      BY DEF IInv, RowsInv, WInv, ThreadsTypeOK, WorkerTypeOK, TypeOK
  <1> QED
      BY <1>1, WorkerKeepsIInv, SpecWInv, PTL

\* A set whose members are all the same has at most one.
LEMMA AtMostOne ==
  ASSUME NEW S, \A x, y \in S : x = y
  PROVE  Cardinality(S) = IF S = {} THEN 0 ELSE 1
  <1>1. CASE S = {}
      BY <1>1, FS_EmptySet
  <1>2. CASE S # {}
    <2>1. PICK x : x \in S
        BY <1>2
    <2>2. S = {x}
        BY <2>1
    <2> QED
        BY <1>2, <2>2, FS_Singleton
  <1> QED
      BY <1>1, <1>2

\* A job that is marked as running is in one place, in the queue or in a thread, and
\* one that is not marked is nowhere, however jobs fail and the scheduler restarts.
THEOREM JobsRunOnce == WorkerSpec => []OneRunAtATime
  <1>1. ASSUME WInv PROVE OneRunAtATime
    <2> SUFFICES ASSUME NEW j \in Job
                 PROVE  Cardinality({i \in 1 .. Len(queue) : queue[i] = j})
                        + Cardinality({t \in Thread : job[t] = j})
                        = IF running[j] THEN 1 ELSE 0
        BY DEF OneRunAtATime
    <2> DEFINE places == {i \in 1 .. Len(queue) : queue[i] = j}
               workers == {t \in Thread : job[t] = j}
    <2>1. \A x, y \in places : x = y
        BY <1>1 DEF WInv, EachInOnePlace
    <2>2. \A x, y \in workers : x = y
        BY <1>1, Bounds DEF WInv, EachInOnePlace
    <2>3. (places # {} <=> Waits(j)) /\ (workers # {} <=> Works(j))
        BY DEF Waits, Works
    <2>4. ~ (Waits(j) /\ Works(j)) /\ (running[j] <=> Waits(j) \/ Works(j))
        BY <1>1 DEF WInv, EachInOnePlace
    <2> HIDE DEF places, workers
    <2>5. /\ Cardinality(places) = IF places = {} THEN 0 ELSE 1
          /\ Cardinality(workers) = IF workers = {} THEN 0 ELSE 1
        BY <2>1, <2>2, AtMostOne
    <2>6. Cardinality(places) + Cardinality(workers) = IF running[j] THEN 1 ELSE 0
        BY <2>3, <2>4, <2>5
    <2> QED
        BY <2>6 DEF places, workers
  <1> QED
      BY <1>1, SpecWInv, PTL

=============================================================================
