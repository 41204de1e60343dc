------------------------------- MODULE Worker -------------------------------
(***************************************************************************)
(* The processes that keep the pipeline going: the scheduler starts due    *)
(* jobs, each of which fetches a source, stores what it found and runs a   *)
(* cluster pass in a thread of its own; run_once runs passes until nothing *)
(* is left.  Rows and passes are those of Pipeline.tla; a pass is one step *)
(* because the locks in Sessions.tla make it one.                          *)
(***************************************************************************)
EXTENDS Pipeline, Sequences

CONSTANTS
    Jobs,         \* SCHEDULER_SOURCES, in order
    Scans,        \* the jobs that go through scan_area
    interval,     \* interval_minutes of a job, in rounds of the scheduler's loop
    Thread,       \* threads of asyncio's executor
    Loop,         \* run_once --loop?
    MaxItems,     \* bound: items a source returns
    MaxReturns,   \* bound: text updates and deletions of events
    MaxOutages    \* bound: failures of the database and stops of a process

Job == {Jobs[i] : i \in 1 .. Len(Jobs)}

ASSUME WorkerAssumption ==
    /\ Jobs \in Seq(Job) /\ \A i, j \in 1 .. Len(Jobs) : Jobs[i] = Jobs[j] => i = j
    /\ Scans \subseteq Job /\ None \notin Job
    /\ interval \in [Job -> Nat \ {0}]
    /\ Loop \in BOOLEAN
    /\ {MaxItems, MaxReturns, MaxOutages} \subseteq Nat

VARIABLES
    running,      \* ScheduledJob._running
    sinceRun,     \* rounds since _last_run, up to the interval
    queue,        \* jobs handed to the executor that have no thread yet
    job,          \* the job of each thread
    pc,           \* its next step
    left,         \* the items it has still to store
    once,         \* run_once: its next step
    found,        \* did its last pass create, link or queue anything?
    returns, outages

scheduler == <<running, sinceRun>>
threads == <<queue, job, pc, left>>
worker == <<once, found>>
bounds == <<returns, outages>>
workerVars == <<vars, scheduler, threads, worker, bounds>>

WorkerInit ==
    /\ Init
    /\ running = [j \in Job |-> FALSE]
    /\ sinceRun = interval
    /\ queue = <<>>
    /\ job = [t \in Thread |-> None]
    /\ pc = [t \in Thread |-> "free"]
    /\ left = [t \in Thread |-> 0]
    /\ once = "off" /\ found = FALSE
    /\ returns = 0 /\ outages = 0

-----------------------------------------------------------------------------
(* The loop of the scheduler.  A job that is due is marked, and its task   *)
(* sets _running and hands the work to a thread before the loop wakes up.  *)

Elapsed(j) == IF sinceRun[j] < interval[j] THEN sinceRun[j] + 1 ELSE sinceRun[j]

DueAlthoughRunning(j) == Elapsed(j) >= interval[j]
Due(j) == ~running[j] /\ Elapsed(j) >= interval[j]

DueJobs == {j \in Job : Due(j)}

\* The due jobs, each once, in the order of Jobs.
InOrder(starts) ==
    /\ \A j \in DueJobs : \E n \in DOMAIN starts : starts[n] = j
    /\ \A m, n \in DOMAIN starts : m < n =>
          \E a, b \in 1 .. Len(Jobs) : a < b /\ Jobs[a] = starts[m] /\ Jobs[b] = starts[n]

Round ==
    /\ running' = [j \in Job |-> running[j] \/ Due(j)]
    /\ sinceRun' = [j \in Job |-> IF Due(j) THEN 0 ELSE Elapsed(j)]
    /\ \E starts \in [1 .. Cardinality(DueJobs) -> DueJobs] :
          InOrder(starts) /\ queue' = queue \o starts
    /\ UNCHANGED <<vars, job, pc, left, worker, bounds>>

-----------------------------------------------------------------------------
(* run_ingest_job, in a thread.                                            *)

Take(t) ==
    /\ pc[t] = "free" /\ queue # <<>>
    /\ job' = [job EXCEPT ![t] = Head(queue)]
    /\ queue' = Tail(queue)
    /\ pc' = [pc EXCEPT ![t] = "fetch"]
    /\ UNCHANGED <<vars, left, scheduler, worker, bounds>>

Free(t) ==
    /\ job' = [job EXCEPT ![t] = None]
    /\ pc' = [pc EXCEPT ![t] = "free"]
    /\ left' = [left EXCEPT ![t] = 0]
    /\ UNCHANGED <<queue, sinceRun>>

End(t) == Free(t) /\ running' = [running EXCEPT ![job[t]] = FALSE]

Goto(t, label, items) ==
    /\ pc' = [pc EXCEPT ![t] = label]
    /\ left' = [left EXCEPT ![t] = items]
    /\ UNCHANGED <<queue, job, scheduler>>

Fetch(t) ==
    /\ pc[t] = "fetch"
    /\ \E items \in 0 .. MaxItems : Goto(t, "store", items)
    /\ UNCHANGED <<vars, worker, bounds>>

StoreItemPastTheLast(t) ==
    /\ pc[t] = "store"
    /\ Goto(t, "store", left[t] - 1)
    /\ (\E s \in Signal : CreateSignal(s)) \/ UNCHANGED vars
    /\ UNCHANGED <<worker, bounds>>

\* Each item is a transaction of its own: it is new, or it is known and has
\* another text, or it is as before.
StoreItem(t) ==
    /\ pc[t] = "store" /\ left[t] > 0
    /\ Goto(t, "store", left[t] - 1)
    /\ \/ (\E s \in Signal : CreateSignal(s)) /\ UNCHANGED returns
       \/ /\ returns < MaxReturns /\ returns' = returns + 1
          /\ \E s \in Signal : UpdateSignal(s)
       \/ stored # {} /\ UNCHANGED <<vars, returns>>
    /\ UNCHANGED <<worker, outages>>

Stored(t) ==
    /\ pc[t] = "store" /\ left[t] = 0
    /\ Goto(t, "pass", 0)
    /\ UNCHANGED <<vars, worker, bounds>>

FailEndingAnyJob(t) ==
    /\ pc[t] \in {"fetch", "store"}
    /\ End(t)
    /\ UNCHANGED <<vars, worker, bounds>>

\* The source cannot be fetched, or one of its items not be stored: a scan goes
\* on to its pass, an ingest job returns.  What is stored stays stored.
Fail(t) ==
    /\ pc[t] \in {"fetch", "store"}
    /\ IF job[t] \in Scans THEN Goto(t, "pass", 0) ELSE End(t)
    /\ UNCHANGED <<vars, worker, bounds>>

PassOverPool == IF Unprocessed = {} THEN UNCHANGED rows ELSE Pass(DefaultLimit)

ClusterAndEnd(t) ==
    /\ pc[t] = "pass"
    /\ PassOverPool
    /\ End(t)
    /\ UNCHANGED <<reclustering, worker, bounds>>

CrashKeepingRunning(t) ==
    /\ pc[t] # "free"
    /\ outages < MaxOutages /\ outages' = outages + 1
    /\ Free(t)
    /\ UNCHANGED <<vars, running, worker, returns>>

\* A statement of the job raises: _run_job logs it.
Crash(t) ==
    /\ pc[t] # "free"
    /\ outages < MaxOutages /\ outages' = outages + 1
    /\ End(t)
    /\ UNCHANGED <<vars, worker, returns>>

\* The process of the scheduler stops and comes back.
Stop ==
    /\ outages < MaxOutages /\ outages' = outages + 1
    /\ running' = [j \in Job |-> FALSE]
    /\ sinceRun' = interval
    /\ queue' = <<>>
    /\ job' = [t \in Thread |-> None]
    /\ pc' = [t \in Thread |-> "free"]
    /\ left' = [t \in Thread |-> 0]
    /\ UNCHANGED <<vars, worker, returns>>

-----------------------------------------------------------------------------
(* run_once.                                                               *)

StartOnce ==
    /\ once = "off"
    /\ once' = "pass" /\ found' = FALSE
    /\ UNCHANGED <<vars, scheduler, threads, bounds>>

OncePass ==
    /\ once = "pass"
    /\ PassOverPool
    /\ found' = (Scored(Batch(DefaultLimit)) # {})
    /\ once' = "count"
    /\ UNCHANGED <<reclustering, scheduler, threads, bounds>>

OnceEnds == ~Loop \/ Unprocessed = {} \/ ~found

OnceCount ==
    /\ once = "count"
    /\ once' = IF OnceEnds THEN "off" ELSE "pass"
    /\ found' = FALSE
    /\ UNCHANGED <<vars, scheduler, threads, bounds>>

OnceFails ==
    /\ once \in {"pass", "count"}
    /\ outages < MaxOutages /\ outages' = outages + 1
    /\ once' = "off" /\ found' = FALSE
    /\ UNCHANGED <<vars, scheduler, threads, returns>>

-----------------------------------------------------------------------------
\* What comes from outside: answers, new and deleted events.  (The answer
\* "recluster" is to the pool what an update of the text and a pass are.)
Request ==
    /\ \/ /\ UNCHANGED returns
          /\ \/ \E i \in Item, e \in Event : ApproveLink(i, e) \/ Reject(i, e)
             \/ \E i \in Item : Discard(i)
             \/ \E e \in Event : CreateEvent(e)
       \/ /\ returns < MaxReturns /\ returns' = returns + 1
          /\ \E e \in Event : DeleteEvent(e)
    /\ UNCHANGED <<scheduler, threads, worker, outages>>

Work(t) ==
    \/ Take(t) \/ Fetch(t) \/ StoreItem(t) \/ Stored(t) \/ Fail(t)
    \/ ClusterAndEnd(t)

Once == StartOnce \/ OncePass \/ OnceCount \/ OnceFails

WorkerNext ==
    \/ Round
    \/ \E t \in Thread : Work(t) \/ Crash(t)
    \/ Stop
    \/ Once
    \/ Request

WorkerSpec == WorkerInit /\ [][WorkerNext]_workerVars

\* The scheduler wakes up and threads run; fetches have timeouts.  Sources may
\* fail for ever, nobody has to answer a question or start run_once.
FairWorkerSpec ==
    /\ WorkerSpec
    /\ WF_workerVars(Round)
    /\ \A t \in Thread : WF_workerVars(Work(t))

-----------------------------------------------------------------------------
(* Properties.                                                             *)

WorkerTypeOK ==
    /\ TypeOK
    /\ running \in [Job -> BOOLEAN]
    /\ \A j \in Job : sinceRun[j] \in 0 .. interval[j]
    /\ queue \in Seq(Job)
    /\ job \in [Thread -> Job \cup {None}]
    /\ pc \in [Thread -> {"free", "fetch", "store", "pass"}]
    /\ \A t \in Thread : pc[t] = "free" <=> job[t] = None
    /\ left \in [Thread -> 0 .. MaxItems]
    /\ once \in {"off", "pass", "count"} /\ found \in BOOLEAN

\* A job that outlives its interval, waiting for a thread or working, is not
\* started again, and _running is not forgotten or left behind
\* (scheduler.py:57-66, :179-187, :203-208).
OneRunAtATime ==
    \A j \in Job :
        LET places == Cardinality({i \in 1 .. Len(queue) : queue[i] = j})
                      + Cardinality({t \in Thread : job[t] = j})
        IN  places = IF running[j] THEN 1 ELSE 0

\* Jobs go on for ever: one that has raised, or was cut off by a stop, or waits
\* for a thread behind others, runs again and ends again.
JobsKeepRunning ==
    \A j \in Job : /\ running[j] ~> ~running[j]
                   /\ ~running[j] ~> running[j]

\* Every signal in the pool is taken up in the end, although sources may fail
\* each time, a pass takes only the oldest signals, and some of those it only
\* flags: a scan clusters whatever became of its source (discovery.py:210-217).
PoolDrains == \A s \in Signal : s \in Unprocessed ~> s \notin Unprocessed
=============================================================================
