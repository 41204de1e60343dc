------------------------------- MODULE MCLoop -------------------------------
(* run_once --loop while nothing else runs, on whatever the scheduler and    *)
(* the requests before it have left.                                         *)
EXTENDS MCWorker

LoopSpec == WorkerInit /\ [][Once \/ (once = "off" /\ WorkerNext)]_workerVars

\* "--loop: keep clustering until no unprocessed signals remain"
\* (run_once.py:6): whatever is in the pool, in whatever order.
LoopDrains ==
    [][Loop /\ OnceCount /\ once' = "off" => Unprocessed = {}]_workerVars
=============================================================================
