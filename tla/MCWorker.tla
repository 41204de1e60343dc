------------------------------ MODULE MCWorker ------------------------------
(* Worker with an ingest job and a scan that share one thread; run_once --loop. *)
EXTENDS Worker

CONSTANTS e1, t1

MCSignal == 1 .. 2
MCEvent == {e1}
MCItem == 1 .. 1
MCLimit == {1}
MCJobs == <<"feed", "area">>
MCScans == {"area"}
MCInterval == [j \in {"feed", "area"} |-> IF j = "feed" THEN 1 ELSE 2]
MCThread == {t1}
=============================================================================
