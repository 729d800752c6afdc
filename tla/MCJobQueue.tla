----------------------------- MODULE MCJobQueue -----------------------------
(* Instances of JobQueue for TLC. *)
EXTENDS JobQueue, FiniteSets

\* All processes report the same worker_id: the case in which only the lease
\* token tells a restarted worker from the process it replaces.
MCWorkerId == [w \in Workers |-> CHOOSE id \in WorkerIds : TRUE]
MCTimes == 0 .. 2

\* A new job has 0 of both, an attempt that is under way 1.
MCCounts == {1}
MCCodes == {"YTDLP_TIMEOUT", "WORKER_DISK_CAPACITY_LOW"}

\* Every request can be given a row.
ASSUME EnoughJobs == Cardinality(Jobs) >= MaxRequests
=============================================================================
