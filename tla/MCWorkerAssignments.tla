------------------------ MODULE MCWorkerAssignments ------------------------
(* Small instances of WorkerAssignments.                                   *)
EXTENDS WorkerAssignments

CONSTANTS h1, h2, live, vod
=============================================================================
