-------------------------- MODULE MCWorkerShutdown --------------------------
(* A small server: two queue workers, and two requests for the same worker, *)
(* so that with a channel of one slot a request can find it full.           *)
EXTENDS WorkerShutdown

CONSTANTS profile, schemaSync, r1, r2, none

MCWorkers  == {profile, schemaSync}
MCRequests == {r1, r2}
MCWorkerOf == [r \in MCRequests |-> profile]
=============================================================================
