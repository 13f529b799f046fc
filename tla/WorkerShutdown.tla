--------------------------- MODULE WorkerShutdown ---------------------------
(***************************************************************************)
(* The server from the moment it serves requests to the end of main: HTTP  *)
(* requests that hand jobs to background workers, the in-memory queues     *)
(* between them, the job lifecycle of each worker, the cookie sweeper, and *)
(* the shutdown sequence that ends them inside one deadline before the     *)
(* database pool closes.                                                   *)
(*                                                                         *)
(*   cmd/server/main.go, cmd/server/shutdown.go      main, deadline, errs  *)
(*   internal/system/workers/lifecycle.go            stopping .. finished  *)
(*   internal/system/workers/*_worker.go             queueRef, stopper     *)
(*   internal/system/queue/inmemory/inmemory.go      queue, closed         *)
(*                                                                         *)
(* A mutex whose critical section is one assignment or one test is part of *)
(* the step that holds it.  The read lock of Enqueue spans two steps, so a *)
(* request in "sending" is a reader that Close must wait for.              *)
(***************************************************************************)
EXTENDS Naturals, Sequences

CONSTANTS Workers,    \* the queue workers: profile unification, schema sync
          Requests,   \* HTTP requests; each hands one job, itself, to a worker
          WorkerOf,   \* the worker each request hands its job to
          QueueSize,  \* constants.DefaultQueueSize
          NoJob       \* the consumer holds no job

ASSUME WorkersAssumption   == WorkerOf \in [Requests -> Workers]
ASSUME QueueSizeAssumption == QueueSize \in Nat \ {0}
ASSUME NoJobAssumption     == NoJob \notin Requests

VARIABLES
  main,        \* where the main goroutine is
  deadline,    \* the grace period of the shutdown context has passed
  errs,        \* the failures shutdown has joined so far
  pool,        \* the shared database pool: "open" or "closed"
  req,         \* where each request's goroutine is
  job,         \* what became of each request's job
  queueRef,    \* activeProfileQueue / activeSchemaSyncQueue is not nil
  queue,       \* the buffered channel
  closed,      \* the closed flag Enqueue tests
  chanClosed,  \* the channel itself is closed
  stopping,    \* jobLifecycle.stopping
  active,      \* jobLifecycle.active, the WaitGroup counter
  cancelled,   \* the context of the worker's jobs is cancelled
  consumer,    \* where each consumer goroutine is
  current,     \* the job the consumer holds
  stopper,     \* where the goroutine that stops each worker is
  finished,    \* what waitWithin returned
  sweeper,     \* the cookie cleanup goroutine; "off" when it is not configured
  sweepStop    \* where the goroutine that stops the sweeper is

httpVars   == <<req, job>>
queueVars  == <<queueRef, queue, closed, chanClosed>>
lifeVars   == <<stopping, active, cancelled, consumer, current>>
stopVars   == <<stopper, finished>>
sweepVars  == <<sweeper, sweepStop>>
mainVars   == <<main, deadline, errs, pool>>
vars == <<mainVars, httpVars, queueVars, lifeVars, stopVars, sweepVars>>

-----------------------------------------------------------------------------
InFlight == {"serving", "stored", "holding", "sending"}

TypeOK ==
  /\ main \in {"serving", "http", "workers", "pool", "closing", "exited"}
  /\ deadline \in BOOLEAN
  /\ errs \subseteq {"http", "incomplete", "db"}
  /\ pool \in {"open", "closed"}
  /\ req \in [Requests -> InFlight \cup {"new", "done"}]
  /\ job \in [Requests -> {"none", "queued", "dropped", "refused", "running",
                           "spoiled", "completed", "interrupted"}]
  /\ queueRef \in [Workers -> BOOLEAN]
  /\ queue \in [Workers -> Seq(Requests)]
  /\ closed \in [Workers -> BOOLEAN]
  /\ chanClosed \in [Workers -> BOOLEAN]
  /\ stopping \in [Workers -> BOOLEAN]
  /\ active \in [Workers -> Nat]
  /\ cancelled \in [Workers -> BOOLEAN]
  /\ consumer \in [Workers -> {"idle", "offered", "working", "gone"}]
  /\ current \in [Workers -> Requests \cup {NoJob}]
  /\ stopper \in [Workers -> {"off", "swap", "flag", "wait", "mark", "close", "returned"}]
  /\ finished \in [Workers -> BOOLEAN]
  /\ sweeper \in {"off", "waiting", "sweeping", "gone"}
  /\ sweepStop \in {"off", "cancel", "wait", "returned"}

\* The state main reaches when every worker has started and the server listens.
Init ==
  /\ main = "serving"
  /\ deadline = FALSE
  /\ errs = {}
  /\ pool = "open"
  /\ req = [r \in Requests |-> "new"]
  /\ job = [r \in Requests |-> "none"]
  /\ queueRef = [w \in Workers |-> TRUE]
  /\ queue = [w \in Workers |-> <<>>]
  /\ closed = [w \in Workers |-> FALSE]
  /\ chanClosed = [w \in Workers |-> FALSE]
  /\ stopping = [w \in Workers |-> FALSE]
  /\ active = [w \in Workers |-> 0]
  /\ cancelled = [w \in Workers |-> FALSE]
  /\ consumer = [w \in Workers |-> "idle"]
  /\ current = [w \in Workers |-> NoJob]
  /\ stopper = [w \in Workers |-> "off"]
  /\ finished = [w \in Workers |-> FALSE]
  /\ sweeper \in {"off", "waiting"}
  /\ sweepStop = "off"

-----------------------------------------------------------------------------
(***************************************************************************)
(* An HTTP request: it stores what it was asked to store, then hands a job *)
(* to its worker.  A request of the profile API and a schema sync request  *)
(* take the same steps; the schema sync handler also answers an error when *)
(* the job was dropped.                                                    *)
(***************************************************************************)

\* net/http serves a request only while the server is not shutting down.
Arrive(r) ==
  /\ main = "serving"
  /\ req[r] = "new"
  /\ req' = [req EXCEPT ![r] = "serving"]
  /\ UNCHANGED <<job, mainVars, queueVars, lifeVars, stopVars, sweepVars>>

\* The service writes to the database; without the pool the request ends with an error.
Store(r) ==
  /\ req[r] = "serving"
  /\ req' = [req EXCEPT ![r] = IF pool = "open" THEN "stored" ELSE "done"]
  /\ UNCHANGED <<job, mainVars, queueVars, lifeVars, stopVars, sweepVars>>

\* EnqueueProfileForProcessing / EnqueueSchemaSyncJob read the global reference.
LoadQueue(r) ==
  /\ req[r] = "stored"
  /\ IF queueRef[WorkerOf[r]]
     THEN /\ req' = [req EXCEPT ![r] = "holding"]
          /\ UNCHANGED job
     ELSE /\ req' = [req EXCEPT ![r] = "done"]
          /\ job' = [job EXCEPT ![r] = "dropped"]
  /\ UNCHANGED <<mainVars, queueVars, lifeVars, stopVars, sweepVars>>

\* Enqueue takes the read lock and tests the closed flag.
EnqueueLock(r) ==
  /\ req[r] = "holding"
  /\ IF closed[WorkerOf[r]]
     THEN /\ req' = [req EXCEPT ![r] = "done"]
          /\ job' = [job EXCEPT ![r] = "dropped"]
     ELSE /\ req' = [req EXCEPT ![r] = "sending"]
          /\ UNCHANGED job
  /\ UNCHANGED <<mainVars, queueVars, lifeVars, stopVars, sweepVars>>

\* Seeded fault: the default branch of the send returns nil, so a dropped job looks accepted.
EnqueueSend_Silent(r) ==
  LET w == WorkerOf[r] IN
  /\ req[r] = "sending"
  /\ req' = [req EXCEPT ![r] = "done"]
  /\ job' = [job EXCEPT ![r] = "queued"]
  /\ queue' = IF Len(queue[w]) < QueueSize
              THEN [queue EXCEPT ![w] = Append(@, r)]
              ELSE queue
  /\ UNCHANGED <<queueRef, closed, chanClosed, mainVars, lifeVars, stopVars, sweepVars>>

\* The send is non-blocking: a full channel drops the job.  The read lock ends here.
EnqueueSend(r) ==
  LET w == WorkerOf[r] IN
  /\ req[r] = "sending"
  /\ req' = [req EXCEPT ![r] = "done"]
  /\ IF Len(queue[w]) < QueueSize
     THEN /\ queue' = [queue EXCEPT ![w] = Append(@, r)]
          /\ job' = [job EXCEPT ![r] = "queued"]
     ELSE /\ job' = [job EXCEPT ![r] = "dropped"]
          /\ UNCHANGED queue
  /\ UNCHANGED <<queueRef, closed, chanClosed, mainVars, lifeVars, stopVars, sweepVars>>

-----------------------------------------------------------------------------
(***************************************************************************)
(* The consumer goroutine of a worker and the lifecycle of one job.        *)
(***************************************************************************)

\* The range over the channel receives what is buffered, also after the close.
Receive(w) ==
  /\ consumer[w] = "idle"
  /\ queue[w] # <<>>
  /\ consumer' = [consumer EXCEPT ![w] = "offered"]
  /\ current' = [current EXCEPT ![w] = Head(queue[w])]
  /\ queue' = [queue EXCEPT ![w] = Tail(@)]
  /\ UNCHANGED <<queueRef, closed, chanClosed, stopping, active, cancelled,
                 mainVars, httpVars, stopVars, sweepVars>>

\* The range ends once the closed channel is empty.
ConsumerEnds(w) ==
  /\ consumer[w] = "idle"
  /\ queue[w] = <<>>
  /\ chanClosed[w]
  /\ consumer' = [consumer EXCEPT ![w] = "gone"]
  /\ UNCHANGED <<stopping, active, cancelled, current,
                 mainVars, httpVars, queueVars, stopVars, sweepVars>>

\* Seeded fault: run defers active.Done before it asks begin.
RefuseJob_Done(w) ==
  /\ consumer[w] = "offered"
  /\ stopping[w]
  /\ active' = [active EXCEPT ![w] = @ - 1]
  /\ consumer' = [consumer EXCEPT ![w] = "idle"]
  /\ current' = [current EXCEPT ![w] = NoJob]
  /\ job' = [job EXCEPT ![current[w]] = "refused"]
  /\ UNCHANGED <<req, stopping, cancelled,
                 mainVars, queueVars, stopVars, sweepVars>>

\* begin refuses: the job is logged and never runs.
RefuseJob(w) ==
  /\ consumer[w] = "offered"
  /\ stopping[w]
  /\ consumer' = [consumer EXCEPT ![w] = "idle"]
  /\ current' = [current EXCEPT ![w] = NoJob]
  /\ job' = [job EXCEPT ![current[w]] = "refused"]
  /\ UNCHANGED <<req, stopping, active, cancelled,
                 mainVars, queueVars, stopVars, sweepVars>>

\* Seeded fault: begin registers the job without testing stopping under the mutex.
BeginJob_Unpaired(w) ==
  /\ consumer[w] = "offered"
  /\ active' = [active EXCEPT ![w] = @ + 1]
  /\ consumer' = [consumer EXCEPT ![w] = "working"]
  /\ job' = [job EXCEPT ![current[w]] = "running"]
  /\ UNCHANGED <<req, stopping, cancelled, current,
                 mainVars, queueVars, stopVars, sweepVars>>

\* begin tests stopping and counts the job under one mutex.
BeginJob(w) ==
  /\ consumer[w] = "offered"
  /\ ~stopping[w]
  /\ active' = [active EXCEPT ![w] = @ + 1]
  /\ consumer' = [consumer EXCEPT ![w] = "working"]
  /\ job' = [job EXCEPT ![current[w]] = "running"]
  /\ UNCHANGED <<req, stopping, cancelled, current,
                 mainVars, queueVars, stopVars, sweepVars>>

\* A database call of the job fails: its context is cancelled or the pool is closed.
LoseDatabase(w) ==
  /\ consumer[w] = "working"
  /\ cancelled[w] \/ pool = "closed"
  /\ job[current[w]] = "running"
  /\ job' = [job EXCEPT ![current[w]] = "spoiled"]
  /\ UNCHANGED <<req, mainVars, queueVars, lifeVars, stopVars, sweepVars>>

\* Seeded fault: the consumer goroutine handles one job and ends.
ReturnFromJob_OneShot(w) ==
  /\ consumer[w] = "working"
  /\ active' = [active EXCEPT ![w] = @ - 1]
  /\ consumer' = [consumer EXCEPT ![w] = "gone"]
  /\ current' = [current EXCEPT ![w] = NoJob]
  /\ job' = [job EXCEPT ![current[w]] =
               IF @ = "spoiled" THEN "interrupted" ELSE "completed"]
  /\ UNCHANGED <<req, stopping, cancelled,
                 mainVars, queueVars, stopVars, sweepVars>>

\* The handler returns and the deferred active.Done runs.
ReturnFromJob(w) ==
  /\ consumer[w] = "working"
  /\ active' = [active EXCEPT ![w] = @ - 1]
  /\ consumer' = [consumer EXCEPT ![w] = "idle"]
  /\ current' = [current EXCEPT ![w] = NoJob]
  /\ job' = [job EXCEPT ![current[w]] =
               IF @ = "spoiled" THEN "interrupted" ELSE "completed"]
  /\ UNCHANGED <<req, stopping, cancelled,
                 mainVars, queueVars, stopVars, sweepVars>>

-----------------------------------------------------------------------------
(***************************************************************************)
(* Stopping one queue worker: StopProfileWorker / StopSchemaSyncWorker,    *)
(* then jobLifecycle.stop, then Close of the queue.                        *)
(***************************************************************************)

\* The reference becomes nil under the write lock; a second caller finds nil and returns.
SwapQueue(w) ==
  /\ stopper[w] = "swap"
  /\ stopper' = [stopper EXCEPT ![w] = IF queueRef[w] THEN "flag" ELSE "returned"]
  /\ queueRef' = [queueRef EXCEPT ![w] = FALSE]
  /\ UNCHANGED <<queue, closed, chanClosed, finished,
                 mainVars, httpVars, lifeVars, sweepVars>>

\* stop sets stopping under the mutex begin takes.
SetStopping(w) ==
  /\ stopper[w] = "flag"
  /\ stopper' = [stopper EXCEPT ![w] = "wait"]
  /\ stopping' = [stopping EXCEPT ![w] = TRUE]
  /\ UNCHANGED <<active, cancelled, consumer, current, finished,
                 mainVars, httpVars, queueVars, sweepVars>>

\* waitWithin: every active job returned.
WaitEnds(w) ==
  /\ stopper[w] = "wait"
  /\ active[w] = 0
  /\ finished' = [finished EXCEPT ![w] = TRUE]
  /\ stopper' = [stopper EXCEPT ![w] = "mark"]
  /\ UNCHANGED <<mainVars, httpVars, queueVars, lifeVars, sweepVars>>

\* Seeded fault: at the deadline the wait for the jobs just goes on.
WaitExpires_Ignored(w) ==
  /\ stopper[w] = "wait"
  /\ deadline
  /\ UNCHANGED vars

\* waitWithin: the context expired.  When both channels of its select are ready the
\* choice is random, so an idle worker may end here too.  The jobs are cancelled.
WaitExpires(w) ==
  /\ stopper[w] = "wait"
  /\ deadline
  /\ cancelled' = [cancelled EXCEPT ![w] = TRUE]
  /\ stopper' = [stopper EXCEPT ![w] = "mark"]
  /\ UNCHANGED <<stopping, active, consumer, current, finished,
                 mainVars, httpVars, queueVars, sweepVars>>

\* Seeded fault: Close sets the flag without the write lock.
MarkClosed_NoLock(w) ==
  /\ stopper[w] = "mark"
  /\ closed' = [closed EXCEPT ![w] = TRUE]
  /\ stopper' = [stopper EXCEPT ![w] = "close"]
  /\ UNCHANGED <<queueRef, queue, chanClosed, finished,
                 mainVars, httpVars, lifeVars, sweepVars>>

\* Close sets the flag under the write lock, so no request is inside Enqueue.
MarkClosed(w) ==
  /\ stopper[w] = "mark"
  /\ \A r \in Requests : req[r] = "sending" => WorkerOf[r] # w
  /\ closed' = [closed EXCEPT ![w] = TRUE]
  /\ stopper' = [stopper EXCEPT ![w] = "close"]
  /\ UNCHANGED <<queueRef, queue, chanClosed, finished,
                 mainVars, httpVars, lifeVars, sweepVars>>

\* Seeded fault: an expired wait is reported as a clean stop.
CloseChannel_Silent(w) ==
  /\ stopper[w] = "close"
  /\ chanClosed' = [chanClosed EXCEPT ![w] = TRUE]
  /\ cancelled' = [cancelled EXCEPT ![w] = TRUE]
  /\ stopper' = [stopper EXCEPT ![w] = "returned"]
  /\ UNCHANGED <<queueRef, queue, closed, stopping, active, consumer, current,
                 finished, mainVars, httpVars, sweepVars>>

\* Close closes the channel outside the lock, once; stop then cancels the job
\* context and reports ErrShutdownIncomplete if the wait had expired.
CloseChannel(w) ==
  /\ stopper[w] = "close"
  /\ chanClosed' = [chanClosed EXCEPT ![w] = TRUE]
  /\ cancelled' = [cancelled EXCEPT ![w] = TRUE]
  /\ errs' = IF finished[w] THEN errs ELSE errs \cup {"incomplete"}
  /\ stopper' = [stopper EXCEPT ![w] = "returned"]
  /\ UNCHANGED <<queueRef, queue, closed, stopping, active, consumer, current,
                 finished, main, deadline, pool, httpVars, sweepVars>>

-----------------------------------------------------------------------------
(***************************************************************************)
(* The cookie cleanup goroutine and StopCookieCleanupWorker.               *)
(***************************************************************************)

\* The ticker fires.  Its select does not prefer the cancelled context.
SweepStarts ==
  /\ sweeper = "waiting"
  /\ sweeper' = "sweeping"
  /\ UNCHANGED <<sweepStop, mainVars, httpVars, queueVars, lifeVars, stopVars>>

\* The last batch is deleted, or a batch fails: the sweep ends either way.
SweepEnds ==
  /\ sweeper = "sweeping"
  /\ sweeper' = "waiting"
  /\ UNCHANGED <<sweepStop, mainVars, httpVars, queueVars, lifeVars, stopVars>>

\* The goroutine sees the cancelled context, returns, and closes done.
SweeperReturns ==
  /\ sweeper = "waiting"
  /\ sweepStop \in {"wait", "returned"}
  /\ sweeper' = "gone"
  /\ UNCHANGED <<sweepStop, mainVars, httpVars, queueVars, lifeVars, stopVars>>

\* The stop cancels at once, or returns when no sweeper was started.
CancelSweeper ==
  /\ sweepStop = "cancel"
  /\ sweepStop' = IF sweeper = "off" THEN "returned" ELSE "wait"
  /\ UNCHANGED <<sweeper, mainVars, httpVars, queueVars, lifeVars, stopVars>>

\* The goroutine is gone, or the deadline passed first.
SweeperStopped ==
  /\ sweepStop = "wait"
  /\ \/ /\ sweeper = "gone"
        /\ UNCHANGED errs
     \/ /\ deadline
        /\ errs' = errs \cup {"incomplete"}
  /\ sweepStop' = "returned"
  /\ UNCHANGED <<sweeper, main, deadline, pool,
                 httpVars, queueVars, lifeVars, stopVars>>

-----------------------------------------------------------------------------
(***************************************************************************)
(* main and shutdown.                                                      *)
(***************************************************************************)

\* A signal arrives; the deadline starts and http.Server.Shutdown closes the listener.
Signal ==
  /\ main = "serving"
  /\ main' = "http"
  /\ UNCHANGED <<deadline, errs, pool, httpVars, queueVars, lifeVars, stopVars, sweepVars>>

\* The timer of the shutdown context fires.
DeadlinePasses ==
  /\ main # "serving"
  /\ ~deadline
  /\ deadline' = TRUE
  /\ UNCHANGED <<main, errs, pool, httpVars, queueVars, lifeVars, stopVars, sweepVars>>

\* http.Server.Shutdown returns nil when no request is in flight, the context's
\* error at the deadline; either way every worker's stop starts, concurrently.
HTTPStopped ==
  /\ main = "http"
  /\ \/ /\ \A r \in Requests : req[r] \notin InFlight
        /\ UNCHANGED errs
     \/ /\ deadline
        /\ errs' = errs \cup {"http"}
  /\ main' = "workers"
  /\ stopper' = [w \in Workers |-> "swap"]
  /\ sweepStop' = "cancel"
  /\ UNCHANGED <<deadline, pool, sweeper, finished, httpVars, queueVars, lifeVars>>

\* Seeded fault: the pool closes as soon as the stops have been started.
WorkersStopped_NoJoin ==
  /\ main = "workers"
  /\ main' = "pool"
  /\ UNCHANGED <<deadline, errs, pool, httpVars, queueVars, lifeVars, stopVars, sweepVars>>

\* stopping.Wait() returns.
WorkersStopped ==
  /\ main = "workers"
  /\ \A w \in Workers : stopper[w] = "returned"
  /\ sweepStop = "returned"
  /\ main' = "pool"
  /\ UNCHANGED <<deadline, errs, pool, httpVars, queueVars, lifeVars, stopVars, sweepVars>>

\* closeDB always runs; the close itself may fail.
CloseDB ==
  /\ main = "pool"
  /\ pool' = "closed"
  /\ main' = "closing"
  /\ \/ UNCHANGED errs
     \/ errs' = errs \cup {"db"}
  /\ UNCHANGED <<deadline, httpVars, queueVars, lifeVars, stopVars, sweepVars>>

\* main returns and the process ends, with every goroutine it still has.
Exit ==
  /\ main = "closing"
  /\ main' = "exited"
  /\ UNCHANGED <<deadline, errs, pool, httpVars, queueVars, lifeVars, stopVars, sweepVars>>

\* The process is gone.
Terminated ==
  /\ main = "exited"
  /\ UNCHANGED vars

-----------------------------------------------------------------------------
Request(r) == Arrive(r) \/ Store(r) \/ LoadQueue(r) \/ EnqueueLock(r) \/ EnqueueSend(r)

Consume(w) == Receive(w) \/ ConsumerEnds(w) \/ RefuseJob(w) \/ BeginJob(w)

Work(w) == LoseDatabase(w) \/ ReturnFromJob(w)

Stop(w) == \/ SwapQueue(w) \/ SetStopping(w) \/ WaitEnds(w) \/ WaitExpires(w)
           \/ MarkClosed(w) \/ CloseChannel(w)

Sweep == SweepStarts \/ SweepEnds \/ SweeperReturns

Main == \/ Signal \/ HTTPStopped \/ WorkersStopped \/ CloseDB \/ Exit
        \/ CancelSweeper \/ SweeperStopped

Step ==
  \/ \E r \in Requests : Request(r)
  \/ \E w \in Workers : Consume(w) \/ Work(w) \/ Stop(w)
  \/ Sweep
  \/ DeadlinePasses
  \/ Main

Next ==
  \/ main # "exited" /\ Step
  \/ Terminated

Spec == Init /\ [][Next]_vars

\* What the Go scheduler and the timer give without any help from the database: a
\* request inside Enqueue leaves it, the stops and main take their steps, the deadline
\* passes.  Nothing is assumed of a job, a sweep, or a request that waits for the database.
StopFairness ==
  /\ \A r \in Requests : WF_vars(main # "exited" /\ EnqueueSend(r))
  /\ \A w \in Workers : WF_vars(main # "exited" /\ Stop(w))
  /\ WF_vars(main # "exited" /\ DeadlinePasses)
  /\ WF_vars(main # "serving" /\ Main)

FairSpec == Spec /\ StopFairness

\* The consumers are scheduled and the work of a job ends.
ConsumerFairness == \A w \in Workers : WF_vars(main # "exited" /\ (Consume(w) \/ Work(w)))

-----------------------------------------------------------------------------
(***************************************************************************)
(* Properties.                                                             *)
(***************************************************************************)

\* No request sends on a closed channel, which would end the process with a panic:
\* the read lock of Enqueue, the write lock of Close and the order flag-then-close.
NoSendOnClosedChannel ==
  \A r \in Requests : req[r] = "sending" => ~chanClosed[WorkerOf[r]]

\* Once a stop has seen the WaitGroup at zero no job of that worker is at work again:
\* stopping and active.Add share one mutex, so Add never runs after Wait.
WaitIsFinal ==
  \A w \in Workers : finished[w] => active[w] = 0 /\ consumer[w] # "working"

\* A shutdown that reports nil cut nothing short: when the pool is closed no request is
\* in flight, no job is at work or was interrupted, and the sweeper is gone.
CleanShutdownCutsNothing ==
  pool = "closed" /\ errs = {} =>
    /\ \A r \in Requests : /\ req[r] \notin InFlight
                           /\ job[r] \notin {"running", "spoiled", "interrupted"}
    /\ sweeper \in {"off", "gone"}

\* A job that was accepted is in exactly one place until its fate is known: once in the
\* channel, or in the hands of the consumer.
AcceptedJobIsHeld ==
  \A r \in Requests :
    LET w  == WorkerOf[r]
        at == {i \in 1..Len(queue[w]) : queue[w][i] = r}
    IN  /\ job[r] = "queued" <=>
             (at # {} \/ (consumer[w] = "offered" /\ current[w] = r))
        /\ at # {} => /\ \A i, j \in at : i = j
                      /\ current[w] # r

\* Whatever the jobs, the requests and the sweeper do, a signal leads to the end of main:
\* every wait of the sequence is bounded by the deadline.
ShutdownTerminates == main # "serving" ~> main = "exited"

\* If the consumer is scheduled and jobs end, an accepted job is run or refused before
\* the process ends, or the process ends.
AcceptedJobSettles ==
  ConsumerFairness =>
    \A r \in Requests :
      job[r] = "queued" ~> (job[r] \in {"refused", "completed", "interrupted"}
                            \/ main = "exited")

\* The abstract contract of a shutdown, with the jobs of the queue workers as its jobs.
Contract ==
  INSTANCE ShutdownContract WITH
    Jobs    <- Requests,
    phase   <- IF main = "serving" THEN "up" ELSE IF pool = "open" THEN "draining" ELSE "down",
    late    <- deadline,
    started <- {r \in Requests : job[r] \in {"running", "spoiled", "completed", "interrupted"}},
    busy    <- {r \in Requests : job[r] \in {"running", "spoiled"}},
    hurt    <- {r \in Requests : job[r] \in {"spoiled", "interrupted"}},
    verdict <- IF pool = "open" THEN "none" ELSE IF errs = {} THEN "clean" ELSE "failed"

\* The server keeps the contract: a job begins once and before the pool is gone, loses its
\* database only after the deadline, and a clean verdict covers no job that was cut short.
KeepsContract == Contract!Spec

=============================================================================
