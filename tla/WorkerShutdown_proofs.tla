------------------------ MODULE WorkerShutdown_proofs ------------------------
(***************************************************************************)
(* The safety of the shutdown sequence, and the refinement of its          *)
(* contract, for every set of workers and requests and every channel size. *)
(***************************************************************************)
EXTENDS WorkerShutdown, SequenceTheorems, TLAPS

\* The steps of a stop after the wait.
Waited == {"mark", "close", "returned"}

\* The WaitGroup counts the one job the consumer has at work, and never after the wait.
CountInv ==
  \A w \in Workers :
    /\ active[w] = IF consumer[w] = "working" THEN 1 ELSE 0
    /\ finished[w] => stopping[w] /\ consumer[w] # "working"
    /\ finished[w] \/ cancelled[w] => stopper[w] \in Waited
    /\ stopper[w] \in Waited \cup {"wait"} => stopping[w]

\* How far each stop has gone says what is set; the reference is there until its swap.
StopInv ==
  \A w \in Workers :
    /\ stopper[w] \in {"off", "swap"} => queueRef[w]
    /\ stopper[w] = "close" => closed[w]
    /\ chanClosed[w] => closed[w]
    /\ stopper[w] = "returned" /\ ~finished[w] => "incomplete" \in errs

\* A request inside Enqueue has seen the flag clear and holds the read lock since.
SendInv == \A r \in Requests : req[r] = "sending" => ~closed[WorkerOf[r]]

\* A worker only meets its own jobs, and a job at work is the one its consumer holds.
JobInv ==
  /\ \A w \in Workers :
       /\ \A i \in 1..Len(queue[w]) : WorkerOf[queue[w][i]] = w
       /\ consumer[w] \in {"offered", "working"} =>
            current[w] \in Requests /\ WorkerOf[current[w]] = w
  /\ \A r \in Requests :
       job[r] \in {"running", "spoiled"} =>
         consumer[WorkerOf[r]] = "working" /\ current[WorkerOf[r]] = r

\* A job is cut short only by a stop that gave up waiting for it.
HurtInv ==
  \A r \in Requests :
    job[r] \in {"spoiled", "interrupted"} =>
      stopper[WorkerOf[r]] \in Waited /\ ~finished[WorkerOf[r]]

\* Where main is says what has stopped.
MainInv ==
  /\ main \in {"serving", "http"} => \A w \in Workers : stopper[w] = "off"
  /\ main \notin {"serving", "http"} =>
       (\A r \in Requests : req[r] \notin InFlight) \/ "http" \in errs
  /\ main \in {"pool", "closing", "exited"} =>
       sweepStop = "returned" /\ \A w \in Workers : stopper[w] = "returned"
  /\ pool = "closed" <=> main \in {"closing", "exited"}
  /\ sweepStop = "returned" => sweeper \in {"off", "gone"} \/ "incomplete" \in errs

IInv == TypeOK /\ CountInv /\ StopInv /\ SendInv /\ JobInv /\ HurtInv /\ MainInv

-----------------------------------------------------------------------------
(***************************************************************************)
(* Type correctness.                                                       *)
(***************************************************************************)

\* An element of an appended sequence is an old one at its old place, or the new one.
LEMMA AppendElements ==
  ASSUME NEW S, NEW s \in Seq(S), NEW e \in S, NEW i \in 1..Len(Append(s, e))
  PROVE  \/ i \in 1..Len(s) /\ Append(s, e)[i] = s[i]
         \/ Append(s, e)[i] = e
  BY AppendProperties

LEMMA InitTypeOK == Init => TypeOK
<1> SUFFICES ASSUME Init PROVE TypeOK
  OBVIOUS
<1>1. queue \in [Workers -> Seq(Requests)]
  BY DEF Init
<1>2. req \in [Requests -> InFlight \cup {"new", "done"}]
  BY DEF Init
<1>3. job \in [Requests -> {"none", "queued", "dropped", "refused", "running",
                           "spoiled", "completed", "interrupted"}]
  BY DEF Init
<1>4. current \in [Workers -> Requests \cup {NoJob}]
  BY DEF Init
<1>5. stopper \in [Workers -> {"off", "swap", "flag", "wait", "mark", "close", "returned"}]
  BY DEF Init
<1> QED
  BY <1>1, <1>2, <1>3, <1>4, <1>5 DEF Init, TypeOK

LEMMA StepTypeOK ==
  ASSUME TypeOK, CountInv, JobInv, [Next]_vars
  PROVE  TypeOK'
<1> USE WorkersAssumption, QueueSizeAssumption DEF TypeOK, InFlight,
       mainVars, httpVars, queueVars, lifeVars, stopVars, sweepVars
<1>1. ASSUME NEW r \in Requests, Arrive(r) PROVE TypeOK'
  BY <1>1 DEF Arrive
<1>2. ASSUME NEW r \in Requests, Store(r) PROVE TypeOK'
  BY <1>2 DEF Store
<1>3. ASSUME NEW r \in Requests, LoadQueue(r) PROVE TypeOK'
  <2>1. req' \in [Requests -> InFlight \cup {"new", "done"}]
    <3>1. \/ req' = [req EXCEPT ![r] = "done"]
          \/ req' = [req EXCEPT ![r] = "holding"]
      BY <1>3 DEF LoadQueue
    <3> QED
      BY <3>1
  <2>2. job' \in [Requests -> {"none", "queued", "dropped", "refused", "running",
                              "spoiled", "completed", "interrupted"}]
    BY <1>3 DEF LoadQueue
  <2> QED
    BY <1>3, <2>1, <2>2 DEF LoadQueue
<1>4. ASSUME NEW r \in Requests, EnqueueLock(r) PROVE TypeOK'
  <2>1. req' \in [Requests -> InFlight \cup {"new", "done"}]
    <3>1. \/ req' = [req EXCEPT ![r] = "done"]
          \/ req' = [req EXCEPT ![r] = "sending"]
      BY <1>4 DEF EnqueueLock
    <3> QED
      BY <3>1
  <2>2. job' \in [Requests -> {"none", "queued", "dropped", "refused", "running",
                              "spoiled", "completed", "interrupted"}]
    BY <1>4 DEF EnqueueLock
  <2> QED
    BY <1>4, <2>1, <2>2 DEF EnqueueLock
<1>5. ASSUME NEW r \in Requests, EnqueueSend(r) PROVE TypeOK'
  <2>1. queue' \in [Workers -> Seq(Requests)]
    <3> DEFINE T == Seq(Requests)
    <3>1. queue \in [Workers -> T] /\ WorkerOf[r] \in Workers
      OBVIOUS
    <3>2. Append(queue[WorkerOf[r]], r) \in T
      BY <3>1, AppendProperties
    <3>3. \/ queue' = [queue EXCEPT ![WorkerOf[r]] = Append(queue[WorkerOf[r]], r)]
          \/ queue' = queue
      BY <1>5 DEF EnqueueSend
    <3> HIDE DEF T, TypeOK
    <3>4. queue' \in [Workers -> T]
      BY <3>1, <3>2, <3>3
    <3> QED
      BY <3>4 DEF T
  <2>2. job' \in [Requests -> {"none", "queued", "dropped", "refused", "running",
                              "spoiled", "completed", "interrupted"}]
    BY <1>5 DEF EnqueueSend
  <2> QED
    BY <1>5, <2>1, <2>2 DEF EnqueueSend
<1>6. ASSUME NEW w \in Workers, Receive(w) PROVE TypeOK'
  BY <1>6 DEF Receive
<1>7. ASSUME NEW w \in Workers, ConsumerEnds(w) PROVE TypeOK'
  BY <1>7 DEF ConsumerEnds
<1>8. ASSUME NEW w \in Workers, RefuseJob(w) PROVE TypeOK'
  BY <1>8 DEF RefuseJob
<1>9. ASSUME NEW w \in Workers, BeginJob(w) PROVE TypeOK'
  <2>1. active' \in [Workers -> Nat]
    BY <1>9 DEF BeginJob
  <2>2. job' \in [Requests -> {"none", "queued", "dropped", "refused", "running",
                              "spoiled", "completed", "interrupted"}]
    BY <1>9 DEF BeginJob
  <2> QED
    BY <1>9, <2>1, <2>2 DEF BeginJob
<1>10. ASSUME NEW w \in Workers, LoseDatabase(w) PROVE TypeOK'
  BY <1>10 DEF LoseDatabase
<1>11. ASSUME NEW w \in Workers, ReturnFromJob(w) PROVE TypeOK'
  <2>1. active' \in [Workers -> Nat]
    BY <1>11 DEF ReturnFromJob, CountInv
  <2>2. current[w] \in Requests
    BY <1>11 DEF ReturnFromJob, JobInv
  <2>3. job' \in [Requests -> {"none", "queued", "dropped", "refused", "running",
                              "spoiled", "completed", "interrupted"}]
    BY <1>11, <2>2 DEF ReturnFromJob
  <2> QED
    BY <1>11, <2>1, <2>3 DEF ReturnFromJob
<1>12. ASSUME NEW w \in Workers, SwapQueue(w) PROVE TypeOK'
  BY <1>12 DEF SwapQueue
<1>13. ASSUME NEW w \in Workers, SetStopping(w) PROVE TypeOK'
  BY <1>13 DEF SetStopping
<1>14. ASSUME NEW w \in Workers, WaitEnds(w) PROVE TypeOK'
  BY <1>14 DEF WaitEnds
<1>15. ASSUME NEW w \in Workers, WaitExpires(w) PROVE TypeOK'
  BY <1>15 DEF WaitExpires
<1>16. ASSUME NEW w \in Workers, MarkClosed(w) PROVE TypeOK'
  BY <1>16 DEF MarkClosed
<1>17. ASSUME NEW w \in Workers, CloseChannel(w) PROVE TypeOK'
  BY <1>17 DEF CloseChannel
<1>18. CASE SweepStarts
  BY <1>18 DEF SweepStarts
<1>19. CASE SweepEnds
  BY <1>19 DEF SweepEnds
<1>20. CASE SweeperReturns
  BY <1>20 DEF SweeperReturns
<1>21. CASE CancelSweeper
  BY <1>21 DEF CancelSweeper
<1>22. CASE SweeperStopped
  BY <1>22 DEF SweeperStopped
<1>23. CASE Signal
  BY <1>23 DEF Signal
<1>24. CASE DeadlinePasses
  BY <1>24 DEF DeadlinePasses
<1>25. CASE HTTPStopped
  BY <1>25 DEF HTTPStopped
<1>26. CASE WorkersStopped
  BY <1>26 DEF WorkersStopped
<1>27. CASE CloseDB
  BY <1>27 DEF CloseDB
<1>28. CASE Exit
  BY <1>28 DEF Exit
<1>29. CASE UNCHANGED vars
  BY <1>29 DEF vars
<1> QED
  BY <1>1, <1>2, <1>3, <1>4, <1>5, <1>6, <1>7, <1>8, <1>9, <1>10, <1>11, <1>12, <1>13, <1>14, <1>15, <1>16, <1>17, <1>18, <1>19, <1>20, <1>21, <1>22, <1>23, <1>24, <1>25, <1>26, <1>27, <1>28, <1>29
     DEF Next, Step, Request, Consume, Work, Stop, Sweep, Main, Terminated

LEMMA StepCountInv ==
  ASSUME IInv, TypeOK', [Next]_vars
  PROVE  CountInv'
<1> USE WorkersAssumption DEF IInv, TypeOK, CountInv, Waited,
       mainVars, httpVars, queueVars, lifeVars, stopVars, sweepVars
<1>1. ASSUME NEW r \in Requests, Arrive(r) PROVE CountInv'
  BY <1>1 DEF Arrive
<1>2. ASSUME NEW r \in Requests, Store(r) PROVE CountInv'
  BY <1>2 DEF Store
<1>3. ASSUME NEW r \in Requests, LoadQueue(r) PROVE CountInv'
  BY <1>3 DEF LoadQueue
<1>4. ASSUME NEW r \in Requests, EnqueueLock(r) PROVE CountInv'
  BY <1>4 DEF EnqueueLock
<1>5. ASSUME NEW r \in Requests, EnqueueSend(r) PROVE CountInv'
  BY <1>5 DEF EnqueueSend
<1>6. ASSUME NEW w \in Workers, Receive(w) PROVE CountInv'
  BY <1>6 DEF Receive
<1>7. ASSUME NEW w \in Workers, ConsumerEnds(w) PROVE CountInv'
  BY <1>7 DEF ConsumerEnds
<1>8. ASSUME NEW w \in Workers, RefuseJob(w) PROVE CountInv'
  BY <1>8 DEF RefuseJob
<1>9. ASSUME NEW w \in Workers, BeginJob(w) PROVE CountInv'
  BY <1>9 DEF BeginJob
<1>10. ASSUME NEW w \in Workers, LoseDatabase(w) PROVE CountInv'
  BY <1>10 DEF LoseDatabase
<1>11. ASSUME NEW w \in Workers, ReturnFromJob(w) PROVE CountInv'
  BY <1>11 DEF ReturnFromJob
<1>12. ASSUME NEW w \in Workers, SwapQueue(w) PROVE CountInv'
  BY <1>12 DEF StopInv, SwapQueue
<1>13. ASSUME NEW w \in Workers, SetStopping(w) PROVE CountInv'
  BY <1>13 DEF SetStopping
<1>14. ASSUME NEW w \in Workers, WaitEnds(w) PROVE CountInv'
  BY <1>14 DEF WaitEnds
<1>15. ASSUME NEW w \in Workers, WaitExpires(w) PROVE CountInv'
  BY <1>15 DEF WaitExpires
<1>16. ASSUME NEW w \in Workers, MarkClosed(w) PROVE CountInv'
  BY <1>16 DEF MarkClosed
<1>17. ASSUME NEW w \in Workers, CloseChannel(w) PROVE CountInv'
  BY <1>17 DEF CloseChannel
<1>18. CASE SweepStarts
  BY <1>18 DEF SweepStarts
<1>19. CASE SweepEnds
  BY <1>19 DEF SweepEnds
<1>20. CASE SweeperReturns
  BY <1>20 DEF SweeperReturns
<1>21. CASE CancelSweeper
  BY <1>21 DEF CancelSweeper
<1>22. CASE SweeperStopped
  BY <1>22 DEF SweeperStopped
<1>23. CASE Signal
  BY <1>23 DEF Signal
<1>24. CASE DeadlinePasses
  BY <1>24 DEF DeadlinePasses
<1>25. CASE HTTPStopped
  BY <1>25 DEF MainInv, HTTPStopped
<1>26. CASE WorkersStopped
  BY <1>26 DEF WorkersStopped
<1>27. CASE CloseDB
  BY <1>27 DEF CloseDB
<1>28. CASE Exit
  BY <1>28 DEF Exit
<1>29. CASE UNCHANGED vars
  BY <1>29 DEF vars
<1> QED
  BY <1>1, <1>2, <1>3, <1>4, <1>5, <1>6, <1>7, <1>8, <1>9, <1>10, <1>11, <1>12, <1>13, <1>14, <1>15, <1>16, <1>17, <1>18, <1>19, <1>20, <1>21, <1>22, <1>23, <1>24, <1>25, <1>26, <1>27, <1>28, <1>29
     DEF Next, Step, Request, Consume, Work, Stop, Sweep, Main, Terminated

LEMMA StepStopInv ==
  ASSUME IInv, TypeOK', [Next]_vars
  PROVE  StopInv'
<1> USE WorkersAssumption DEF IInv, TypeOK, StopInv,
       mainVars, httpVars, queueVars, lifeVars, stopVars, sweepVars
<1>1. ASSUME NEW r \in Requests, Arrive(r) PROVE StopInv'
  BY <1>1 DEF Arrive
<1>2. ASSUME NEW r \in Requests, Store(r) PROVE StopInv'
  BY <1>2 DEF Store
<1>3. ASSUME NEW r \in Requests, LoadQueue(r) PROVE StopInv'
  BY <1>3 DEF LoadQueue
<1>4. ASSUME NEW r \in Requests, EnqueueLock(r) PROVE StopInv'
  BY <1>4 DEF EnqueueLock
<1>5. ASSUME NEW r \in Requests, EnqueueSend(r) PROVE StopInv'
  BY <1>5 DEF EnqueueSend
<1>6. ASSUME NEW w \in Workers, Receive(w) PROVE StopInv'
  BY <1>6 DEF Receive
<1>7. ASSUME NEW w \in Workers, ConsumerEnds(w) PROVE StopInv'
  BY <1>7 DEF ConsumerEnds
<1>8. ASSUME NEW w \in Workers, RefuseJob(w) PROVE StopInv'
  BY <1>8 DEF RefuseJob
<1>9. ASSUME NEW w \in Workers, BeginJob(w) PROVE StopInv'
  BY <1>9 DEF BeginJob
<1>10. ASSUME NEW w \in Workers, LoseDatabase(w) PROVE StopInv'
  BY <1>10 DEF LoseDatabase
<1>11. ASSUME NEW w \in Workers, ReturnFromJob(w) PROVE StopInv'
  BY <1>11 DEF ReturnFromJob
<1>12. ASSUME NEW w \in Workers, SwapQueue(w) PROVE StopInv'
  BY <1>12 DEF SwapQueue
<1>13. ASSUME NEW w \in Workers, SetStopping(w) PROVE StopInv'
  BY <1>13 DEF SetStopping
<1>14. ASSUME NEW w \in Workers, WaitEnds(w) PROVE StopInv'
  BY <1>14 DEF WaitEnds
<1>15. ASSUME NEW w \in Workers, WaitExpires(w) PROVE StopInv'
  BY <1>15 DEF WaitExpires
<1>16. ASSUME NEW w \in Workers, MarkClosed(w) PROVE StopInv'
  BY <1>16 DEF MarkClosed
<1>17. ASSUME NEW w \in Workers, CloseChannel(w) PROVE StopInv'
  BY <1>17 DEF CloseChannel
<1>18. CASE SweepStarts
  BY <1>18 DEF SweepStarts
<1>19. CASE SweepEnds
  BY <1>19 DEF SweepEnds
<1>20. CASE SweeperReturns
  BY <1>20 DEF SweeperReturns
<1>21. CASE CancelSweeper
  BY <1>21 DEF CancelSweeper
<1>22. CASE SweeperStopped
  BY <1>22 DEF SweeperStopped
<1>23. CASE Signal
  BY <1>23 DEF Signal
<1>24. CASE DeadlinePasses
  BY <1>24 DEF DeadlinePasses
<1>25. CASE HTTPStopped
  BY <1>25 DEF MainInv, CountInv, HTTPStopped
<1>26. CASE WorkersStopped
  BY <1>26 DEF WorkersStopped
<1>27. CASE CloseDB
  BY <1>27 DEF CloseDB
<1>28. CASE Exit
  BY <1>28 DEF Exit
<1>29. CASE UNCHANGED vars
  BY <1>29 DEF vars
<1> QED
  BY <1>1, <1>2, <1>3, <1>4, <1>5, <1>6, <1>7, <1>8, <1>9, <1>10, <1>11, <1>12, <1>13, <1>14, <1>15, <1>16, <1>17, <1>18, <1>19, <1>20, <1>21, <1>22, <1>23, <1>24, <1>25, <1>26, <1>27, <1>28, <1>29
     DEF Next, Step, Request, Consume, Work, Stop, Sweep, Main, Terminated

LEMMA StepSendInv ==
  ASSUME IInv, TypeOK', [Next]_vars
  PROVE  SendInv'
<1> USE WorkersAssumption DEF IInv, TypeOK, SendInv,
       mainVars, httpVars, queueVars, lifeVars, stopVars, sweepVars
<1>1. ASSUME NEW r \in Requests, Arrive(r) PROVE SendInv'
  BY <1>1 DEF Arrive
<1>2. ASSUME NEW r \in Requests, Store(r) PROVE SendInv'
  BY <1>2 DEF Store
<1>3. ASSUME NEW r \in Requests, LoadQueue(r) PROVE SendInv'
  BY <1>3 DEF LoadQueue
<1>4. ASSUME NEW r \in Requests, EnqueueLock(r) PROVE SendInv'
  BY <1>4 DEF EnqueueLock
<1>5. ASSUME NEW r \in Requests, EnqueueSend(r) PROVE SendInv'
  BY <1>5 DEF EnqueueSend
<1>6. ASSUME NEW w \in Workers, Receive(w) PROVE SendInv'
  BY <1>6 DEF Receive
<1>7. ASSUME NEW w \in Workers, ConsumerEnds(w) PROVE SendInv'
  BY <1>7 DEF ConsumerEnds
<1>8. ASSUME NEW w \in Workers, RefuseJob(w) PROVE SendInv'
  BY <1>8 DEF RefuseJob
<1>9. ASSUME NEW w \in Workers, BeginJob(w) PROVE SendInv'
  BY <1>9 DEF BeginJob
<1>10. ASSUME NEW w \in Workers, LoseDatabase(w) PROVE SendInv'
  BY <1>10 DEF LoseDatabase
<1>11. ASSUME NEW w \in Workers, ReturnFromJob(w) PROVE SendInv'
  BY <1>11 DEF ReturnFromJob
<1>12. ASSUME NEW w \in Workers, SwapQueue(w) PROVE SendInv'
  BY <1>12 DEF SwapQueue
<1>13. ASSUME NEW w \in Workers, SetStopping(w) PROVE SendInv'
  BY <1>13 DEF SetStopping
<1>14. ASSUME NEW w \in Workers, WaitEnds(w) PROVE SendInv'
  BY <1>14 DEF WaitEnds
<1>15. ASSUME NEW w \in Workers, WaitExpires(w) PROVE SendInv'
  BY <1>15 DEF WaitExpires
<1>16. ASSUME NEW w \in Workers, MarkClosed(w) PROVE SendInv'
  BY <1>16 DEF MarkClosed
<1>17. ASSUME NEW w \in Workers, CloseChannel(w) PROVE SendInv'
  BY <1>17 DEF CloseChannel
<1>18. CASE SweepStarts
  BY <1>18 DEF SweepStarts
<1>19. CASE SweepEnds
  BY <1>19 DEF SweepEnds
<1>20. CASE SweeperReturns
  BY <1>20 DEF SweeperReturns
<1>21. CASE CancelSweeper
  BY <1>21 DEF CancelSweeper
<1>22. CASE SweeperStopped
  BY <1>22 DEF SweeperStopped
<1>23. CASE Signal
  BY <1>23 DEF Signal
<1>24. CASE DeadlinePasses
  BY <1>24 DEF DeadlinePasses
<1>25. CASE HTTPStopped
  BY <1>25 DEF HTTPStopped
<1>26. CASE WorkersStopped
  BY <1>26 DEF WorkersStopped
<1>27. CASE CloseDB
  BY <1>27 DEF CloseDB
<1>28. CASE Exit
  BY <1>28 DEF Exit
<1>29. CASE UNCHANGED vars
  BY <1>29 DEF vars
<1> QED
  BY <1>1, <1>2, <1>3, <1>4, <1>5, <1>6, <1>7, <1>8, <1>9, <1>10, <1>11, <1>12, <1>13, <1>14, <1>15, <1>16, <1>17, <1>18, <1>19, <1>20, <1>21, <1>22, <1>23, <1>24, <1>25, <1>26, <1>27, <1>28, <1>29
     DEF Next, Step, Request, Consume, Work, Stop, Sweep, Main, Terminated

\* The consumer takes a job of its own worker, while it has none at work.
LEMMA ReceiveJob ==
  ASSUME TypeOK, JobInv, NEW w \in Workers, Receive(w)
  PROVE  JobInv'
<1> DEFINE s == queue[w]
<1>1. s \in Seq(Requests) /\ s # <<>>
  BY DEF Receive, TypeOK
<1>2. /\ queue'[w] = Tail(s) /\ current'[w] = Head(s) /\ consumer[w] = "idle"
      /\ \A v \in Workers : v # w => /\ queue'[v] = queue[v]
                                     /\ consumer'[v] = consumer[v]
                                     /\ current'[v] = current[v]
      /\ job' = job
  BY DEF Receive, TypeOK, httpVars
<1>3. /\ Len(Tail(s)) = Len(s) - 1
      /\ Len(s) \in Nat /\ Len(s) # 0
      /\ \A i \in 1..Len(Tail(s)) : Tail(s)[i] = s[i + 1]
      /\ Head(s) = s[1] /\ Head(s) \in Requests
  BY <1>1, HeadTailProperties, LenProperties, EmptySeq
<1>4. \A i \in 1..Len(s) : WorkerOf[s[i]] = w
  BY DEF JobInv
<1> HIDE DEF s
<1>5. /\ \A i \in 1..Len(Tail(s)) : WorkerOf[Tail(s)[i]] = w
      /\ WorkerOf[Head(s)] = w
  BY <1>3, <1>4
<1>6. ASSUME NEW v \in Workers
      PROVE  /\ \A i \in 1..Len(queue'[v]) : WorkerOf[queue'[v][i]] = v
             /\ consumer'[v] \in {"offered", "working"} =>
                  current'[v] \in Requests /\ WorkerOf[current'[v]] = v
  <2>1. CASE v = w
    <3>1. queue'[v] = Tail(s) /\ current'[v] = Head(s)
      BY <1>2, <2>1
    <3> QED
      BY <1>3, <1>5, <2>1, <3>1
  <2>2. CASE v # w
    BY <1>2, <2>2 DEF JobInv
  <2> QED
    BY <2>1, <2>2
<1>7. ASSUME NEW r \in Requests, job[r] \in {"running", "spoiled"}
      PROVE  consumer'[WorkerOf[r]] = "working" /\ current'[WorkerOf[r]] = r
  <2>1. consumer[WorkerOf[r]] = "working" /\ current[WorkerOf[r]] = r
    BY <1>7 DEF JobInv
  <2>2. WorkerOf[r] \in Workers /\ WorkerOf[r] # w
    BY <1>2, <2>1, WorkersAssumption
  <2> QED
    BY <1>2, <2>1, <2>2
<1> QED
  BY <1>2, <1>6, <1>7 DEF JobInv

LEMMA StepJobInv ==
  ASSUME IInv, TypeOK', [Next]_vars
  PROVE  JobInv'
<1> USE WorkersAssumption DEF IInv, TypeOK, JobInv, CountInv,
       mainVars, httpVars, queueVars, lifeVars, stopVars, sweepVars
<1>1. ASSUME NEW r \in Requests, Arrive(r) PROVE JobInv'
  BY <1>1 DEF Arrive
<1>2. ASSUME NEW r \in Requests, Store(r) PROVE JobInv'
  BY <1>2 DEF Store
<1>3. ASSUME NEW r \in Requests, LoadQueue(r) PROVE JobInv'
  BY <1>3 DEF LoadQueue
<1>4. ASSUME NEW r \in Requests, EnqueueLock(r) PROVE JobInv'
  BY <1>4 DEF EnqueueLock
<1>5. ASSUME NEW r \in Requests, EnqueueSend(r) PROVE JobInv'
  <2> DEFINE W == WorkerOf[r]
  <2>1. ASSUME NEW v \in Workers, NEW i \in 1..Len(queue'[v])
        PROVE  WorkerOf[queue'[v][i]] = v
    <3>1. CASE queue' = queue
      BY <3>1
    <3>2. CASE queue' = [queue EXCEPT ![W] = Append(queue[W], r)]
      <4>1. CASE v # W
        BY <3>2, <4>1
      <4>2. CASE v = W
        <5>1. queue'[v] = Append(queue[v], r)
          BY <3>2, <4>2
        <5>2. \/ i \in 1..Len(queue[v]) /\ queue'[v][i] = queue[v][i]
              \/ queue'[v][i] = r
          BY <5>1, AppendElements
        <5>3. ASSUME NEW k \in 1..Len(queue[v]) PROVE WorkerOf[queue[v][k]] = v
          OBVIOUS
        <5>4. CASE i \in 1..Len(queue[v]) /\ queue'[v][i] = queue[v][i]
          <6>1. WorkerOf[queue[v][i]] = v
            BY <5>3, <5>4
          <6>2. queue'[v][i] = queue[v][i]
            BY <5>4
          <6> HIDE DEF IInv, TypeOK, JobInv, CountInv
          <6> QED
            BY <6>1, <6>2
        <5>5. CASE queue'[v][i] = r
          BY <4>2, <5>5
        <5> QED
          BY <5>2, <5>4, <5>5
      <4> QED
        BY <4>1, <4>2
    <3> QED
      BY <1>5, <3>1, <3>2 DEF EnqueueSend
  <2>2. ASSUME NEW q \in Requests, job'[q] \in {"running", "spoiled"}
        PROVE  job[q] \in {"running", "spoiled"}
    BY <1>5, <2>2 DEF EnqueueSend
  <2>3. UNCHANGED <<consumer, current>>
    BY <1>5 DEF EnqueueSend
  <2>4. \A w \in Workers : consumer[w] \in {"offered", "working"} =>
          current[w] \in Requests /\ WorkerOf[current[w]] = w
    OBVIOUS
  <2>5. \A q \in Requests : job[q] \in {"running", "spoiled"} =>
          consumer[WorkerOf[q]] = "working" /\ current[WorkerOf[q]] = q
    OBVIOUS
  <2> HIDE DEF IInv, TypeOK, CountInv, JobInv
  <2>6. \A w \in Workers : \A i \in 1..Len(queue'[w]) : WorkerOf[queue'[w][i]] = w
    BY <2>1
  <2>7. \A w \in Workers : consumer'[w] \in {"offered", "working"} =>
          current'[w] \in Requests /\ WorkerOf[current'[w]] = w
    BY ONLY <2>3, <2>4
  <2>8. \A q \in Requests : job'[q] \in {"running", "spoiled"} =>
          consumer'[WorkerOf[q]] = "working" /\ current'[WorkerOf[q]] = q
    BY ONLY <2>2, <2>3, <2>5
  <2> QED
    BY ONLY <2>6, <2>7, <2>8 DEF JobInv
<1>6. ASSUME NEW w \in Workers, Receive(w) PROVE JobInv'
  BY <1>6, ReceiveJob
<1>7. ASSUME NEW w \in Workers, ConsumerEnds(w) PROVE JobInv'
  BY <1>7 DEF ConsumerEnds
<1>8. ASSUME NEW w \in Workers, RefuseJob(w) PROVE JobInv'
  BY <1>8 DEF RefuseJob
<1>9. ASSUME NEW w \in Workers, BeginJob(w) PROVE JobInv'
  BY <1>9 DEF BeginJob
<1>10. ASSUME NEW w \in Workers, LoseDatabase(w) PROVE JobInv'
  BY <1>10 DEF LoseDatabase
<1>11. ASSUME NEW w \in Workers, ReturnFromJob(w) PROVE JobInv'
  BY <1>11 DEF ReturnFromJob
<1>12. ASSUME NEW w \in Workers, SwapQueue(w) PROVE JobInv'
  BY <1>12 DEF SwapQueue
<1>13. ASSUME NEW w \in Workers, SetStopping(w) PROVE JobInv'
  BY <1>13 DEF SetStopping
<1>14. ASSUME NEW w \in Workers, WaitEnds(w) PROVE JobInv'
  BY <1>14 DEF WaitEnds
<1>15. ASSUME NEW w \in Workers, WaitExpires(w) PROVE JobInv'
  BY <1>15 DEF WaitExpires
<1>16. ASSUME NEW w \in Workers, MarkClosed(w) PROVE JobInv'
  BY <1>16 DEF MarkClosed
<1>17. ASSUME NEW w \in Workers, CloseChannel(w) PROVE JobInv'
  BY <1>17 DEF CloseChannel
<1>18. CASE SweepStarts
  BY <1>18 DEF SweepStarts
<1>19. CASE SweepEnds
  BY <1>19 DEF SweepEnds
<1>20. CASE SweeperReturns
  BY <1>20 DEF SweeperReturns
<1>21. CASE CancelSweeper
  BY <1>21 DEF CancelSweeper
<1>22. CASE SweeperStopped
  BY <1>22 DEF SweeperStopped
<1>23. CASE Signal
  BY <1>23 DEF Signal
<1>24. CASE DeadlinePasses
  BY <1>24 DEF DeadlinePasses
<1>25. CASE HTTPStopped
  BY <1>25 DEF HTTPStopped
<1>26. CASE WorkersStopped
  BY <1>26 DEF WorkersStopped
<1>27. CASE CloseDB
  BY <1>27 DEF CloseDB
<1>28. CASE Exit
  BY <1>28 DEF Exit
<1>29. CASE UNCHANGED vars
  BY <1>29 DEF vars
<1> QED
  BY <1>1, <1>2, <1>3, <1>4, <1>5, <1>6, <1>7, <1>8, <1>9, <1>10, <1>11, <1>12, <1>13, <1>14, <1>15, <1>16, <1>17, <1>18, <1>19, <1>20, <1>21, <1>22, <1>23, <1>24, <1>25, <1>26, <1>27, <1>28, <1>29
     DEF Next, Step, Request, Consume, Work, Stop, Sweep, Main, Terminated

LEMMA StepHurtInv ==
  ASSUME IInv, TypeOK', [Next]_vars
  PROVE  HurtInv'
<1> USE WorkersAssumption DEF IInv, TypeOK, HurtInv, Waited, CountInv, JobInv, StopInv, MainInv,
       mainVars, httpVars, queueVars, lifeVars, stopVars, sweepVars
<1>1. ASSUME NEW r \in Requests, Arrive(r) PROVE HurtInv'
  BY <1>1 DEF Arrive
<1>2. ASSUME NEW r \in Requests, Store(r) PROVE HurtInv'
  BY <1>2 DEF Store
<1>3. ASSUME NEW r \in Requests, LoadQueue(r) PROVE HurtInv'
  BY <1>3 DEF LoadQueue
<1>4. ASSUME NEW r \in Requests, EnqueueLock(r) PROVE HurtInv'
  BY <1>4 DEF EnqueueLock
<1>5. ASSUME NEW r \in Requests, EnqueueSend(r) PROVE HurtInv'
  BY <1>5 DEF EnqueueSend
<1>6. ASSUME NEW w \in Workers, Receive(w) PROVE HurtInv'
  BY <1>6 DEF Receive
<1>7. ASSUME NEW w \in Workers, ConsumerEnds(w) PROVE HurtInv'
  BY <1>7 DEF ConsumerEnds
<1>8. ASSUME NEW w \in Workers, RefuseJob(w) PROVE HurtInv'
  BY <1>8 DEF RefuseJob
<1>9. ASSUME NEW w \in Workers, BeginJob(w) PROVE HurtInv'
  BY <1>9 DEF BeginJob
<1>10. ASSUME NEW w \in Workers, LoseDatabase(w) PROVE HurtInv'
  BY <1>10 DEF LoseDatabase
<1>11. ASSUME NEW w \in Workers, ReturnFromJob(w) PROVE HurtInv'
  BY <1>11 DEF ReturnFromJob
<1>12. ASSUME NEW w \in Workers, SwapQueue(w) PROVE HurtInv'
  BY <1>12 DEF SwapQueue
<1>13. ASSUME NEW w \in Workers, SetStopping(w) PROVE HurtInv'
  BY <1>13 DEF SetStopping
<1>14. ASSUME NEW w \in Workers, WaitEnds(w) PROVE HurtInv'
  BY <1>14 DEF WaitEnds
<1>15. ASSUME NEW w \in Workers, WaitExpires(w) PROVE HurtInv'
  BY <1>15 DEF WaitExpires
<1>16. ASSUME NEW w \in Workers, MarkClosed(w) PROVE HurtInv'
  BY <1>16 DEF MarkClosed
<1>17. ASSUME NEW w \in Workers, CloseChannel(w) PROVE HurtInv'
  BY <1>17 DEF CloseChannel
<1>18. CASE SweepStarts
  BY <1>18 DEF SweepStarts
<1>19. CASE SweepEnds
  BY <1>19 DEF SweepEnds
<1>20. CASE SweeperReturns
  BY <1>20 DEF SweeperReturns
<1>21. CASE CancelSweeper
  BY <1>21 DEF CancelSweeper
<1>22. CASE SweeperStopped
  BY <1>22 DEF SweeperStopped
<1>23. CASE Signal
  BY <1>23 DEF Signal
<1>24. CASE DeadlinePasses
  BY <1>24 DEF DeadlinePasses
<1>25. CASE HTTPStopped
  BY <1>25 DEF HTTPStopped
<1>26. CASE WorkersStopped
  BY <1>26 DEF WorkersStopped
<1>27. CASE CloseDB
  BY <1>27 DEF CloseDB
<1>28. CASE Exit
  BY <1>28 DEF Exit
<1>29. CASE UNCHANGED vars
  BY <1>29 DEF vars
<1> QED
  BY <1>1, <1>2, <1>3, <1>4, <1>5, <1>6, <1>7, <1>8, <1>9, <1>10, <1>11, <1>12, <1>13, <1>14, <1>15, <1>16, <1>17, <1>18, <1>19, <1>20, <1>21, <1>22, <1>23, <1>24, <1>25, <1>26, <1>27, <1>28, <1>29
     DEF Next, Step, Request, Consume, Work, Stop, Sweep, Main, Terminated

LEMMA StepMainInv ==
  ASSUME IInv, TypeOK', [Next]_vars
  PROVE  MainInv'
<1> USE WorkersAssumption DEF IInv, TypeOK, MainInv, InFlight, CountInv, StopInv,
       mainVars, httpVars, queueVars, lifeVars, stopVars, sweepVars
<1>1. ASSUME NEW r \in Requests, Arrive(r) PROVE MainInv'
  BY <1>1 DEF Arrive
<1>2. ASSUME NEW r \in Requests, Store(r) PROVE MainInv'
  BY <1>2 DEF Store
<1>3. ASSUME NEW r \in Requests, LoadQueue(r) PROVE MainInv'
  BY <1>3 DEF LoadQueue
<1>4. ASSUME NEW r \in Requests, EnqueueLock(r) PROVE MainInv'
  BY <1>4 DEF EnqueueLock
<1>5. ASSUME NEW r \in Requests, EnqueueSend(r) PROVE MainInv'
  BY <1>5 DEF EnqueueSend
<1>6. ASSUME NEW w \in Workers, Receive(w) PROVE MainInv'
  BY <1>6 DEF Receive
<1>7. ASSUME NEW w \in Workers, ConsumerEnds(w) PROVE MainInv'
  BY <1>7 DEF ConsumerEnds
<1>8. ASSUME NEW w \in Workers, RefuseJob(w) PROVE MainInv'
  BY <1>8 DEF RefuseJob
<1>9. ASSUME NEW w \in Workers, BeginJob(w) PROVE MainInv'
  BY <1>9 DEF BeginJob
<1>10. ASSUME NEW w \in Workers, LoseDatabase(w) PROVE MainInv'
  BY <1>10 DEF LoseDatabase
<1>11. ASSUME NEW w \in Workers, ReturnFromJob(w) PROVE MainInv'
  BY <1>11 DEF ReturnFromJob
<1>12. ASSUME NEW w \in Workers, SwapQueue(w) PROVE MainInv'
  BY <1>12 DEF SwapQueue
<1>13. ASSUME NEW w \in Workers, SetStopping(w) PROVE MainInv'
  BY <1>13 DEF SetStopping
<1>14. ASSUME NEW w \in Workers, WaitEnds(w) PROVE MainInv'
  BY <1>14 DEF WaitEnds
<1>15. ASSUME NEW w \in Workers, WaitExpires(w) PROVE MainInv'
  BY <1>15 DEF WaitExpires
<1>16. ASSUME NEW w \in Workers, MarkClosed(w) PROVE MainInv'
  BY <1>16 DEF MarkClosed
<1>17. ASSUME NEW w \in Workers, CloseChannel(w) PROVE MainInv'
  BY <1>17 DEF CloseChannel
<1>18. CASE SweepStarts
  BY <1>18 DEF SweepStarts
<1>19. CASE SweepEnds
  BY <1>19 DEF SweepEnds
<1>20. CASE SweeperReturns
  BY <1>20 DEF SweeperReturns
<1>21. CASE CancelSweeper
  BY <1>21 DEF CancelSweeper
<1>22. CASE SweeperStopped
  BY <1>22 DEF SweeperStopped
<1>23. CASE Signal
  BY <1>23 DEF Signal
<1>24. CASE DeadlinePasses
  BY <1>24 DEF DeadlinePasses
<1>25. CASE HTTPStopped
  BY <1>25 DEF HTTPStopped
<1>26. CASE WorkersStopped
  BY <1>26 DEF WorkersStopped
<1>27. CASE CloseDB
  BY <1>27 DEF CloseDB
<1>28. CASE Exit
  BY <1>28 DEF Exit
<1>29. CASE UNCHANGED vars
  BY <1>29 DEF vars
<1> QED
  BY <1>1, <1>2, <1>3, <1>4, <1>5, <1>6, <1>7, <1>8, <1>9, <1>10, <1>11, <1>12, <1>13, <1>14, <1>15, <1>16, <1>17, <1>18, <1>19, <1>20, <1>21, <1>22, <1>23, <1>24, <1>25, <1>26, <1>27, <1>28, <1>29
     DEF Next, Step, Request, Consume, Work, Stop, Sweep, Main, Terminated

LEMMA InitIInv == Init => IInv
  BY InitTypeOK, WorkersAssumption
     DEF Init, IInv, CountInv, StopInv, SendInv, JobInv, HurtInv, MainInv, Waited, InFlight

-----------------------------------------------------------------------------
\* The conjunction is inductive.
THEOREM Inductive == Spec => []IInv
<1>1. Init => IInv
  BY InitIInv
<1>2. IInv /\ [Next]_vars => IInv'
  BY StepTypeOK, StepCountInv, StepStopInv, StepSendInv, StepJobInv, StepHurtInv, StepMainInv
     DEF IInv
<1> QED
  BY <1>1, <1>2, PTL DEF Spec

\* Every reachable state is well-typed; in particular no WaitGroup counter goes below
\* zero, which would end the process with a panic.
THEOREM TypeCorrect == Spec => []TypeOK
<1>1. IInv => TypeOK
  BY DEF IInv
<1> QED
  BY <1>1, Inductive, PTL

\* No request sends on a closed channel, however many workers and requests there are.
THEOREM SendSafety == Spec => []NoSendOnClosedChannel
<1>1. IInv => NoSendOnClosedChannel
  BY WorkersAssumption DEF IInv, TypeOK, SendInv, StopInv, NoSendOnClosedChannel
<1> QED
  BY <1>1, Inductive, PTL

\* After a wait that saw every job return, no job of that worker runs again.
THEOREM WaitSafety == Spec => []WaitIsFinal
<1>1. IInv => WaitIsFinal
  BY DEF IInv, CountInv, WaitIsFinal
<1> QED
  BY <1>1, Inductive, PTL

\* A shutdown that reports nil has cut nothing short when the pool closes: a job is hurt
\* or still at work only under a stop that gave up, and that stop reported it.
THEOREM CleanShutdown == Spec => []CleanShutdownCutsNothing
<1>1. IInv => CleanShutdownCutsNothing
  <2> SUFFICES ASSUME IInv, pool = "closed", errs = {}
               PROVE  /\ \A r \in Requests :
                           /\ req[r] \notin InFlight
                           /\ job[r] \notin {"running", "spoiled", "interrupted"}
                      /\ sweeper \in {"off", "gone"}
    BY DEF CleanShutdownCutsNothing
  <2>1. \A w \in Workers : stopper[w] = "returned" /\ finished[w]
    BY DEF IInv, MainInv, StopInv
  <2>2. \A w \in Workers : consumer[w] # "working"
    BY <2>1 DEF IInv, CountInv
  <2>3. ASSUME NEW r \in Requests
        PROVE  job[r] \notin {"running", "spoiled", "interrupted"}
    BY <2>1, <2>2, WorkersAssumption DEF IInv, JobInv, HurtInv
  <2>4. \A r \in Requests : req[r] \notin InFlight
    BY DEF IInv, MainInv
  <2>5. sweeper \in {"off", "gone"}
    BY DEF IInv, MainInv
  <2> QED
    BY <2>3, <2>4, <2>5
<1> QED
  BY <1>1, Inductive, PTL

-----------------------------------------------------------------------------
(***************************************************************************)
(* The server implements the contract of a shutdown: every step of         *)
(* WorkerShutdown is a step of ShutdownContract or leaves it alone.  On    *)
(* the way, a job that was accepted is in exactly one place.               *)
(***************************************************************************)
\* A stop that did not see its jobs return was ended by the deadline.
GaveUpInv == \A w \in Workers : stopper[w] \in Waited /\ ~finished[w] => deadline

\* A request that has not left Enqueue has no job yet.
FreshInv == \A r \in Requests : req[r] # "done" => job[r] = "none"

\* What is buffered, once each, or offered is queued, and what is at work was begun.
HeldInv ==
  \A w \in Workers :
    /\ \A i \in 1..Len(queue[w]) : job[queue[w][i]] = "queued"
    /\ \A i, j \in 1..Len(queue[w]) : queue[w][i] = queue[w][j] => i = j
    /\ \A i \in 1..Len(queue[w]) : queue[w][i] # current[w]
    /\ consumer[w] = "offered" => job[current[w]] = "queued"
    /\ consumer[w] = "working" => job[current[w]] \in {"running", "spoiled"}
    /\ consumer[w] \in {"idle", "gone"} => current[w] = NoJob

\* A queued job has not been lost: it is buffered or offered.
Placed(r, w) ==
  \/ \E i \in 1..Len(queue[w]) : queue[w][i] = r
  \/ consumer[w] = "offered" /\ current[w] = r

PlacedInv == \A r \in Requests : job[r] = "queued" => Placed(r, WorkerOf[r])

JInv == IInv /\ GaveUpInv /\ FreshInv /\ HeldInv /\ PlacedInv

-----------------------------------------------------------------------------
LEMMA StepGaveUpInv ==
  ASSUME IInv, TypeOK', GaveUpInv, [Next]_vars
  PROVE  GaveUpInv'
<1> USE WorkersAssumption DEF IInv, TypeOK, GaveUpInv, Waited,
       mainVars, httpVars, queueVars, lifeVars, stopVars, sweepVars
<1>1. ASSUME NEW r \in Requests, Arrive(r) PROVE GaveUpInv'
  BY <1>1 DEF Arrive
<1>2. ASSUME NEW r \in Requests, Store(r) PROVE GaveUpInv'
  BY <1>2 DEF Store
<1>3. ASSUME NEW r \in Requests, LoadQueue(r) PROVE GaveUpInv'
  BY <1>3 DEF LoadQueue
<1>4. ASSUME NEW r \in Requests, EnqueueLock(r) PROVE GaveUpInv'
  BY <1>4 DEF EnqueueLock
<1>5. ASSUME NEW r \in Requests, EnqueueSend(r) PROVE GaveUpInv'
  BY <1>5 DEF EnqueueSend
<1>6. ASSUME NEW w \in Workers, Receive(w) PROVE GaveUpInv'
  BY <1>6 DEF Receive
<1>7. ASSUME NEW w \in Workers, ConsumerEnds(w) PROVE GaveUpInv'
  BY <1>7 DEF ConsumerEnds
<1>8. ASSUME NEW w \in Workers, RefuseJob(w) PROVE GaveUpInv'
  BY <1>8 DEF RefuseJob
<1>9. ASSUME NEW w \in Workers, BeginJob(w) PROVE GaveUpInv'
  BY <1>9 DEF BeginJob
<1>10. ASSUME NEW w \in Workers, LoseDatabase(w) PROVE GaveUpInv'
  BY <1>10 DEF LoseDatabase
<1>11. ASSUME NEW w \in Workers, ReturnFromJob(w) PROVE GaveUpInv'
  BY <1>11 DEF ReturnFromJob
<1>12. ASSUME NEW w \in Workers, SwapQueue(w) PROVE GaveUpInv'
  BY <1>12 DEF SwapQueue, StopInv
<1>13. ASSUME NEW w \in Workers, SetStopping(w) PROVE GaveUpInv'
  BY <1>13 DEF SetStopping
<1>14. ASSUME NEW w \in Workers, WaitEnds(w) PROVE GaveUpInv'
  BY <1>14 DEF WaitEnds
<1>15. ASSUME NEW w \in Workers, WaitExpires(w) PROVE GaveUpInv'
  BY <1>15 DEF WaitExpires
<1>16. ASSUME NEW w \in Workers, MarkClosed(w) PROVE GaveUpInv'
  BY <1>16 DEF MarkClosed
<1>17. ASSUME NEW w \in Workers, CloseChannel(w) PROVE GaveUpInv'
  BY <1>17 DEF CloseChannel
<1>18. CASE SweepStarts
  BY <1>18 DEF SweepStarts
<1>19. CASE SweepEnds
  BY <1>19 DEF SweepEnds
<1>20. CASE SweeperReturns
  BY <1>20 DEF SweeperReturns
<1>21. CASE CancelSweeper
  BY <1>21 DEF CancelSweeper
<1>22. CASE SweeperStopped
  BY <1>22 DEF SweeperStopped
<1>23. CASE Signal
  BY <1>23 DEF Signal
<1>24. CASE DeadlinePasses
  BY <1>24 DEF DeadlinePasses
<1>25. CASE HTTPStopped
  BY <1>25 DEF HTTPStopped
<1>26. CASE WorkersStopped
  BY <1>26 DEF WorkersStopped
<1>27. CASE CloseDB
  BY <1>27 DEF CloseDB
<1>28. CASE Exit
  BY <1>28 DEF Exit
<1>29. CASE UNCHANGED vars
  BY <1>29 DEF vars
<1> QED
  BY <1>1, <1>2, <1>3, <1>4, <1>5, <1>6, <1>7, <1>8, <1>9, <1>10, <1>11, <1>12, <1>13, <1>14, <1>15, <1>16, <1>17, <1>18, <1>19, <1>20, <1>21, <1>22, <1>23, <1>24, <1>25, <1>26, <1>27, <1>28, <1>29
     DEF Next, Step, Request, Consume, Work, Stop, Sweep, Main, Terminated

LEMMA StepFreshInv ==
  ASSUME IInv, TypeOK', FreshInv, HeldInv, [Next]_vars
  PROVE  FreshInv'
<1> USE WorkersAssumption DEF IInv, TypeOK, FreshInv, InFlight,
       mainVars, httpVars, queueVars, lifeVars, stopVars, sweepVars
<1>1. ASSUME NEW r \in Requests, Arrive(r) PROVE FreshInv'
  BY <1>1 DEF Arrive
<1>2. ASSUME NEW r \in Requests, Store(r) PROVE FreshInv'
  BY <1>2 DEF Store
<1>3. ASSUME NEW r \in Requests, LoadQueue(r) PROVE FreshInv'
  BY <1>3 DEF LoadQueue
<1>4. ASSUME NEW r \in Requests, EnqueueLock(r) PROVE FreshInv'
  <2>1. CASE req' = [req EXCEPT ![r] = "done"] /\ job' = [job EXCEPT ![r] = "dropped"]
    BY <2>1
  <2>2. CASE req' = [req EXCEPT ![r] = "sending"] /\ UNCHANGED job
    BY <1>4, <2>2 DEF EnqueueLock
  <2> QED
    BY <1>4, <2>1, <2>2 DEF EnqueueLock
<1>5. ASSUME NEW r \in Requests, EnqueueSend(r) PROVE FreshInv'
  BY <1>5 DEF EnqueueSend
<1>6. ASSUME NEW w \in Workers, Receive(w) PROVE FreshInv'
  BY <1>6 DEF Receive
<1>7. ASSUME NEW w \in Workers, ConsumerEnds(w) PROVE FreshInv'
  BY <1>7 DEF ConsumerEnds
<1>8. ASSUME NEW w \in Workers, RefuseJob(w) PROVE FreshInv'
  BY <1>8 DEF RefuseJob, HeldInv, JobInv
<1>9. ASSUME NEW w \in Workers, BeginJob(w) PROVE FreshInv'
  BY <1>9 DEF BeginJob, HeldInv, JobInv
<1>10. ASSUME NEW w \in Workers, LoseDatabase(w) PROVE FreshInv'
  BY <1>10 DEF LoseDatabase, HeldInv, JobInv
<1>11. ASSUME NEW w \in Workers, ReturnFromJob(w) PROVE FreshInv'
  BY <1>11 DEF ReturnFromJob, HeldInv, JobInv
<1>12. ASSUME NEW w \in Workers, SwapQueue(w) PROVE FreshInv'
  BY <1>12 DEF SwapQueue
<1>13. ASSUME NEW w \in Workers, SetStopping(w) PROVE FreshInv'
  BY <1>13 DEF SetStopping
<1>14. ASSUME NEW w \in Workers, WaitEnds(w) PROVE FreshInv'
  BY <1>14 DEF WaitEnds
<1>15. ASSUME NEW w \in Workers, WaitExpires(w) PROVE FreshInv'
  BY <1>15 DEF WaitExpires
<1>16. ASSUME NEW w \in Workers, MarkClosed(w) PROVE FreshInv'
  BY <1>16 DEF MarkClosed
<1>17. ASSUME NEW w \in Workers, CloseChannel(w) PROVE FreshInv'
  BY <1>17 DEF CloseChannel
<1>18. CASE SweepStarts
  BY <1>18 DEF SweepStarts
<1>19. CASE SweepEnds
  BY <1>19 DEF SweepEnds
<1>20. CASE SweeperReturns
  BY <1>20 DEF SweeperReturns
<1>21. CASE CancelSweeper
  BY <1>21 DEF CancelSweeper
<1>22. CASE SweeperStopped
  BY <1>22 DEF SweeperStopped
<1>23. CASE Signal
  BY <1>23 DEF Signal
<1>24. CASE DeadlinePasses
  BY <1>24 DEF DeadlinePasses
<1>25. CASE HTTPStopped
  BY <1>25 DEF HTTPStopped
<1>26. CASE WorkersStopped
  BY <1>26 DEF WorkersStopped
<1>27. CASE CloseDB
  BY <1>27 DEF CloseDB
<1>28. CASE Exit
  BY <1>28 DEF Exit
<1>29. CASE UNCHANGED vars
  BY <1>29 DEF vars
<1> QED
  BY <1>1, <1>2, <1>3, <1>4, <1>5, <1>6, <1>7, <1>8, <1>9, <1>10, <1>11, <1>12, <1>13, <1>14, <1>15, <1>16, <1>17, <1>18, <1>19, <1>20, <1>21, <1>22, <1>23, <1>24, <1>25, <1>26, <1>27, <1>28, <1>29
     DEF Next, Step, Request, Consume, Work, Stop, Sweep, Main, Terminated

\* A request that has not left Enqueue is nowhere in a queue or at a consumer.
LEMMA NotYetHeld ==
  ASSUME TypeOK, JobInv, FreshInv, HeldInv, NEW r \in Requests, req[r] # "done", NEW w \in Workers
  PROVE  /\ \A i \in 1..Len(queue[w]) : queue[w][i] \in Requests /\ queue[w][i] # r
         /\ current[w] # r
<1>1. job[r] = "none"
  BY DEF FreshInv
<1>2. ASSUME NEW i \in 1..Len(queue[w]) PROVE queue[w][i] \in Requests /\ queue[w][i] # r
  <2>1. queue[w] \in Seq(Requests)
    BY DEF TypeOK
  <2>2. queue[w][i] \in Requests
    BY <2>1, ElementOfSeq
  <2>3. job[queue[w][i]] = "queued"
    BY DEF HeldInv
  <2> QED
    BY <1>1, <2>2, <2>3
<1>3. current[w] # r
  <2>1. consumer[w] \in {"idle", "offered", "working", "gone"}
    BY DEF TypeOK
  <2>2. CASE consumer[w] \in {"idle", "gone"}
    BY <2>2, NoJobAssumption DEF HeldInv
  <2>3. CASE consumer[w] = "offered"
    BY <1>1, <2>3 DEF HeldInv
  <2>4. CASE consumer[w] = "working"
    BY <1>1, <2>4 DEF HeldInv
  <2> QED
    BY <2>1, <2>2, <2>3, <2>4
<1> QED
  BY <1>2, <1>3

LEMMA SameHeld ==
  ASSUME HeldInv, UNCHANGED <<job, queue, consumer, current>>
  PROVE  HeldInv'
  BY DEF HeldInv

\* Dropping the job of a request that was in Enqueue, or on its way there.
LEMMA DropHeld ==
  ASSUME TypeOK, JobInv, FreshInv, HeldInv, NEW r \in Requests, req[r] # "done",
         job' = [job EXCEPT ![r] = "dropped"],
         UNCHANGED <<queue, consumer, current>>
  PROVE  HeldInv'
<1>1. \A q \in Requests : q # r => job'[q] = job[q]
  BY DEF TypeOK
<1>3. ASSUME NEW w \in Workers
      PROVE  /\ \A i \in 1..Len(queue[w]) : job'[queue[w][i]] = "queued"
             /\ consumer[w] = "offered" => job'[current[w]] = "queued"
             /\ consumer[w] = "working" => job'[current[w]] \in {"running", "spoiled"}
  <2>1. /\ \A i \in 1..Len(queue[w]) : queue[w][i] \in Requests /\ queue[w][i] # r
        /\ current[w] # r
    BY NotYetHeld
  <2>2. consumer[w] \in {"offered", "working"} => current[w] \in Requests
    BY DEF JobInv
  <2> QED
    BY <1>1, <2>1, <2>2 DEF HeldInv
<1> QED
  BY <1>3 DEF HeldInv

\* Appending the job of a request that was in Enqueue.
LEMMA AcceptHeld ==
  ASSUME TypeOK, JobInv, FreshInv, HeldInv, NEW r \in Requests, req[r] # "done",
         job' = [job EXCEPT ![r] = "queued"],
         queue' = [queue EXCEPT ![WorkerOf[r]] = Append(@, r)],
         UNCHANGED <<consumer, current>>
  PROVE  HeldInv'
<1> DEFINE W == WorkerOf[r]
<1>1. \A q \in Requests : q # r => job'[q] = job[q]
  BY DEF TypeOK
<1>3. job'[r] = "queued"
  BY DEF TypeOK
<1>4. ASSUME NEW w \in Workers
      PROVE  /\ \A i \in 1..Len(queue'[w]) : job'[queue'[w][i]] = "queued"
             /\ \A i, j \in 1..Len(queue'[w]) : queue'[w][i] = queue'[w][j] => i = j
             /\ \A i \in 1..Len(queue'[w]) : queue'[w][i] # current[w]
             /\ consumer[w] = "offered" => job'[current[w]] = "queued"
             /\ consumer[w] = "working" => job'[current[w]] \in {"running", "spoiled"}
  <2>1. /\ \A i \in 1..Len(queue[w]) : queue[w][i] \in Requests /\ queue[w][i] # r
        /\ current[w] # r
    BY NotYetHeld
  <2>2. consumer[w] \in {"offered", "working"} => current[w] \in Requests
    BY DEF JobInv
  <2>3. /\ \A i \in 1..Len(queue[w]) : job'[queue[w][i]] = "queued"
        /\ consumer[w] = "offered" => job'[current[w]] = "queued"
        /\ consumer[w] = "working" => job'[current[w]] \in {"running", "spoiled"}
    BY <1>1, <2>1, <2>2 DEF HeldInv
  <2>4. /\ \A i, j \in 1..Len(queue[w]) : queue[w][i] = queue[w][j] => i = j
        /\ \A i \in 1..Len(queue[w]) : queue[w][i] # current[w]
    BY DEF HeldInv
  <2>5. CASE w # W
    <3>1. queue'[w] = queue[w]
      BY <2>5 DEF TypeOK
    <3>2. \A i \in 1..Len(queue'[w]) : job'[queue'[w][i]] = "queued"
      BY ONLY <2>3, <3>1
    <3>3. /\ \A i, j \in 1..Len(queue'[w]) : queue'[w][i] = queue'[w][j] => i = j
          /\ \A i \in 1..Len(queue'[w]) : queue'[w][i] # current[w]
      BY ONLY <2>4, <3>1
    <3> QED
      BY <2>3, <3>2, <3>3
  <2>6. CASE w = W
    <3> DEFINE s == queue[w]
    <3>1. queue'[w] = Append(s, r)
      BY <2>6 DEF TypeOK
    <3>2. s \in Seq(Requests)
      BY DEF TypeOK
    <3>3. /\ Len(Append(s, r)) = Len(s) + 1
          /\ Len(s) \in Nat
          /\ \A i \in 1..Len(s) : Append(s, r)[i] = s[i]
          /\ Append(s, r)[Len(s) + 1] = r
      BY <3>2, AppendProperties, LenProperties
    <3> HIDE DEF s
    <3>4. \A i \in 1..Len(Append(s, r)) : i \in 1..Len(s) \/ i = Len(s) + 1
      BY <3>3
    <3>5. /\ \A i \in 1..Len(s) : s[i] # r /\ job'[s[i]] = "queued" /\ s[i] # current[w]
          /\ \A i, j \in 1..Len(s) : s[i] = s[j] => i = j
      BY <2>1, <2>3, <2>4 DEF s
    <3>6. \A i \in 1..Len(Append(s, r)) :
            job'[Append(s, r)[i]] = "queued" /\ Append(s, r)[i] # current[w]
      BY <1>3, <2>1, <3>3, <3>4, <3>5
    <3>7. \A i, j \in 1..Len(Append(s, r)) : Append(s, r)[i] = Append(s, r)[j] => i = j
      BY <3>3, <3>4, <3>5
    <3>8. \A i \in 1..Len(queue'[w]) : job'[queue'[w][i]] = "queued" /\ queue'[w][i] # current[w]
      BY ONLY <3>1, <3>6
    <3>9. \A i, j \in 1..Len(queue'[w]) : queue'[w][i] = queue'[w][j] => i = j
      BY ONLY <3>1, <3>7
    <3> QED
      BY <2>3, <3>8, <3>9
  <2> QED
    BY <2>5, <2>6
<1> QED
  BY <1>4 DEF HeldInv

\* A consumer begins the job it was offered, its job loses the database, or it is done with
\* the job: the other jobs stay as they are.
LEMMA ConsumerHeld ==
  ASSUME TypeOK, JobInv, HeldInv, NEW w \in Workers,
         consumer[w] \in {"offered", "working"},
         \A q \in Requests \ {current[w]} : job'[q] = job[q],
         \/ /\ consumer' = [consumer EXCEPT ![w] = "working"]
            /\ UNCHANGED current
            /\ job'[current[w]] \in {"running", "spoiled"}
         \/ /\ consumer' = [consumer EXCEPT ![w] = "idle"]
            /\ current' = [current EXCEPT ![w] = NoJob],
         UNCHANGED queue
  PROVE  HeldInv'
<1>1. current[w] \in Requests /\ WorkerOf[current[w]] = w
  BY DEF JobInv
<1>4. ASSUME NEW v \in Workers
      PROVE  /\ \A i \in 1..Len(queue[v]) : job'[queue[v][i]] = "queued"
             /\ \A i \in 1..Len(queue[v]) : queue[v][i] # current'[v]
             /\ consumer'[v] = "offered" => job'[current'[v]] = "queued"
             /\ consumer'[v] = "working" => job'[current'[v]] \in {"running", "spoiled"}
             /\ consumer'[v] \in {"idle", "gone"} => current'[v] = NoJob
  <2>1. ASSUME NEW i \in 1..Len(queue[v])
        PROVE  queue[v][i] \in Requests /\ WorkerOf[queue[v][i]] = v /\ queue[v][i] # current[w]
    <3>1. queue[v] \in Seq(Requests)
      BY DEF TypeOK
    <3>2. queue[v][i] \in Requests
      BY <3>1, ElementOfSeq
    <3>3. WorkerOf[queue[v][i]] = v
      BY DEF JobInv
    <3>4. v = w => queue[v][i] # current[w]
      BY DEF HeldInv
    <3> QED
      BY <1>1, <3>2, <3>3, <3>4
  <2>2. \A i \in 1..Len(queue[v]) : job'[queue[v][i]] = "queued"
    BY <2>1 DEF HeldInv, TypeOK
  <2>3. \A i \in 1..Len(queue[v]) : queue[v][i] # NoJob
    BY <2>1, NoJobAssumption
  <2>4. CASE v = w
    <3>1. CASE /\ consumer' = [consumer EXCEPT ![w] = "working"]
               /\ UNCHANGED current
               /\ job'[current[w]] \in {"running", "spoiled"}
      <4>1. /\ consumer'[v] = "working"
            /\ current'[v] = current[w]
            /\ job'[current'[v]] \in {"running", "spoiled"}
        BY <2>4, <3>1 DEF TypeOK
      <4> QED
        BY <2>1, <2>2, <4>1
    <3>2. CASE /\ consumer' = [consumer EXCEPT ![w] = "idle"]
               /\ current' = [current EXCEPT ![w] = NoJob]
      <4>1. consumer'[v] = "idle" /\ current'[v] = NoJob
        BY <2>4, <3>2 DEF TypeOK
      <4> QED
        BY <2>2, <2>3, <4>1
    <3> QED
      BY <3>1, <3>2
  <2>5. CASE v # w
    <3>1. consumer'[v] = consumer[v] /\ current'[v] = current[v]
      BY <2>5 DEF TypeOK
    <3>2. consumer[v] \in {"offered", "working"} =>
            current[v] \in Requests /\ current[v] # current[w]
      BY <1>1, <2>5 DEF JobInv
    <3>3. consumer[v] \in {"offered", "working"} => job'[current[v]] = job[current[v]]
      BY <3>2
    <3> QED
      BY <2>2, <3>1, <3>3 DEF HeldInv
  <2> QED
    BY <2>4, <2>5
<1> QED
  <2>1. queue' = queue
    OBVIOUS
  <2>2. \A v \in Workers : \A i, j \in 1..Len(queue[v]) : queue[v][i] = queue[v][j] => i = j
    BY DEF HeldInv
  <2> QED
    BY <1>4, <2>1, <2>2 DEF HeldInv

\* The consumer takes the first job of its queue.
LEMMA ReceiveHeld ==
  ASSUME TypeOK, HeldInv, NEW w \in Workers, Receive(w)
  PROVE  HeldInv'
<1> DEFINE s == queue[w]
<1>1. s \in Seq(Requests) /\ s # <<>>
  BY DEF Receive, TypeOK
<1>2. /\ queue'[w] = Tail(s)
      /\ consumer'[w] = "offered"
      /\ current'[w] = Head(s)
      /\ \A v \in Workers : v # w => /\ queue'[v] = queue[v]
                                     /\ consumer'[v] = consumer[v]
                                     /\ current'[v] = current[v]
      /\ job' = job
  BY DEF Receive, TypeOK, httpVars
<1>3. /\ Len(Tail(s)) = Len(s) - 1
      /\ Len(s) \in Nat /\ Len(s) # 0
      /\ \A i \in 1..Len(Tail(s)) : Tail(s)[i] = s[i + 1]
      /\ Head(s) = s[1]
  BY <1>1, HeadTailProperties, LenProperties, EmptySeq
<1>4. /\ \A i \in 1..Len(s) : job[s[i]] = "queued"
      /\ \A i, j \in 1..Len(s) : s[i] = s[j] => i = j
  BY DEF HeldInv
<1> HIDE DEF s
<1>5. /\ \A i \in 1..Len(Tail(s)) : job[Tail(s)[i]] = "queued" /\ Tail(s)[i] # Head(s)
      /\ \A i, j \in 1..Len(Tail(s)) : Tail(s)[i] = Tail(s)[j] => i = j
      /\ job[Head(s)] = "queued"
  BY <1>3, <1>4
<1>6. ASSUME NEW v \in Workers
      PROVE  /\ \A i \in 1..Len(queue'[v]) : job[queue'[v][i]] = "queued"
             /\ \A i, j \in 1..Len(queue'[v]) : queue'[v][i] = queue'[v][j] => i = j
             /\ \A i \in 1..Len(queue'[v]) : queue'[v][i] # current'[v]
             /\ consumer'[v] = "offered" => job[current'[v]] = "queued"
             /\ consumer'[v] = "working" => job[current'[v]] \in {"running", "spoiled"}
             /\ consumer'[v] \in {"idle", "gone"} => current'[v] = NoJob
  <2>1. CASE v = w
    <3>1. queue'[v] = Tail(s) /\ consumer'[v] = "offered" /\ current'[v] = Head(s)
      BY <1>2, <2>1
    <3> QED
      BY ONLY <1>5, <3>1
  <2>2. CASE v # w
    BY <1>2, <2>2 DEF HeldInv
  <2> QED
    BY <2>1, <2>2
<1> QED
  BY <1>2, <1>6 DEF HeldInv

\* What an append, nothing, a drop and a receive do to the places of the queued jobs.
LEMMA AcceptPlaced ==
  ASSUME TypeOK, PlacedInv, NEW r \in Requests,
         job' = [job EXCEPT ![r] = "queued"],
         queue' = [queue EXCEPT ![WorkerOf[r]] = Append(@, r)],
         UNCHANGED <<consumer, current>>
  PROVE  PlacedInv'
<1> DEFINE s == queue[WorkerOf[r]]
<1>1. s \in Seq(Requests) /\ queue'[WorkerOf[r]] = Append(s, r)
  BY WorkersAssumption DEF TypeOK
<1>2. /\ Len(Append(s, r)) = Len(s) + 1
      /\ Len(s) \in Nat
      /\ \A i \in 1..Len(s) : Append(s, r)[i] = s[i]
      /\ Append(s, r)[Len(s) + 1] = r
  BY <1>1, AppendProperties, LenProperties
<1>3. Placed(r, WorkerOf[r])'
  <2>1. Len(s) + 1 \in 1..Len(Append(s, r))
    BY <1>2
  <2> QED
    BY <1>1, <1>2, <2>1 DEF Placed
<1>4. ASSUME NEW q \in Requests, q # r, job'[q] = "queued"
      PROVE  Placed(q, WorkerOf[q])'
  <2>1. Placed(q, WorkerOf[q])
    BY <1>4 DEF PlacedInv, TypeOK
  <2>2. CASE WorkerOf[q] # WorkerOf[r]
    <3>1. queue'[WorkerOf[q]] = queue[WorkerOf[q]]
      BY <2>2, WorkersAssumption DEF TypeOK
    <3> QED
      BY <2>1, <3>1 DEF Placed
  <2>3. CASE WorkerOf[q] = WorkerOf[r]
    <3>1. CASE \E i \in 1..Len(s) : s[i] = q
      <4>1. PICK i \in 1..Len(s) : s[i] = q
        BY <3>1
      <4>2. i \in 1..Len(Append(s, r)) /\ Append(s, r)[i] = q
        BY <1>2, <4>1
      <4> QED
        BY <1>1, <2>3, <4>2 DEF Placed
    <3>2. CASE consumer[WorkerOf[q]] = "offered" /\ current[WorkerOf[q]] = q
      BY <3>2 DEF Placed
    <3> QED
      BY <2>1, <2>3, <3>1, <3>2 DEF Placed
  <2> QED
    BY <2>2, <2>3
<1> QED
  BY <1>3, <1>4 DEF PlacedInv

LEMMA SamePlaced ==
  ASSUME PlacedInv, UNCHANGED <<job, queue, consumer, current>>
  PROVE  PlacedInv'
  BY DEF PlacedInv, Placed

LEMMA DropPlaced ==
  ASSUME TypeOK, PlacedInv, NEW r \in Requests,
         job' = [job EXCEPT ![r] = "dropped"],
         UNCHANGED <<queue, consumer, current>>
  PROVE  PlacedInv'
<1>1. \A q \in Requests : job'[q] = "queued" => job[q] = "queued"
  BY DEF TypeOK
<1>2. \A q \in Requests : Placed(q, WorkerOf[q]) => Placed(q, WorkerOf[q])'
  BY DEF Placed
<1> QED
  BY <1>1, <1>2 DEF PlacedInv

LEMMA ReceivePlaced ==
  ASSUME TypeOK, PlacedInv, NEW w \in Workers, Receive(w)
  PROVE  PlacedInv'
<1> DEFINE s == queue[w]
<1>1. s \in Seq(Requests) /\ s # <<>> /\ queue'[w] = Tail(s)
  BY DEF Receive, TypeOK
<1>2. consumer[w] = "idle" /\ consumer'[w] = "offered" /\ current'[w] = Head(s)
  BY DEF Receive, TypeOK
<1>3. /\ Len(Tail(s)) = Len(s) - 1
      /\ Len(s) \in Nat
      /\ \A i \in 1..Len(Tail(s)) : Tail(s)[i] = s[i + 1]
      /\ Head(s) = s[1]
  BY <1>1, HeadTailProperties, LenProperties
<1>4. SUFFICES ASSUME NEW q \in Requests, job[q] = "queued"
               PROVE  Placed(q, WorkerOf[q])'
  BY DEF PlacedInv, Receive, httpVars
<1>5. Placed(q, WorkerOf[q])
  BY <1>4 DEF PlacedInv
<1>6. CASE WorkerOf[q] # w
  <2>1. /\ queue'[WorkerOf[q]] = queue[WorkerOf[q]]
        /\ consumer'[WorkerOf[q]] = consumer[WorkerOf[q]]
        /\ current'[WorkerOf[q]] = current[WorkerOf[q]]
    BY <1>6, WorkersAssumption DEF Receive, TypeOK
  <2> QED
    BY <1>5, <2>1 DEF Placed
<1>7. CASE WorkerOf[q] = w
  <2>1. PICK k \in 1..Len(s) : s[k] = q
    BY <1>2, <1>5, <1>7 DEF Placed
  <2>2. CASE k = 1
    BY <1>2, <1>3, <1>7, <2>1, <2>2 DEF Placed
  <2>3. CASE k # 1
    <3>1. k - 1 \in 1..Len(Tail(s)) /\ (k - 1) + 1 = k
      BY <1>3, <2>1, <2>3
    <3>2. Tail(s)[k - 1] = q
      BY <1>3, <2>1, <3>1
    <3>3. \E i \in 1..Len(Tail(s)) : Tail(s)[i] = q
      BY <3>1, <3>2
    <3> QED
      BY <1>1, <1>7, <3>3 DEF Placed
  <2> QED
    BY <2>2, <2>3
<1> QED
  BY <1>6, <1>7

LEMMA StepHeldInv ==
  ASSUME IInv, TypeOK', FreshInv, HeldInv, [Next]_vars
  PROVE  HeldInv'
<1> USE WorkersAssumption, NoJobAssumption DEF IInv,
       mainVars, httpVars, queueVars, lifeVars, stopVars, sweepVars
<1>1. ASSUME NEW r \in Requests, Arrive(r) PROVE HeldInv'
  BY <1>1, SameHeld DEF Arrive
<1>2. ASSUME NEW r \in Requests, Store(r) PROVE HeldInv'
  BY <1>2, SameHeld DEF Store
<1>3. ASSUME NEW r \in Requests, LoadQueue(r) PROVE HeldInv'
  <2>1. CASE UNCHANGED job
    BY <1>3, <2>1, SameHeld DEF LoadQueue
  <2>2. CASE job' = [job EXCEPT ![r] = "dropped"]
    BY <1>3, <2>2, DropHeld DEF LoadQueue
  <2> QED
    BY <1>3, <2>1, <2>2 DEF LoadQueue
<1>4. ASSUME NEW r \in Requests, EnqueueLock(r) PROVE HeldInv'
  <2>1. CASE UNCHANGED job
    BY <1>4, <2>1, SameHeld DEF EnqueueLock
  <2>2. CASE job' = [job EXCEPT ![r] = "dropped"]
    BY <1>4, <2>2, DropHeld DEF EnqueueLock
  <2> QED
    BY <1>4, <2>1, <2>2 DEF EnqueueLock
<1>5. ASSUME NEW r \in Requests, EnqueueSend(r) PROVE HeldInv'
  <2>1. CASE Len(queue[WorkerOf[r]]) < QueueSize
    BY <1>5, <2>1, AcceptHeld DEF EnqueueSend
  <2>2. CASE ~(Len(queue[WorkerOf[r]]) < QueueSize)
    BY <1>5, <2>2, DropHeld DEF EnqueueSend
  <2> QED
    BY <2>1, <2>2
<1>6. ASSUME NEW w \in Workers, Receive(w) PROVE HeldInv'
  BY <1>6, ReceiveHeld
<1>7. ASSUME NEW w \in Workers, ConsumerEnds(w) PROVE HeldInv'
  BY <1>7 DEF ConsumerEnds, TypeOK, HeldInv
<1>8. ASSUME NEW w \in Workers, RefuseJob(w) PROVE HeldInv'
  <2>1. \A q \in Requests \ {current[w]} : job'[q] = job[q]
    BY <1>8 DEF RefuseJob, TypeOK
  <2> QED
    BY <1>8, <2>1, ConsumerHeld DEF RefuseJob
<1>9. ASSUME NEW w \in Workers, BeginJob(w) PROVE HeldInv'
  <2>1. \A q \in Requests \ {current[w]} : job'[q] = job[q]
    BY <1>9 DEF BeginJob, TypeOK
  <2>2. job'[current[w]] = "running"
    BY <1>9 DEF BeginJob, TypeOK, JobInv
  <2> QED
    BY <1>9, <2>1, <2>2, ConsumerHeld DEF BeginJob
<1>10. ASSUME NEW w \in Workers, LoseDatabase(w) PROVE HeldInv'
  <2>1. \A q \in Requests \ {current[w]} : job'[q] = job[q]
    BY <1>10 DEF LoseDatabase, TypeOK
  <2>2. consumer' = [consumer EXCEPT ![w] = "working"] /\ job'[current[w]] = "spoiled"
    BY <1>10 DEF LoseDatabase, TypeOK, JobInv
  <2> QED
    BY <1>10, <2>1, <2>2, ConsumerHeld DEF LoseDatabase
<1>11. ASSUME NEW w \in Workers, ReturnFromJob(w) PROVE HeldInv'
  <2>1. \A q \in Requests \ {current[w]} : job'[q] = job[q]
    BY <1>11 DEF ReturnFromJob, TypeOK
  <2> QED
    BY <1>11, <2>1, ConsumerHeld DEF ReturnFromJob
<1>12. ASSUME NEW w \in Workers, SwapQueue(w) PROVE HeldInv'
  BY <1>12, SameHeld DEF SwapQueue
<1>13. ASSUME NEW w \in Workers, SetStopping(w) PROVE HeldInv'
  BY <1>13, SameHeld DEF SetStopping
<1>14. ASSUME NEW w \in Workers, WaitEnds(w) PROVE HeldInv'
  BY <1>14, SameHeld DEF WaitEnds
<1>15. ASSUME NEW w \in Workers, WaitExpires(w) PROVE HeldInv'
  BY <1>15, SameHeld DEF WaitExpires
<1>16. ASSUME NEW w \in Workers, MarkClosed(w) PROVE HeldInv'
  BY <1>16, SameHeld DEF MarkClosed
<1>17. ASSUME NEW w \in Workers, CloseChannel(w) PROVE HeldInv'
  BY <1>17, SameHeld DEF CloseChannel
<1>18. CASE SweepStarts
  BY <1>18, SameHeld DEF SweepStarts
<1>19. CASE SweepEnds
  BY <1>19, SameHeld DEF SweepEnds
<1>20. CASE SweeperReturns
  BY <1>20, SameHeld DEF SweeperReturns
<1>21. CASE CancelSweeper
  BY <1>21, SameHeld DEF CancelSweeper
<1>22. CASE SweeperStopped
  BY <1>22, SameHeld DEF SweeperStopped
<1>23. CASE Signal
  BY <1>23, SameHeld DEF Signal
<1>24. CASE DeadlinePasses
  BY <1>24, SameHeld DEF DeadlinePasses
<1>25. CASE HTTPStopped
  BY <1>25, SameHeld DEF HTTPStopped
<1>26. CASE WorkersStopped
  BY <1>26, SameHeld DEF WorkersStopped
<1>27. CASE CloseDB
  BY <1>27, SameHeld DEF CloseDB
<1>28. CASE Exit
  BY <1>28, SameHeld DEF Exit
<1>29. CASE UNCHANGED vars
  BY <1>29, SameHeld DEF vars
<1> QED
  BY <1>1, <1>2, <1>3, <1>4, <1>5, <1>6, <1>7, <1>8, <1>9, <1>10, <1>11, <1>12, <1>13, <1>14, <1>15, <1>16, <1>17, <1>18, <1>19, <1>20, <1>21, <1>22, <1>23, <1>24, <1>25, <1>26, <1>27, <1>28, <1>29
     DEF Next, Step, Request, Consume, Work, Stop, Sweep, Main, Terminated

LEMMA StepPlacedInv ==
  ASSUME IInv, TypeOK', HeldInv, PlacedInv, [Next]_vars
  PROVE  PlacedInv'
<1> USE WorkersAssumption, NoJobAssumption DEF IInv,
       mainVars, httpVars, queueVars, lifeVars, stopVars, sweepVars
<1>1. ASSUME NEW r \in Requests, Arrive(r) PROVE PlacedInv'
  BY <1>1, SamePlaced DEF Arrive
<1>2. ASSUME NEW r \in Requests, Store(r) PROVE PlacedInv'
  BY <1>2, SamePlaced DEF Store
<1>3. ASSUME NEW r \in Requests, LoadQueue(r) PROVE PlacedInv'
  <2>1. CASE UNCHANGED job
    BY <1>3, <2>1, SamePlaced DEF LoadQueue
  <2>2. CASE job' = [job EXCEPT ![r] = "dropped"]
    BY <1>3, <2>2, DropPlaced DEF LoadQueue
  <2> QED
    BY <1>3, <2>1, <2>2 DEF LoadQueue
<1>4. ASSUME NEW r \in Requests, EnqueueLock(r) PROVE PlacedInv'
  <2>1. CASE UNCHANGED job
    BY <1>4, <2>1, SamePlaced DEF EnqueueLock
  <2>2. CASE job' = [job EXCEPT ![r] = "dropped"]
    BY <1>4, <2>2, DropPlaced DEF EnqueueLock
  <2> QED
    BY <1>4, <2>1, <2>2 DEF EnqueueLock
<1>5. ASSUME NEW r \in Requests, EnqueueSend(r) PROVE PlacedInv'
  <2>1. CASE Len(queue[WorkerOf[r]]) < QueueSize
    BY <1>5, <2>1, AcceptPlaced DEF EnqueueSend
  <2>2. CASE ~(Len(queue[WorkerOf[r]]) < QueueSize)
    BY <1>5, <2>2, DropPlaced DEF EnqueueSend
  <2> QED
    BY <2>1, <2>2
<1>6. ASSUME NEW w \in Workers, Receive(w) PROVE PlacedInv'
  BY <1>6, ReceivePlaced
<1>7. ASSUME NEW w \in Workers, ConsumerEnds(w) PROVE PlacedInv'
  BY <1>7 DEF ConsumerEnds, TypeOK, PlacedInv, Placed, JobInv
<1>8. ASSUME NEW w \in Workers, RefuseJob(w) PROVE PlacedInv'
  BY <1>8 DEF RefuseJob, TypeOK, PlacedInv, Placed, JobInv
<1>9. ASSUME NEW w \in Workers, BeginJob(w) PROVE PlacedInv'
  BY <1>9 DEF BeginJob, TypeOK, PlacedInv, Placed, JobInv
<1>10. ASSUME NEW w \in Workers, LoseDatabase(w) PROVE PlacedInv'
  BY <1>10 DEF LoseDatabase, TypeOK, PlacedInv, Placed, JobInv
<1>11. ASSUME NEW w \in Workers, ReturnFromJob(w) PROVE PlacedInv'
  BY <1>11 DEF ReturnFromJob, TypeOK, PlacedInv, Placed, JobInv
<1>12. ASSUME NEW w \in Workers, SwapQueue(w) PROVE PlacedInv'
  BY <1>12, SamePlaced DEF SwapQueue
<1>13. ASSUME NEW w \in Workers, SetStopping(w) PROVE PlacedInv'
  BY <1>13, SamePlaced DEF SetStopping
<1>14. ASSUME NEW w \in Workers, WaitEnds(w) PROVE PlacedInv'
  BY <1>14, SamePlaced DEF WaitEnds
<1>15. ASSUME NEW w \in Workers, WaitExpires(w) PROVE PlacedInv'
  BY <1>15, SamePlaced DEF WaitExpires
<1>16. ASSUME NEW w \in Workers, MarkClosed(w) PROVE PlacedInv'
  BY <1>16, SamePlaced DEF MarkClosed
<1>17. ASSUME NEW w \in Workers, CloseChannel(w) PROVE PlacedInv'
  BY <1>17, SamePlaced DEF CloseChannel
<1>18. CASE SweepStarts
  BY <1>18, SamePlaced DEF SweepStarts
<1>19. CASE SweepEnds
  BY <1>19, SamePlaced DEF SweepEnds
<1>20. CASE SweeperReturns
  BY <1>20, SamePlaced DEF SweeperReturns
<1>21. CASE CancelSweeper
  BY <1>21, SamePlaced DEF CancelSweeper
<1>22. CASE SweeperStopped
  BY <1>22, SamePlaced DEF SweeperStopped
<1>23. CASE Signal
  BY <1>23, SamePlaced DEF Signal
<1>24. CASE DeadlinePasses
  BY <1>24, SamePlaced DEF DeadlinePasses
<1>25. CASE HTTPStopped
  BY <1>25, SamePlaced DEF HTTPStopped
<1>26. CASE WorkersStopped
  BY <1>26, SamePlaced DEF WorkersStopped
<1>27. CASE CloseDB
  BY <1>27, SamePlaced DEF CloseDB
<1>28. CASE Exit
  BY <1>28, SamePlaced DEF Exit
<1>29. CASE UNCHANGED vars
  BY <1>29, SamePlaced DEF vars
<1> QED
  BY <1>1, <1>2, <1>3, <1>4, <1>5, <1>6, <1>7, <1>8, <1>9, <1>10, <1>11, <1>12, <1>13, <1>14, <1>15, <1>16, <1>17, <1>18, <1>19, <1>20, <1>21, <1>22, <1>23, <1>24, <1>25, <1>26, <1>27, <1>28, <1>29
     DEF Next, Step, Request, Consume, Work, Stop, Sweep, Main, Terminated

LEMMA InitJInv == Init => JInv
  BY InitIInv, WorkersAssumption
     DEF Init, JInv, GaveUpInv, FreshInv, HeldInv, PlacedInv, Waited

THEOREM InductiveHeld == Spec => []JInv
<1>1. Init => JInv
  BY InitJInv
<1>2. JInv /\ IInv' /\ [Next]_vars => JInv'
  BY StepGaveUpInv, StepFreshInv, StepHeldInv, StepPlacedInv DEF JInv, IInv
<1> QED
  BY <1>1, <1>2, Inductive, PTL DEF Spec

\* An accepted job is in exactly one place until its fate is known, however many workers,
\* requests and places in the channel there are.
THEOREM HeldSafety == Spec => []AcceptedJobIsHeld
<1>1. JInv => AcceptedJobIsHeld
  <2> SUFFICES ASSUME JInv, NEW r \in Requests
               PROVE  LET w  == WorkerOf[r]
                          at == {i \in 1..Len(queue[w]) : queue[w][i] = r}
                      IN  /\ job[r] = "queued" <=>
                               (at # {} \/ (consumer[w] = "offered" /\ current[w] = r))
                          /\ at # {} => /\ \A i, j \in at : i = j
                                        /\ current[w] # r
    BY DEF AcceptedJobIsHeld
  <2> DEFINE w  == WorkerOf[r]
             at == {i \in 1..Len(queue[w]) : queue[w][i] = r}
  <2>1. w \in Workers
    BY WorkersAssumption
  <2>2. job[r] = "queued" => at # {} \/ (consumer[w] = "offered" /\ current[w] = r)
    BY DEF JInv, PlacedInv, Placed
  <2>3. at # {} => job[r] = "queued" /\ current[w] # r
    BY <2>1 DEF JInv, HeldInv
  <2>4. consumer[w] = "offered" /\ current[w] = r => job[r] = "queued"
    BY <2>1 DEF JInv, HeldInv
  <2>5. \A i, j \in at : i = j
    BY <2>1 DEF JInv, HeldInv
  <2> QED
    BY <2>2, <2>3, <2>4, <2>5
<1> QED
  BY <1>1, InductiveHeld, PTL

-----------------------------------------------------------------------------
(***************************************************************************)
(* The refinement.                                                         *)
(***************************************************************************)

\* What the contract knows of a job that was not begun.
NotBegun == {"none", "queued", "dropped", "refused"}

LEMMA InitRefines == Init => Contract!Init
<1> SUFFICES ASSUME Init PROVE Contract!Init
  OBVIOUS
<1>1. \A r \in Requests : job[r] = "none"
  BY DEF Init
<1>2. main = "serving" /\ ~deadline /\ pool = "open"
  BY DEF Init
<1> QED
  BY <1>1, <1>2 DEF Contract!Init

\* The contract does not see a step that begins, hurts and returns no job, leaves the
\* deadline and the pool alone, and reports nothing once the pool is closed.
LEMMA StutterRefines ==
  ASSUME TypeOK,
         \A r \in Requests : job'[r] = job[r] \/ (job[r] \in NotBegun /\ job'[r] \in NotBegun),
         main' = "serving" <=> main = "serving",
         UNCHANGED <<deadline, pool>>,
         errs' = errs \/ pool = "open"
  PROVE  UNCHANGED Contract!vars
<1>1. UNCHANGED {r \in Requests : job[r] \in {"running", "spoiled", "completed", "interrupted"}}
  BY DEF NotBegun
<1>2. UNCHANGED {r \in Requests : job[r] \in {"running", "spoiled"}}
  BY DEF NotBegun
<1>3. UNCHANGED {r \in Requests : job[r] \in {"spoiled", "interrupted"}}
  BY DEF NotBegun
<1> QED
  BY <1>1, <1>2, <1>3 DEF Contract!vars

\* A job begins before the pool closes, and it never began before.
LEMMA BeginRefines ==
  ASSUME JInv, NEW w \in Workers, BeginJob(w)
  PROVE  Contract!Next
<1>r. PICK r \in Requests : r = current[w]
  BY DEF BeginJob, JInv, IInv, JobInv
<1>1. job[r] = "queued" /\ job' = [job EXCEPT ![r] = "running"]
  BY <1>r DEF BeginJob, JInv, IInv, HeldInv
<1>2. pool = "open"
  BY DEF BeginJob, JInv, IInv, TypeOK, MainInv, CountInv, Waited
<1>3. /\ job'[r] = "running"
      /\ \A q \in Requests : q # r => job'[q] = job[q]
  BY <1>1 DEF JInv, IInv, TypeOK
<1>4. Contract!Begin(r)
  BY <1>1, <1>2, <1>3 DEF Contract!Begin, BeginJob, mainVars
<1> QED
  BY <1>4 DEF Contract!Next

\* A job at work loses its database only after the deadline.
LEMMA HurtRefines ==
  ASSUME JInv, NEW w \in Workers, LoseDatabase(w)
  PROVE  Contract!Next
<1>r. PICK r \in Requests : r = current[w]
  BY DEF LoseDatabase, JInv, IInv, JobInv
<1>1. job[r] = "running" /\ job' = [job EXCEPT ![r] = "spoiled"]
  BY <1>r DEF LoseDatabase
<1>2. ~finished[w] /\ stopper[w] \in Waited
  BY DEF LoseDatabase, JInv, IInv, TypeOK, MainInv, CountInv, Waited
<1>3. deadline
  BY <1>2 DEF JInv, GaveUpInv
<1>4. /\ job'[r] = "spoiled"
      /\ \A q \in Requests : q # r => job'[q] = job[q]
  BY <1>1 DEF JInv, IInv, TypeOK
<1>5. Contract!Hurt(r)
  BY <1>1, <1>3, <1>4 DEF Contract!Hurt, LoseDatabase, mainVars
<1> QED
  BY <1>5 DEF Contract!Next

LEMMA ReturnRefines ==
  ASSUME JInv, NEW w \in Workers, ReturnFromJob(w)
  PROVE  Contract!Next
<1>r. PICK r \in Requests : r = current[w]
  BY DEF ReturnFromJob, JInv, IInv, JobInv
<1>1. job[r] \in {"running", "spoiled"}
  BY <1>r DEF ReturnFromJob, JInv, IInv, HeldInv
<1>2. /\ job[r] = "running" => job'[r] = "completed"
      /\ job[r] = "spoiled" => job'[r] = "interrupted"
      /\ \A q \in Requests : q # r => job'[q] = job[q]
  BY <1>r, <1>1 DEF JInv, IInv, TypeOK, ReturnFromJob
<1>3. Contract!Return(r)
  BY <1>1, <1>2 DEF Contract!Return, ReturnFromJob, mainVars
<1> QED
  BY <1>3 DEF Contract!Next

\* The pool closes over a job at work only after the deadline, and a close without an error
\* finds that every stop has seen its jobs return.
LEMMA CloseRefines ==
  ASSUME JInv, CloseDB
  PROVE  Contract!Next
<1>1. main = "pool" /\ pool = "open" /\ pool' = "closed" /\ main' = "closing"
  BY DEF CloseDB, JInv, IInv, TypeOK, MainInv
<1>2. \A w \in Workers : stopper[w] = "returned"
  BY <1>1 DEF JInv, IInv, MainInv
<1>3. deadline \/ \A r \in Requests : job[r] \notin {"running", "spoiled"}
  <2> SUFFICES ASSUME NEW r \in Requests, job[r] \in {"running", "spoiled"} PROVE deadline
    OBVIOUS
  <2>1. consumer[WorkerOf[r]] = "working" /\ WorkerOf[r] \in Workers
    BY WorkersAssumption DEF JInv, IInv, JobInv
  <2>2. ~finished[WorkerOf[r]]
    BY <2>1 DEF JInv, IInv, CountInv
  <2> QED
    BY <1>2, <2>1, <2>2 DEF JInv, GaveUpInv, Waited
<1>4. ASSUME errs' = {}, NEW r \in Requests
      PROVE  job[r] \notin {"running", "spoiled", "interrupted"}
  <2>1. errs = {}
    BY <1>4 DEF CloseDB
  <2>2. \A w \in Workers : finished[w]
    BY <1>2, <2>1 DEF JInv, IInv, StopInv
  <2>3. WorkerOf[r] \in Workers
    BY WorkersAssumption
  <2> QED
    BY <2>2, <2>3 DEF JInv, IInv, CountInv, JobInv, HurtInv
<1>5. UNCHANGED <<deadline, job>>
  BY DEF CloseDB, httpVars
<1>6. Contract!ClosePool
  BY <1>1, <1>3, <1>4, <1>5 DEF Contract!ClosePool
<1> QED
  BY <1>6 DEF Contract!Next

LEMMA StepRefines ==
  ASSUME JInv, [Next]_vars
  PROVE  Contract!Next \/ UNCHANGED Contract!vars
<1> USE WorkersAssumption DEF JInv, IInv, TypeOK, FreshInv, HeldInv, NotBegun, MainInv,
       mainVars, httpVars, queueVars, lifeVars, stopVars, sweepVars
<1>1. ASSUME NEW r \in Requests, Arrive(r) PROVE Contract!Next \/ UNCHANGED Contract!vars
  BY <1>1, StutterRefines DEF Arrive
<1>2. ASSUME NEW r \in Requests, Store(r) PROVE Contract!Next \/ UNCHANGED Contract!vars
  BY <1>2, StutterRefines DEF Store
<1>3. ASSUME NEW r \in Requests, LoadQueue(r) PROVE Contract!Next \/ UNCHANGED Contract!vars
  BY <1>3, StutterRefines DEF LoadQueue
<1>4. ASSUME NEW r \in Requests, EnqueueLock(r) PROVE Contract!Next \/ UNCHANGED Contract!vars
  BY <1>4, StutterRefines DEF EnqueueLock
<1>5. ASSUME NEW r \in Requests, EnqueueSend(r) PROVE Contract!Next \/ UNCHANGED Contract!vars
  BY <1>5, StutterRefines DEF EnqueueSend
<1>6. ASSUME NEW w \in Workers, Receive(w) PROVE Contract!Next \/ UNCHANGED Contract!vars
  BY <1>6, StutterRefines DEF Receive
<1>7. ASSUME NEW w \in Workers, ConsumerEnds(w) PROVE Contract!Next \/ UNCHANGED Contract!vars
  BY <1>7, StutterRefines DEF ConsumerEnds
<1>8. ASSUME NEW w \in Workers, RefuseJob(w) PROVE Contract!Next \/ UNCHANGED Contract!vars
  BY <1>8, StutterRefines DEF RefuseJob
<1>9. ASSUME NEW w \in Workers, BeginJob(w) PROVE Contract!Next \/ UNCHANGED Contract!vars
  BY <1>9, BeginRefines
<1>10. ASSUME NEW w \in Workers, LoseDatabase(w) PROVE Contract!Next \/ UNCHANGED Contract!vars
  BY <1>10, HurtRefines
<1>11. ASSUME NEW w \in Workers, ReturnFromJob(w) PROVE Contract!Next \/ UNCHANGED Contract!vars
  BY <1>11, ReturnRefines
<1>12. ASSUME NEW w \in Workers, SwapQueue(w) PROVE Contract!Next \/ UNCHANGED Contract!vars
  BY <1>12, StutterRefines DEF SwapQueue
<1>13. ASSUME NEW w \in Workers, SetStopping(w) PROVE Contract!Next \/ UNCHANGED Contract!vars
  BY <1>13, StutterRefines DEF SetStopping
<1>14. ASSUME NEW w \in Workers, WaitEnds(w) PROVE Contract!Next \/ UNCHANGED Contract!vars
  BY <1>14, StutterRefines DEF WaitEnds
<1>15. ASSUME NEW w \in Workers, WaitExpires(w) PROVE Contract!Next \/ UNCHANGED Contract!vars
  BY <1>15, StutterRefines DEF WaitExpires
<1>16. ASSUME NEW w \in Workers, MarkClosed(w) PROVE Contract!Next \/ UNCHANGED Contract!vars
  BY <1>16, StutterRefines DEF MarkClosed
<1>17. ASSUME NEW w \in Workers, CloseChannel(w) PROVE Contract!Next \/ UNCHANGED Contract!vars
  BY <1>17, StutterRefines DEF CloseChannel, MainInv
<1>18. CASE SweepStarts
  BY <1>18, StutterRefines DEF SweepStarts
<1>19. CASE SweepEnds
  BY <1>19, StutterRefines DEF SweepEnds
<1>20. CASE SweeperReturns
  BY <1>20, StutterRefines DEF SweeperReturns
<1>21. CASE CancelSweeper
  BY <1>21, StutterRefines DEF CancelSweeper
<1>22. CASE SweeperStopped
  BY <1>22, StutterRefines DEF SweeperStopped
<1>23. CASE Signal
  <2>1. Contract!Drain
    BY <1>23 DEF Signal, Contract!Drain, MainInv
  <2> QED
    BY <2>1 DEF Contract!Next
<1>24. CASE DeadlinePasses
  <2>1. Contract!Expire
    BY <1>24 DEF DeadlinePasses, Contract!Expire
  <2> QED
    BY <2>1 DEF Contract!Next
<1>25. CASE HTTPStopped
  BY <1>25, StutterRefines DEF HTTPStopped
<1>26. CASE WorkersStopped
  BY <1>26, StutterRefines DEF WorkersStopped
<1>27. CASE CloseDB
  BY <1>27, CloseRefines
<1>28. CASE Exit
  BY <1>28, StutterRefines DEF Exit
<1>29. CASE UNCHANGED vars
  BY <1>29, StutterRefines DEF vars
<1> QED
  BY <1>1, <1>2, <1>3, <1>4, <1>5, <1>6, <1>7, <1>8, <1>9, <1>10, <1>11, <1>12, <1>13, <1>14, <1>15, <1>16, <1>17, <1>18, <1>19, <1>20, <1>21, <1>22, <1>23, <1>24, <1>25, <1>26, <1>27, <1>28, <1>29
     DEF Next, Step, Request, Consume, Work, Stop, Sweep, Main, Terminated

\* The server keeps the contract: whatever the workers and the requests are, a job begins
\* once and before the pool is gone, loses its database only after the deadline, and a
\* clean verdict covers no job that was cut short.
THEOREM Refinement == Spec => KeepsContract
<1>1. Init => Contract!Init
  BY InitRefines
<1>2. JInv /\ [Next]_vars => [Contract!Next]_(Contract!vars)
  BY StepRefines
<1> QED
  BY <1>1, <1>2, InductiveHeld, PTL DEF Spec, KeepsContract, Contract!Spec
=============================================================================
