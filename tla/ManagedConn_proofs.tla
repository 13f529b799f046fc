-------------------------- MODULE ManagedConn_proofs --------------------------
(***************************************************************************)
(* What ManagedConn promises for any number of senders and of losses: no   *)
(* connection is open beside the current one but the one that is being     *)
(* replaced, and a Close that has returned leaves none behind.  Both rest  *)
(* on reconnectMu: it is held exactly inside reconnectWithBackoff, so one  *)
(* goroutine at most replaces a connection.                                *)
(***************************************************************************)
EXTENDS ManagedConn, TLAPS

-----------------------------------------------------------------------------
(* Type correctness.                                                       *)

\* The steps of a reconnect keep every variable's type; a connection that is installed is
\* one more of the connections there have been.
LEMMA ReconnectTypes ==
  ASSUME TypeOK, NEW g \in Goroutines, Reconnect(g)
  PROVE  TypeOK'
<1> USE DEF TypeOK, Reconnecting, Goes, DialFails, GaveUp, Reconnected, Goroutines,
            envVars, connVars, closeVars
<1>1. CASE Lock(g)
  BY <1>1 DEF Lock
<1>2. CASE Check(g)
  BY <1>2 DEF Check
<1>3. CASE Backoff(g)
  BY <1>3 DEF Backoff
<1>4. CASE Dial(g)
  BY <1>4 DEF Dial
<1>5. CASE Install(g)
  <2>1. CASE closed
    BY <1>5, <2>1 DEF Install
  <2>2. CASE ~closed
    <3>1. generation' = generation + 1 /\ alive' \subseteq alive \cup {generation + 1}
      BY <1>5, <2>2 DEF Install
    <3>2. alive' \subseteq 1..generation'
      BY <3>1
    <3>3. held' \in [Goroutines -> 1..generation'] /\ subGen' \in 1..generation'
      BY <1>5, <2>2, <3>1 DEF Install
    <3> QED
      BY <1>5, <2>2, <3>1, <3>2, <3>3 DEF Install
  <2> QED
    BY <2>1, <2>2
<1>6. CASE Retire(g)
  BY <1>6 DEF Retire
<1> QED
  BY <1>1, <1>2, <1>3, <1>4, <1>5, <1>6 DEF Reconnect

\* The other steps of a sender.
LEMMA SenderTypes ==
  ASSUME TypeOK, NEW s \in Senders, Arrive(s) \/ GetConn(s) \/ Send(s)
  PROVE  TypeOK'
<1> USE DEF TypeOK, Reconnecting, Goes, Goroutines, envVars, connVars, closeVars
<1>1. CASE Arrive(s)
  BY <1>1 DEF Arrive
<1>2. CASE GetConn(s)
  BY <1>2 DEF GetConn
<1>3. CASE Send(s)
  BY <1>3 DEF Send
<1> QED
  BY <1>1, <1>2, <1>3

\* The other steps of the consumer.
LEMMA ConsumerTypes ==
  ASSUME TypeOK, SubscriptionCloses \/ GetSubscriptionConn \/ Subscribe
  PROVE  TypeOK'
<1> USE DEF TypeOK, Reconnecting, Goes, Goroutines, envVars, connVars, closeVars
<1>1. CASE SubscriptionCloses
  BY <1>1 DEF SubscriptionCloses
<1>2. CASE GetSubscriptionConn
  BY <1>2 DEF GetSubscriptionConn
<1>3. CASE Subscribe
  BY <1>3 DEF Subscribe
<1> QED
  BY <1>1, <1>2, <1>3

\* The steps of the broker, the network and Close.
LEMMA OutsideTypes ==
  ASSUME TypeOK, Environment \/ SetClosed \/ Closing
  PROVE  TypeOK'
<1> USE DropsAssumption DEF TypeOK, envVars, connVars, closeVars
<1>1. CASE LoseBroker
  BY <1>1 DEF LoseBroker
<1>2. CASE BrokerReturns
  BY <1>2 DEF BrokerReturns
<1>3. CASE LoseConnection
  BY <1>3 DEF LoseConnection
<1>4. CASE SetClosed
  BY <1>4 DEF SetClosed
<1>5. CASE CloseDone
  BY <1>5 DEF CloseDone
<1>6. CASE DisconnectWithin
  BY <1>6 DEF DisconnectWithin
<1> QED
  BY <1>1, <1>2, <1>3, <1>4, <1>5, <1>6 DEF Environment, Closing

LEMMA TypeStep ==
  ASSUME TypeOK, [Next]_vars
  PROVE  TypeOK'
<1>1. ASSUME NEW s \in Senders, Arrive(s) \/ Enqueue(s) PROVE TypeOK'
  BY <1>1, SenderTypes, ReconnectTypes DEF Enqueue, Goroutines
<1>2. CASE Consume
  BY <1>2, ConsumerTypes, ReconnectTypes DEF Consume, Goroutines
<1>3. CASE UNCHANGED vars
  BY <1>3 DEF vars, TypeOK, envVars, connVars, closeVars
<1> QED
  BY <1>1, <1>2, <1>3, OutsideTypes DEF Next, Ended

\* Every variable keeps its type: the connections that are open, the one each goroutine
\* took and the one that is subscribed to are all connections there have been.
THEOREM TypeCorrect == Spec => []TypeOK
<1>1. ASSUME Init PROVE TypeOK
  <2>1. pc \in [Goroutines -> Reconnecting \cup
                 {"new", "get", "send", "getAgain", "sendAgain", "sent", "failed",
                  "receive", "getSub", "subscribe", "exited"}]
    BY <1>1 DEF Init
  <2>2. /\ held \in [Goroutines -> 1..generation] /\ alive \subseteq 1..generation
        /\ subGen \in 1..generation /\ drops \in 0..MaxDrops /\ generation \in Nat \ {0}
    BY <1>1, DropsAssumption DEF Init
  <2>3. mutex \in Goroutines \cup {Nobody}
    BY <1>1 DEF Init
  <2>4. /\ broker \in {"up", "down"} /\ closer \in {"idle", "signal", "disconnect", "returned"}
        /\ closed \in BOOLEAN /\ done \in BOOLEAN
    BY <1>1 DEF Init
  <2> QED
    BY <2>1, <2>2, <2>3, <2>4 DEF TypeOK
<1> QED
  BY <1>1, TypeStep, PTL DEF Spec

-----------------------------------------------------------------------------
(***************************************************************************)
(* The mutex.                                                              *)
(***************************************************************************)

\* Inside reconnectWithBackoff, after the lock.
Inside == {"check", "backoff", "dial", "install", "retire"}

\* reconnectMu is held by the goroutine that is inside, and by nobody when none is.
MutexInv == \A g \in Goroutines : pc[g] \in Inside <=> mutex = g

\* The inside is left with an unlock, by whichever return.
LEMMA ReconnectMutex ==
  ASSUME TypeOK, MutexInv, NEW g \in Goroutines, Reconnect(g)
  PROVE  MutexInv'
<1> USE GoroutinesAssumption
    DEF TypeOK, MutexInv, Inside, Goes, DialFails, GaveUp, Reconnected, Goroutines
<1>1. CASE Lock(g)
  BY <1>1 DEF Lock
<1>2. CASE Check(g)
  BY <1>2 DEF Check
<1>3. CASE Backoff(g)
  BY <1>3 DEF Backoff
<1>4. CASE Dial(g)
  BY <1>4 DEF Dial
<1>5. CASE Install(g)
  BY <1>5 DEF Install
<1>6. CASE Retire(g)
  BY <1>6 DEF Retire
<1> QED
  BY <1>1, <1>2, <1>3, <1>4, <1>5, <1>6 DEF Reconnect

\* Everything else happens outside, and leaves the mutex alone.
LEMMA OutsideMutex ==
  ASSUME TypeOK, MutexInv,
         \/ \E s \in Senders : Arrive(s) \/ GetConn(s) \/ Send(s)
         \/ SubscriptionCloses \/ GetSubscriptionConn \/ Subscribe
         \/ Environment \/ SetClosed \/ Closing \/ UNCHANGED vars
  PROVE  MutexInv'
<1> USE DEF TypeOK, MutexInv, Inside, Goes, Goroutines
<1>1. ASSUME NEW s \in Senders, Arrive(s) \/ GetConn(s) \/ Send(s) PROVE MutexInv'
  BY <1>1 DEF Arrive, GetConn, Send
<1>2. CASE SubscriptionCloses
  BY <1>2 DEF SubscriptionCloses
<1>3. CASE GetSubscriptionConn \/ Subscribe
  BY <1>3 DEF GetSubscriptionConn, Subscribe
<1>4. CASE Environment \/ SetClosed \/ Closing \/ UNCHANGED vars
  BY <1>4 DEF Environment, LoseBroker, BrokerReturns, LoseConnection, SetClosed, Closing,
              CloseDone, DisconnectWithin, vars
<1> QED
  BY <1>1, <1>2, <1>3, <1>4

\* reconnectMu excludes: two goroutines are never both inside reconnectWithBackoff, and no
\* return from it, with an error or without, leaves the mutex locked.
THEOREM MutexSafety == Spec => []MutexInv
<1>1. ASSUME Init PROVE MutexInv
  <2>1. ASSUME NEW g \in Goroutines PROVE pc[g] \notin Inside /\ mutex # g
    BY <1>1, <2>1, GoroutinesAssumption DEF Init, Inside, Goroutines
  <2> QED
    BY <2>1 DEF MutexInv
<1>2. TypeOK /\ MutexInv /\ [Next]_vars => MutexInv'
  <2>1. ASSUME TypeOK, MutexInv, Next PROVE MutexInv'
    <3>1. \/ \E g \in Goroutines : Reconnect(g)
          \/ \E s \in Senders : Arrive(s) \/ GetConn(s) \/ Send(s)
          \/ SubscriptionCloses \/ GetSubscriptionConn \/ Subscribe
          \/ Environment \/ SetClosed \/ Closing \/ UNCHANGED vars
      BY <2>1 DEF Next, Enqueue, Consume, Ended, Goroutines
    <3> QED
      BY <2>1, <3>1, ReconnectMutex, OutsideMutex
  <2> QED
    BY <2>1, OutsideMutex
<1> QED
  BY <1>1, <1>2, TypeCorrect, PTL DEF Spec

-----------------------------------------------------------------------------
(***************************************************************************)
(* The connections that are open.                                          *)
(***************************************************************************)

\* Who replaces a connection holds the mutex, so all that retire retire the same one.
LEMMA OneRetires ==
  ASSUME TypeOK, MutexInv, NEW g \in Goroutines, pc[g] \in Inside
  PROVE  \A h \in Goroutines : pc[h] \in Inside => h = g
BY DEF MutexInv

\* Close has set the flag before it does anything else, and only Close goes on from there.
ClosedInv == /\ closer # "idle" => closed
             /\ done => closed

\* Open is the current connection, and what is being retired; after Close only that.
ConnInv == OneConnection /\ ClosedInv /\ CloseLeavesNothing

\* A step that opens no connection, installs none, and takes nobody into the retiring of
\* one or out of it.
LEMMA OtherSteps ==
  ASSUME ConnInv, alive' \subseteq alive,
         UNCHANGED <<generation, closed, done, closer>>,
         \A g \in Goroutines : pc[g] = "retire" <=> pc'[g] = "retire"
  PROVE  ConnInv'
<1>1. Retiring' = Retiring
  BY DEF Retiring
<1> QED
  BY <1>1 DEF ConnInv, OneConnection, ClosedInv, CloseLeavesNothing

LEMMA ReconnectConn ==
  ASSUME TypeOK, MutexInv, ConnInv, NEW g \in Goroutines, Reconnect(g)
  PROVE  ConnInv'
<1> USE DEF Goes, DialFails, GaveUp, Reconnected, connVars, closeVars
<1>1. CASE Lock(g) \/ Check(g) \/ Backoff(g) \/ Dial(g)
  <2>1. \A h \in Goroutines : pc[h] = "retire" <=> pc'[h] = "retire"
    BY <1>1 DEF Lock, Check, Backoff, Dial, TypeOK
  <2> QED
    BY <1>1, <2>1, OtherSteps DEF Lock, Check, Backoff, Dial
<1>2. CASE Install(g) /\ closed
  <2>1. \A h \in Goroutines : pc[h] = "retire" <=> pc'[h] = "retire"
    BY <1>2 DEF Install, TypeOK
  <2> QED
    BY <1>2, <2>1, OtherSteps DEF Install
<1>3. CASE Install(g) /\ ~closed
  <2>1. /\ generation' = generation + 1 /\ alive' \subseteq alive \cup {generation + 1}
        /\ pc' = [pc EXCEPT ![g] = "retire"]
        /\ UNCHANGED <<closed, done, closer>>
    BY <1>3 DEF Install
  <2>2. \A h \in Goroutines : pc[h] # "retire"
    BY <1>3, OneRetires DEF Install, Inside
  <2>3. alive \subseteq {generation}
    BY <2>2 DEF ConnInv, OneConnection, Retiring
  <2>4. generation \in Retiring'
    BY <2>1 DEF Retiring, TypeOK
  <2> QED
    BY <1>3, <2>1, <2>3, <2>4 DEF ConnInv, OneConnection, ClosedInv, CloseLeavesNothing
<1>4. CASE Retire(g)
  <2>1. \A h \in Goroutines : pc[h] = "retire" => h = g
    BY <1>4, OneRetires DEF Retire, Inside
  <2>2. Retiring \subseteq {generation - 1}
    BY DEF Retiring
  <2> QED
    BY <1>4, <2>2 DEF Retire, ConnInv, OneConnection, ClosedInv, CloseLeavesNothing
<1> QED
  BY <1>1, <1>2, <1>3, <1>4 DEF Reconnect

\* Close: what it leaves open is what OneConnection allows without the current connection.
LEMMA CloseConn ==
  ASSUME ConnInv, SetClosed \/ Closing
  PROVE  ConnInv'
<1>1. Retiring' = Retiring
  BY DEF Retiring, SetClosed, Closing, CloseDone, DisconnectWithin, connVars
<1> QED
  BY <1>1
  DEF ConnInv, OneConnection, ClosedInv, CloseLeavesNothing, SetClosed, Closing, CloseDone,
      DisconnectWithin, connVars

LEMMA ConnStep ==
  ASSUME TypeOK, MutexInv, ConnInv, [Next]_vars
  PROVE  ConnInv'
<1>1. CASE Environment
  BY <1>1, OtherSteps DEF Environment, LoseBroker, BrokerReturns, LoseConnection, connVars, closeVars
<1>2. ASSUME NEW s \in Senders, Arrive(s) \/ GetConn(s) \/ Send(s) PROVE ConnInv'
  <2>1. \A h \in Goroutines : pc[h] = "retire" <=> pc'[h] = "retire"
    BY <1>2 DEF Arrive, GetConn, Send, Goes, TypeOK
  <2> QED
    BY <1>2, <2>1, OtherSteps DEF Arrive, GetConn, Send, connVars, closeVars
<1>3. CASE SubscriptionCloses \/ GetSubscriptionConn \/ Subscribe
  <2>1. \A h \in Goroutines : pc[h] = "retire" <=> pc'[h] = "retire"
    BY <1>3 DEF SubscriptionCloses, GetSubscriptionConn, Subscribe, Goes, TypeOK
  <2> QED
    BY <1>3, <2>1, OtherSteps
    DEF SubscriptionCloses, GetSubscriptionConn, Subscribe, connVars, closeVars
<1>4. ASSUME NEW g \in Goroutines, Reconnect(g) PROVE ConnInv'
  BY <1>4, ReconnectConn
<1>5. CASE SetClosed \/ Closing
  BY <1>5, CloseConn
<1>6. CASE UNCHANGED vars
  BY <1>6, OtherSteps DEF vars, connVars, closeVars
<1> QED
  BY <1>1, <1>2, <1>3, <1>4, <1>5, <1>6 DEF Next, Enqueue, Consume, Ended, Goroutines

LEMMA ConnInvariant == Spec => []ConnInv
<1>1. Init => ConnInv
  BY DEF Init, ConnInv, OneConnection, ClosedInv, CloseLeavesNothing
<1> QED
  BY <1>1, ConnStep, TypeCorrect, MutexSafety, PTL DEF Spec

\* However losses and reconnects interleave, no connection is open beside the current one
\* but the one that is being replaced.
THEOREM OneConnectionSafety == Spec => []OneConnection
<1>1. ConnInv => OneConnection
  BY DEF ConnInv
<1> QED
  BY <1>1, ConnInvariant, PTL

\* When Close has returned nothing is open but what a reconnect is about to close, even if
\* that reconnect was dialling when Close began.
THEOREM CloseSafety == Spec => []CloseLeavesNothing
<1>1. ConnInv => CloseLeavesNothing
  BY DEF ConnInv
<1> QED
  BY <1>1, ConnInvariant, PTL
==============================================================================
