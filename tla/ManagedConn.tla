----------------------------- MODULE ManagedConn -----------------------------
(***************************************************************************)
(* The connection of one ActiveMQ queue: request goroutines that send on   *)
(* it, the consumer goroutine that receives from it, the reconnects of     *)
(* both, and the Close of a shutdown.  A connection is named by the        *)
(* generation it was installed with.  The profile queue and the schema     *)
(* sync queue each have a connection of their own and the same code.       *)
(*                                                                         *)
(*   internal/system/queue/activemq/activemq.go                            *)
(*                                                                         *)
(* Of go-stomp this assumes: an operation on a closed connection fails at  *)
(* once, a subscription's channel closes with its connection, and a        *)
(* Disconnect ends, on a receipt or on a timeout, with the socket closed.  *)
(* Messages are not modelled, nor is their loss with a connection.         *)
(***************************************************************************)
EXTENDS Naturals

CONSTANTS Senders,   \* requests; each enqueues one message
          Consumer,  \* the consumer goroutine
          Nobody,
          MaxDrops   \* how often a connection or the broker is lost (a bound)

ASSUME GoroutinesAssumption == Consumer \notin Senders /\ Nobody \notin Senders \cup {Consumer}
ASSUME DropsAssumption      == MaxDrops \in Nat

Goroutines == Senders \cup {Consumer}

VARIABLES
  broker,      \* is the broker there?
  drops,       \* losses so far
  generation,  \* managedConn.generation, and with it the connection conn points to
  alive,       \* the connections whose socket is open
  closed,      \* managedConn.closed
  done,        \* the done channel is closed
  mutex,       \* who holds reconnectMu
  pc,          \* where each goroutine is
  held,        \* the connection a goroutine took for its next call
  subGen,      \* the generation of the consumer's subscription
  closer       \* where Close is

connVars == <<generation, alive>>
envVars  == <<broker, drops>>
closeVars == <<closed, done, closer>>
vars == <<envVars, connVars, closeVars, mutex, pc, held, subGen>>

Reconnecting == {"lock", "check", "backoff", "dial", "install", "retire"}

TypeOK ==
  /\ broker \in {"up", "down"}
  /\ drops \in 0..MaxDrops
  /\ generation \in Nat \ {0}
  /\ alive \subseteq 1..generation
  /\ closed \in BOOLEAN /\ done \in BOOLEAN
  /\ mutex \in Goroutines \cup {Nobody}
  /\ pc \in [Goroutines -> Reconnecting \cup
               {"new", "get", "send", "getAgain", "sendAgain", "sent", "failed",
                "receive", "getSub", "subscribe", "exited"}]
  /\ held \in [Goroutines -> 1..generation]
  /\ subGen \in 1..generation
  /\ closer \in {"idle", "signal", "disconnect", "returned"}

\* NewProfileQueue has dialled and Start has subscribed.
Init ==
  /\ broker = "up"
  /\ drops = 0
  /\ generation = 1
  /\ alive = {1}
  /\ closed = FALSE
  /\ done = FALSE
  /\ mutex = Nobody
  /\ pc = [g \in Goroutines |-> IF g = Consumer THEN "receive" ELSE "new"]
  /\ held = [g \in Goroutines |-> 1]
  /\ subGen = 1
  /\ closer = "idle"

Goes(g, to) == pc' = [pc EXCEPT ![g] = to]

-----------------------------------------------------------------------------
(***************************************************************************)
(* The broker and the network.                                             *)
(***************************************************************************)
LoseBroker ==
  /\ broker = "up" /\ drops < MaxDrops
  /\ broker' = "down"
  /\ drops' = drops + 1
  /\ alive' = {}
  /\ UNCHANGED <<generation, closeVars, mutex, pc, held, subGen>>

BrokerReturns ==
  /\ broker = "down"
  /\ broker' = "up"
  /\ UNCHANGED <<drops, connVars, closeVars, mutex, pc, held, subGen>>

LoseConnection ==
  /\ drops < MaxDrops
  /\ \E c \in alive : alive' = alive \ {c}
  /\ drops' = drops + 1
  /\ UNCHANGED <<broker, generation, closeVars, mutex, pc, held, subGen>>

-----------------------------------------------------------------------------
(***************************************************************************)
(* reconnectWithBackoff: without a limit for the consumer, one attempt for *)
(* a sender.  reconnectMu is held from the first check to the return.      *)
(***************************************************************************)

\* Where a goroutine goes when its reconnect gave up, and where when it succeeded.
GaveUp(g)      == IF g = Consumer THEN "exited" ELSE "failed"
Reconnected(g) == IF g = Consumer THEN "getSub" ELSE "getAgain"

Lock(g) ==
  /\ pc[g] = "lock"
  /\ mutex = Nobody
  /\ mutex' = g
  /\ Goes(g, "check")
  /\ UNCHANGED <<envVars, connVars, closeVars, held, subGen>>

\* The top of the loop.
Check(g) ==
  /\ pc[g] = "check"
  /\ IF done THEN Goes(g, GaveUp(g)) /\ mutex' = Nobody
             ELSE Goes(g, "backoff") /\ UNCHANGED mutex
  /\ UNCHANGED <<envVars, connVars, closeVars, held, subGen>>

\* The timer fires or done closes; after the timer, done is looked at again.
Backoff(g) ==
  /\ pc[g] = "backoff"
  /\ IF done THEN Goes(g, GaveUp(g)) /\ mutex' = Nobody
             ELSE Goes(g, "dial") /\ UNCHANGED mutex
  /\ UNCHANGED <<envVars, connVars, closeVars, held, subGen>>

\* Seeded fault: the error of a sender's only attempt is returned without the unlock.
DialFails_Locked(g) == /\ Goes(g, IF g = Consumer THEN "check" ELSE "failed")
                       /\ UNCHANGED mutex

\* A dial that failed is tried again by the consumer; a sender has used up its attempt.
DialFails(g) == IF g = Consumer THEN Goes(g, "check") /\ UNCHANGED mutex
                ELSE Goes(g, "failed") /\ mutex' = Nobody

\* The socket and the STOMP handshake.
Dial(g) ==
  /\ pc[g] = "dial"
  /\ \/ broker = "up" /\ Goes(g, "install") /\ UNCHANGED mutex
     \/ broker = "down" /\ DialFails(g)
  /\ UNCHANGED <<envVars, connVars, closeVars, held, subGen>>

\* Seeded fault: the new connection is installed whether or not the queue is closed.
Install_Always(g) ==
  /\ pc[g] = "install"
  /\ generation' = generation + 1
  /\ alive' = IF broker = "up" THEN alive \cup {generation + 1} ELSE alive
  /\ Goes(g, "retire")
  /\ UNCHANGED <<envVars, closeVars, mutex, held, subGen>>

\* Seeded fault: the new connection does not count as a new generation.
Install_SameGeneration(g) ==
  /\ pc[g] = "install"
  /\ IF closed
     THEN DialFails(g) /\ UNCHANGED connVars
     ELSE /\ alive' = IF broker = "up" THEN alive \cup {generation + 1} ELSE alive
          /\ Goes(g, "retire")
          /\ UNCHANGED <<generation, mutex>>
  /\ UNCHANGED <<envVars, closeVars, held, subGen>>

\* Under mu: a closed queue closes the socket it just opened; else it is the connection
\* now, whether or not it has been lost meanwhile.
Install(g) ==
  /\ pc[g] = "install"
  /\ IF closed
     THEN DialFails(g) /\ UNCHANGED connVars
     ELSE /\ generation' = generation + 1
          /\ alive' = IF broker = "up" THEN alive \cup {generation + 1} ELSE alive
          /\ Goes(g, "retire")
          /\ UNCHANGED mutex
  /\ UNCHANGED <<envVars, closeVars, held, subGen>>

\* Seeded fault: the connection that was replaced is left as it is.
Retire_Keep(g) ==
  /\ pc[g] = "retire"
  /\ Goes(g, Reconnected(g))
  /\ mutex' = Nobody
  /\ UNCHANGED <<envVars, connVars, closeVars, held, subGen>>

\* The connection that was replaced is disconnected, outside mu.
Retire(g) ==
  /\ pc[g] = "retire"
  /\ alive' = alive \ {generation - 1}
  /\ Goes(g, Reconnected(g))
  /\ mutex' = Nobody
  /\ UNCHANGED <<envVars, generation, closeVars, held, subGen>>

Reconnect(g) == Lock(g) \/ Check(g) \/ Backoff(g) \/ Dial(g) \/ Install(g) \/ Retire(g)

-----------------------------------------------------------------------------
(***************************************************************************)
(* Enqueue: one send, one reconnect, one more send.                        *)
(***************************************************************************)
Arrive(s) ==
  /\ pc[s] = "new"
  /\ Goes(s, "get")
  /\ UNCHANGED <<envVars, connVars, closeVars, mutex, held, subGen>>

GetConn(s) ==
  /\ \/ pc[s] = "get" /\ Goes(s, "send")
     \/ pc[s] = "getAgain" /\ Goes(s, "sendAgain")
  /\ held' = [held EXCEPT ![s] = generation]
  /\ UNCHANGED <<envVars, connVars, closeVars, mutex, subGen>>

Send(s) ==
  /\ \/ /\ pc[s] = "send"
        /\ Goes(s, IF held[s] \in alive THEN "sent" ELSE "lock")
     \/ /\ pc[s] = "sendAgain"
        /\ Goes(s, IF held[s] \in alive THEN "sent" ELSE "failed")
  /\ UNCHANGED <<envVars, connVars, closeVars, mutex, held, subGen>>

Enqueue(s) == GetConn(s) \/ Send(s) \/ Reconnect(s)

-----------------------------------------------------------------------------
(***************************************************************************)
(* The consumer loop of Start.                                             *)
(***************************************************************************)

\* Seeded fault: a closed channel is taken for a lost connection, also during a shutdown.
SubscriptionCloses_Blind ==
  /\ pc[Consumer] = "receive"
  /\ subGen \notin alive
  /\ Goes(Consumer, IF subGen # generation THEN "getSub" ELSE "lock")
  /\ UNCHANGED <<envVars, connVars, closeVars, mutex, held, subGen>>

\* The channel of the subscription is closed.
SubscriptionCloses ==
  /\ pc[Consumer] = "receive"
  /\ subGen \notin alive
  /\ Goes(Consumer, CASE done -> "exited"
                      [] ~done /\ subGen # generation -> "getSub"
                      [] OTHER -> "lock")
  /\ UNCHANGED <<envVars, connVars, closeVars, mutex, held, subGen>>

\* subscribeCurrent takes the current connection, then subscribes on it.
GetSubscriptionConn ==
  /\ pc[Consumer] = "getSub"
  /\ held' = [held EXCEPT ![Consumer] = generation]
  /\ Goes(Consumer, "subscribe")
  /\ UNCHANGED <<envVars, connVars, closeVars, mutex, subGen>>

\* An error is logged, and the loop goes on with the subscription it has.
Subscribe ==
  /\ pc[Consumer] = "subscribe"
  /\ subGen' = IF held[Consumer] \in alive THEN held[Consumer] ELSE subGen
  /\ Goes(Consumer, "receive")
  /\ UNCHANGED <<envVars, connVars, closeVars, mutex, held>>

Consume == SubscriptionCloses \/ GetSubscriptionConn \/ Subscribe \/ Reconnect(Consumer)

-----------------------------------------------------------------------------
(***************************************************************************)
(* Close.                                                                  *)
(***************************************************************************)

\* shutdown sets the flag under mu.
SetClosed ==
  /\ closer = "idle"
  /\ closed' = TRUE
  /\ closer' = "signal"
  /\ UNCHANGED <<envVars, connVars, done, mutex, pc, held, subGen>>

\* Then it closes the done channel.
CloseDone ==
  /\ closer = "signal"
  /\ done' = TRUE
  /\ closer' = "disconnect"
  /\ UNCHANGED <<envVars, connVars, closed, mutex, pc, held, subGen>>

\* The current connection is disconnected, by force when the deadline passes first.
DisconnectWithin ==
  /\ closer = "disconnect"
  /\ alive' = alive \ {generation}
  /\ closer' = "returned"
  /\ UNCHANGED <<envVars, generation, closed, done, mutex, pc, held, subGen>>

\* Every goroutine has ended and Close has returned.
Ended ==
  /\ closer = "returned"
  /\ \A g \in Goroutines : pc[g] \in {"new", "sent", "failed", "exited"}
  /\ UNCHANGED vars

-----------------------------------------------------------------------------
Environment == LoseBroker \/ BrokerReturns \/ LoseConnection

Closing == CloseDone \/ DisconnectWithin

Next ==
  \/ Environment
  \/ \E s \in Senders : Arrive(s) \/ Enqueue(s)
  \/ Consume
  \/ SetClosed \/ Closing
  \/ Ended

Spec == Init /\ [][Next]_vars

\* Goroutines run, dials and disconnects end, and a free mutex is not passed over for ever
\* (Go's mutex hands itself to a waiter that starves).  Nothing is assumed of the broker,
\* nor that anyone enqueues or closes.
Fairness ==
  /\ \A s \in Senders : WF_vars(Enqueue(s)) /\ SF_vars(Lock(s))
  /\ WF_vars(Consume) /\ SF_vars(Lock(Consumer))
  /\ WF_vars(Closing)

FairSpec == Spec /\ Fairness

-----------------------------------------------------------------------------
\* The connections a goroutine is about to disconnect because it replaced them.
Retiring == {generation - 1 : g \in {h \in Goroutines : pc[h] = "retire"}}

\* dial: no connection is ever open beside the current one except the one that is just
\* being replaced, so no subscription is left listening where nobody sends any more.
OneConnection == alive \subseteq {generation} \cup Retiring

\* managedConn.closed: "a connection is never installed after shutdown".  When Close has
\* returned, only a reconnect that was replacing a connection can still have one to close.
CloseLeavesNothing == closer = "returned" => alive \subseteq Retiring

\* Start: "The loop exits cleanly when Close is called", from whatever point it is at.
ConsumerStops == closed ~> pc[Consumer] = "exited"

\* Enqueue: one reconnect and one retry.  Unless the broker stays away, a request leaves
\* Enqueue: every holder of reconnectMu gives it back, and nobody passes it round for ever.
EnqueueReturnsWithBroker ==
  <>[](broker = "up") => \A s \in Senders : pc[s] = "get" ~> pc[s] \in {"sent", "failed"}

-----------------------------------------------------------------------------
(***************************************************************************)
(* Two statements of the code's comments that the code does not keep.      *)
(***************************************************************************)

\* Enqueue: "called in the request path where blocking indefinitely is unacceptable".
EnqueueReturns == \A s \in Senders : pc[s] = "get" ~> pc[s] \in {"sent", "failed"}

\* Start: the consumer "must stay alive for the lifetime of the process".  When the broker
\* is there for good the consumer comes to listen on the current connection.
ConsumerRecovers ==
  <>[](broker = "up") =>
    []<>(closed \/ (pc[Consumer] = "receive" /\ subGen = generation /\ subGen \in alive))
=============================================================================
