-------------------------- MODULE ShutdownContract --------------------------
(***************************************************************************)
(* What a graceful shutdown of the server promises about background jobs,  *)
(* said without queues, locks or goroutines.  A job is begun at most once, *)
(* only before the database pool is gone; it loses its database only when  *)
(* the shutdown deadline has passed; the pool closes over a job that still *)
(* runs only when the deadline has passed; and a shutdown is called clean  *)
(* only if no job was cut short.                                           *)
(***************************************************************************)

CONSTANT Jobs

VARIABLES phase,    \* "up", "draining" (a signal arrived) or "down" (the pool is closed)
          late,     \* the shutdown deadline has passed
          started,  \* the jobs that were ever begun
          busy,     \* the jobs begun and not returned
          hurt,     \* the jobs that lost their context or the pool while at work
          verdict   \* what the shutdown reports: "none" (yet), "clean" or "failed"

vars == <<phase, late, started, busy, hurt, verdict>>

TypeOK ==
  /\ phase \in {"up", "draining", "down"}
  /\ late \in BOOLEAN
  /\ started \subseteq Jobs
  /\ busy \subseteq started
  /\ hurt \subseteq started
  /\ verdict \in {"none", "clean", "failed"}

Init ==
  /\ phase = "up"
  /\ late = FALSE
  /\ started = {}
  /\ busy = {}
  /\ hurt = {}
  /\ verdict = "none"

Drain ==
  /\ phase = "up"
  /\ phase' = "draining"
  /\ UNCHANGED <<late, started, busy, hurt, verdict>>

Expire ==
  /\ phase # "up"
  /\ late' = TRUE
  /\ UNCHANGED <<phase, started, busy, hurt, verdict>>

Begin(j) ==
  /\ phase # "down"
  /\ j \notin started
  /\ started' = started \cup {j}
  /\ busy' = busy \cup {j}
  /\ UNCHANGED <<phase, late, hurt, verdict>>

Hurt(j) ==
  /\ late
  /\ j \in busy
  /\ hurt' = hurt \cup {j}
  /\ UNCHANGED <<phase, late, started, busy, verdict>>

Return(j) ==
  /\ j \in busy
  /\ busy' = busy \ {j}
  /\ UNCHANGED <<phase, late, started, hurt, verdict>>

ClosePool ==
  /\ phase = "draining"
  /\ late \/ busy = {}
  /\ phase' = "down"
  /\ \/ /\ busy = {} /\ hurt = {}
        /\ verdict' = "clean"
     \/ verdict' = "failed"
  /\ UNCHANGED <<late, started, busy, hurt>>

Next ==
  \/ Drain
  \/ Expire
  \/ ClosePool
  \/ \E j \in Jobs : Begin(j) \/ Hurt(j) \/ Return(j)

Spec == Init /\ [][Next]_vars
=============================================================================
