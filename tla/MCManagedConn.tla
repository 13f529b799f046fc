---------------------------- MODULE MCManagedConn ----------------------------
(* Two senders, so that both may find the connection lost, and the consumer. *)
EXTENDS ManagedConn
CONSTANTS s1, s2
=============================================================================
