---------------------------- MODULE MCSchemaSync ----------------------------
(* Two administrators, so that one may overtake the other, one instance and  *)
(* one client that adds rules.                                               *)
EXTENDS SchemaSync, TLC
CONSTANTS email, phone, a1, a2, w1, c1
Symm == Permutations(Claims) \cup Permutations(Admins)
=============================================================================
