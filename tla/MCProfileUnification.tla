------------------------ MODULE MCProfileUnification ------------------------
(* Few profiles, users and requests as model values; profiles and masters are *)
(* interchangeable with each other's kind, and so are the requests.           *)
EXTENDS ProfileUnification, TLC
CONSTANTS a, b, c, d, m1, m2, m3, u1, u2, r1, r2, r3, r4, k1
OneServer == [r \in Requests |-> k1]
Symm == Permutations(Existing) \cup Permutations(Masters) \cup Permutations(Requests)
=============================================================================
