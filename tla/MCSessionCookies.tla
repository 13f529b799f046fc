-------------------------- MODULE MCSessionCookies --------------------------
(* Users, browsers and requests as model values.                              *)
EXTENDS SessionCookies
CONSTANTS u1, u2, b1, b2, r1, r2
BothVisited == [b \in Browsers |-> IF b = b1 THEN 1 ELSE 2]
OneLoggedIn == [b \in Browsers |-> IF b = b2 THEN u1 ELSE NoUser]
=============================================================================
