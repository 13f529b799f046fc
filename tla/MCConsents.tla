----------------------------- MODULE MCConsents -----------------------------
(* A profile that has consented to one category, and one category to add.     *)
EXTENDS Consents, TLC
CONSTANTS p1, c0, c1, c2, email, tier, r1, r2
TierCovered == [c \in Known |-> {tier}]
InOrder == [a \in Attributes |-> IF a = email THEN 1 ELSE 2]
\* A list with the mandatory category is refused, whatever else it has.
Lists == {[yes |-> {c0}, no |-> {}]}
  \cup {list \in {[yes |-> yes, no |-> no] : yes, no \in SUBSET {c1, c2}} :
          list.yes \cap list.no = {}}
Handlers2 == Permutations(Requests)
=============================================================================
