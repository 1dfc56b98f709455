------------------------------ MODULE MCBilling ------------------------------
(* Instances of Billing for TLC. *)
EXTENDS Billing, TLC

CONSTANTS r1, r2, r3, q1, q2, free, std, pro

TwoResources == {r1, r2}
ThreeResources == {r1, r2, r3}
OneResource  == {r1}
Serial       == {q1}
Concurrent   == {q1, q2}
TwoTiers     == {free, std}
ThreeTiers   == {free, std, pro}

AllOps  == {"create", "update", "delete", "deleteProject",
            "info", "customer", "subscription", "cancel"}
Retier  == {"info", "customer", "create", "update", "delete"}
Creates == {"info", "customer", "create"}
Grows   == Creates \cup {"subscription", "cancel"}
Deletes == Creates \cup {"delete"}

Resort  == Permutations(TwoResources) \cup Permutations(Concurrent)
Reorder == Permutations(ThreeResources) \cup Permutations(Concurrent)

\* No state is explored further after a call has fallen between those of
\* another request.
Separated == apart
=============================================================================
