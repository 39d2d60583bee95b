---------------------------- MODULE MCQuotaAccess ----------------------------
(***************************************************************************)
(* Instances of QuotaAccess: two quotas, of which the first is full and    *)
(* the second has room for one extra pod.                                  *)
(***************************************************************************)
EXTENDS QuotaAccess

CONSTANTS q1, q2, a1, a2, a3

TwoQuotas == {q1, q2}
TwoActions == {a1, a2}
ThreeActions == {a1, a2, a3}

FullAndRoom == [q \in Quotas |-> IF q = q1 THEN 2 ELSE 4]
UsedSoFar == [q \in Quotas |-> IF q = q1 THEN 2 ELSE 3]

\* a3 does not match the second quota.
PodSizes == [a \in Actions |-> [q \in Quotas |-> IF a = a3 THEN (IF q = q1 THEN 2 ELSE 0) ELSE 1]]
==============================================================================
