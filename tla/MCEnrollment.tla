--------------------------- MODULE MCEnrollment ---------------------------
(* Small instances of Enrollment for TLC.                                  *)
EXTENDS Enrollment, TLC

CONSTANTS a1, o1, o2

OneOrder  == {o1}
TwoOrders == {o1, o2}
OneAccount == {a1}
OwnerOne  == [o \in OneOrder |-> a1]
OwnerTwo  == [o \in TwoOrders |-> a1]

Symmetry == Permutations(Finalizes) \cup Permutations(Reqs) \cup Permutations(Keys)

=============================================================================
