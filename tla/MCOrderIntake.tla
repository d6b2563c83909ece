--------------------------- MODULE MCOrderIntake ---------------------------
(* Small instances of OrderIntake for TLC.                                 *)
EXTENDS OrderIntake, TLC

CONSTANTS a1, a2, d1

TwoAccounts  == {a1, a2}
OneKid       == {d1}
SharedKid    == [a \in TwoAccounts |-> d1]
LimitOne     == [k \in OneKid |-> 1]
Symmetry == Permutations(Orders) \cup Permutations(Names) \cup Permutations(Requests)
              \cup Permutations(Procs) \cup Permutations(TwoAccounts)

=============================================================================
