---------------------------- MODULE MCAccounts ----------------------------
(* Small instances of Accounts for TLC.                                    *)
EXTENDS Accounts, TLC

Symmetry == Permutations(Accounts) \cup Permutations(Keys)
              \cup Permutations(Requests) \cup Permutations(Rows) \cup Permutations(Procs)

=============================================================================
