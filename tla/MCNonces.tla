----------------------------- MODULE MCNonces -----------------------------
(* Small instances of Nonces for TLC.                                      *)
EXTENDS Nonces, TLC

Symmetry == Permutations(Nonces) \cup Permutations(Requests)

=============================================================================
