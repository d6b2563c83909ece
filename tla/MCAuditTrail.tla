--------------------------- MODULE MCAuditTrail ---------------------------
(* Small instances of AuditTrail for TLC.                                  *)
EXTENDS AuditTrail, TLC

Symmetry == Permutations(Keys)

=============================================================================
