---------------------------- MODULE LegContract ----------------------------
(***************************************************************************)
(* What the finalize path may conclude from a call of submit_csr, by what  *)
(* the CA did with the request.  Enrollment uses the leg through this      *)
(* contract; CertsrvLeg is checked to keep it.                             *)
(***************************************************************************)

Disposition == {"none", "issued", "pending", "denied"}

\* A result; EnrollmentDenied; EnrollmentPending; and the transport errors
\* that carry a ReqID with the leaf ("orphan") and without it ("leafless").
Answer == {"none", "issued", "denied", "pending", "orphan", "leafless"}

\* Fault: quoted prose on a pending page is read as a denial.
PendingReadAsDenied(disposition) ==
    CASE disposition = "issued"  -> {"issued", "orphan", "leafless"}
      [] disposition = "pending" -> {"denied"}
      [] disposition = "denied"  -> {"denied"}
      [] OTHER                   -> {}

\* A denial in another language that carries a ReqID is read as pending.  A
\* transport error without ReqID hides every answer and is not listed.
LegAnswer(disposition) ==
    CASE disposition = "issued"  -> {"issued", "orphan", "leafless"}
      [] disposition = "pending" -> {"pending"}
      [] disposition = "denied"  -> {"denied", "pending"}
      [] OTHER                   -> {}

=============================================================================
