--------------------------- MODULE OrderLifecycle ---------------------------
(***************************************************************************)
(* What the RA promises a client about an order: the states of RFC 8555    *)
(* 7.1.6 with the two the RA adds, an order handed back for a retry and a  *)
(* revoked one.  'invalid' and 'revoked' are final, a 'valid' order can    *)
(* only be revoked, and its certificate never changes.  OrderIntake and    *)
(* Enrollment implement this between them.                                 *)
(***************************************************************************)
CONSTANTS Orders, Certs, None

VARIABLES status, cert

lifecycleVars == <<status, cert>>

LifecycleInit ==
    /\ status \in [Orders -> {"none", "pending"}]
    /\ cert = [o \in Orders |-> None]

Move(o, from, to) ==
    /\ status[o] \in from
    /\ status' = [status EXCEPT ![o] = to]

Create(o)    == Move(o, {"none"}, "pending") /\ UNCHANGED cert
Authorize(o) == Move(o, {"pending"}, "ready") /\ UNCHANGED cert
Begin(o)     == Move(o, {"ready"}, "processing") /\ UNCHANGED cert
Reopen(o)    == Move(o, {"processing"}, "ready") /\ UNCHANGED cert
Reject(o)    == Move(o, {"pending", "ready", "processing"}, "invalid") /\ UNCHANGED cert
Revoke(o)    == Move(o, {"processing", "valid"}, "revoked") /\ UNCHANGED cert

Complete(o) ==
    /\ Move(o, {"processing"}, "valid")
    /\ \E c \in Certs : cert' = [cert EXCEPT ![o] = c]

\* Any number of orders expire in one sweep.
Expire(S) ==
    /\ \A o \in S : status[o] \in {"pending", "ready"}
    /\ status' = [o \in Orders |-> IF o \in S THEN "invalid" ELSE status[o]]
    /\ UNCHANGED cert

LifecycleNext ==
    \/ \E o \in Orders : \/ Create(o) \/ Authorize(o) \/ Begin(o) \/ Reopen(o)
                         \/ Reject(o) \/ Revoke(o) \/ Complete(o)
    \/ \E S \in SUBSET Orders : Expire(S)

LifecycleSpec == LifecycleInit /\ [][LifecycleNext]_lifecycleVars

=============================================================================
