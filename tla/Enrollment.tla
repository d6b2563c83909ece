----------------------------- MODULE Enrollment -----------------------------
(***************************************************************************)
(* The issuance path of the RA: from a finalize request to a recorded (or  *)
(* quarantined) certificate.  One step is one SQLite transaction or one    *)
(* external event, so the interleavings are those of the event loop, the   *)
(* enrollment worker threads, the CA, its officers, the RA operator and of *)
(* several RA processes on one store (Procs; the supported deployment has  *)
(* one).  A process may be killed and restarted between any two steps.     *)
(*                                                                         *)
(* Wall-clock time is not modelled: an order may expire, the reclaim age   *)
(* floor may have passed and a CA call may time out whenever it is open.   *)
(***************************************************************************)
EXTENDS Naturals, FiniteSets, LegContract

CONSTANTS
    Procs,          \* RA processes sharing the store
    Orders,
    Accounts,
    Owner,          \* the account of each order
    Keys,           \* account key thumbprints
    Finalizes,      \* slots for concurrent finalize requests
    Reqs,           \* CA request ids; a certificate is named by its request
    None,           \* SQL NULL, Python None
    MaxWorkers,     \* enrollment executor threads
    MaxPending,     \* enrollment gate admission ceiling
    MaxGeneration,  \* bound on the leases minted for one order
    OperatorChecksOutstanding
        \* does the operator who asserts ca_verified_no_issuance also look
        \* for requests the CA has received but not decided?

ASSUME ConstantsAssumption ==
    /\ Owner \in [Orders -> Accounts]
    /\ None \notin Procs \cup Orders \cup Keys \cup Reqs
    /\ MaxWorkers \in Nat \ {0}
    /\ MaxPending \in Nat \ {0}
    /\ MaxGeneration \in Nat
    /\ OperatorChecksOutstanding \in BOOLEAN

VARIABLES
    \* the store
    order,      \* status, lease generation, pending ReqID and certificate URL
    row,        \* status of each request's row in the certificates table
    named,      \* requests that an audit row or an emergency log line names
    acct,       \* status and key of each account
    \* the certification authority (external)
    ca,
    \* memory of the processes
    task,       \* finalize requests past authentication
    reclaim,    \* the operator's reclaim request past its checks, or None
    halted      \* IssuanceHalt, per process

storeVars == <<order, row, named, acct>>
vars == <<order, row, named, acct, ca, task, reclaim, halted>>

-----------------------------------------------------------------------------
(* Types.                                                                  *)

OrderStatus == {"pending", "ready", "processing", "valid", "invalid", "revoked"}
RowStatus   == {"none", "valid", "revoked", "quarantined"}
CaState     == {"unused", "sent", "pending", "issued", "denied", "revoked"}

\* Where the worker thread is: waiting for a thread, waiting for the account
\* lock, or holding it.
LockedPC  == {"authorized", "submit", "calling", "answered", "terminate"}
RunningPC == {"locking"} \cup LockedPC
\* The executor future is unfinished, so EnrollmentGate._pending counts it.
AdmittedPC == {"queued"} \cup RunningPC
\* ActiveEnrollments marks the order: the whole in-flight interval.
EnrollingPC == AdmittedPC \cup {"returned", "recording"}
PC == {"idle", "admit"} \cup EnrollingPC

Task == [pc : PC, proc : Procs \cup {None}, order : Orders \cup {None},
         gen : 0..MaxGeneration, key : Keys \cup {None},
         req : Reqs \cup {None}, answer : Answer, seen : Reqs \cup {None}]

Idle == [pc |-> "idle", proc |-> None, order |-> None, gen |-> 0,
         key |-> None, req |-> None, answer |-> "none", seen |-> None]

Reclaim == [proc : Procs, order : Orders, gen : 0..MaxGeneration,
            pending : Reqs \cup {None}, cert : Reqs \cup {None}]

Order == [status : OrderStatus, gen : 0..MaxGeneration,
          pending : Reqs \cup {None}, cert : Reqs \cup {None}]

CaRequest == [state : CaState, disposition : Disposition,
              order : Orders \cup {None}, gen : 0..MaxGeneration]

TypeOK ==
    /\ order \in [Orders -> Order]
    /\ row \in [Reqs -> RowStatus]
    /\ named \in SUBSET Reqs
    /\ acct \in [Accounts -> [status : {"valid", "deactivated"}, key : Keys]]
    /\ ca \in [Reqs -> CaRequest]
    /\ task \in [Finalizes -> Task]
    /\ reclaim \in Reclaim \cup {None}
    /\ halted \in [Procs -> BOOLEAN]

Init ==
    /\ order = [o \in Orders |->
                  [status |-> "pending", gen |-> 0, pending |-> None, cert |-> None]]
    /\ row = [r \in Reqs |-> "none"]
    /\ named = {}
    /\ acct \in [Accounts -> [status : {"valid"}, key : Keys]]
    /\ \A a, b \in Accounts : acct[a].key = acct[b].key => a = b
    /\ ca = [r \in Reqs |->
               [state |-> "unused", disposition |-> "none", order |-> None, gen |-> 0]]
    /\ task = [t \in Finalizes |-> Idle]
    /\ reclaim = None
    /\ halted = [p \in Procs |-> FALSE]

-----------------------------------------------------------------------------
(* Reads of the store and of the process registries.                       *)

RowsOf(o)  == {r \in Reqs : ca[r].order = o /\ row[r] # "none"}

\* get_certificate_by_order leaves quarantined rows out.
HonouredOf(o) == {r \in RowsOf(o) : row[r] # "quarantined"}

\* Fault: a reacquired order keeps its old generation.
ReusedGeneration(o) == IF order[o].gen = 0 THEN 1 ELSE order[o].gen

\* acquire_processing_lease increments and never resets.
NextGeneration(o) == order[o].gen + 1

HoldsLease(o, g) == order[o].status = "processing" /\ order[o].gen = g

\* Fault: the order is written whoever holds it.
LeaveAnything(o, g, status) == [order EXCEPT ![o].status = status]

\* A CAS out of 'processing', scoped to one lease.
LeaveProcessing(o, g, status) ==
    [order EXCEPT ![o].status = IF HoldsLease(o, g) THEN status ELSE @]

IsActive(p, o) ==
    \E t \in Finalizes : /\ task[t].proc = p
                         /\ task[t].order = o
                         /\ task[t].pc \in EnrollingPC

\* Fault: workers that wait for the lock give way to one another.
LockFreeUncontended(p, a) ==
    /\ ~ \E t \in Finalizes : /\ task[t].proc = p
                               /\ task[t].pc \in LockedPC
                               /\ Owner[task[t].order] = a
    /\ \A t, u \in Finalizes :
         /\ task[t].proc = p /\ task[u].proc = p
         /\ task[t].pc = "locking" /\ task[u].pc = "locking"
         /\ Owner[task[t].order] = a /\ Owner[task[u].order] = a
         => t = u

LockFree(p, a) ==
    ~ \E t \in Finalizes : /\ task[t].proc = p
                           /\ task[t].pc \in LockedPC
                           /\ Owner[task[t].order] = a

GatePending(p) == Cardinality({t \in Finalizes : task[t].proc = p /\ task[t].pc \in AdmittedPC})

RunningWorkers(p) == Cardinality({t \in Finalizes : task[t].proc = p /\ task[t].pc \in RunningPC})

Usable(a) == acct[a].status = "valid"

-----------------------------------------------------------------------------
(* Orders before finalize, and the account's own mutations.                *)

\* The last challenge is validated: pending -> ready.
MaybeReadyOrder(o) ==
    /\ order[o].status = "pending"
    /\ order' = [order EXCEPT ![o].status = "ready"]
    /\ UNCHANGED <<row, named, acct, ca, task, reclaim, halted>>

\* The sweep, or a finalize that finds the order expired.
ExpireOrder(o) ==
    /\ order[o].status \in {"pending", "ready"}
    /\ order' = [order EXCEPT ![o].status = "invalid"]
    /\ UNCHANGED <<row, named, acct, ca, task, reclaim, halted>>

\* Fault: the account is written without the issuance lock.
DeactivateUnlocked(p, a) ==
    /\ Usable(a)
    /\ acct' = [acct EXCEPT ![a].status = "deactivated"]
    /\ UNCHANGED <<order, row, named, ca, task, reclaim, halted>>

\* Deactivation re-reads and writes the account while it holds the issuance
\* lock of its own process.
DeactivateAccount(p, a) ==
    /\ LockFree(p, a)
    /\ Usable(a)
    /\ acct' = [acct EXCEPT ![a].status = "deactivated"]
    /\ UNCHANGED <<order, row, named, ca, task, reclaim, halted>>

\* Key rollover, under the same lock; a thumbprint belongs to one account.
KeyChange(p, a, k) ==
    /\ LockFree(p, a)
    /\ Usable(a)
    /\ \A b \in Accounts : acct[b].key # k
    /\ acct' = [acct EXCEPT ![a].key = k]
    /\ UNCHANGED <<order, row, named, ca, task, reclaim, halted>>

-----------------------------------------------------------------------------
(* The finalize route, on the event loop.                                  *)

\* Authentication, the order and existing-certificate reads and the CSR and
\* policy checks; a request that fails one of them changes nothing.
FinalizeRead(t, p, o) ==
    /\ task[t].pc = "idle"
    /\ Usable(Owner[o])
    /\ order[o].status = "ready"
    /\ HonouredOf(o) = {}
    /\ task' = [task EXCEPT ![t] = [Idle EXCEPT !.pc = "admit", !.proc = p, !.order = o,
                                                !.key = acct[Owner[o]].key]]
    /\ UNCHANGED <<storeVars, ca, reclaim, halted>>

\* A certificate is already recorded: close a 'processing' order with it.
FinalizeExistingCert(o) ==
    /\ Usable(Owner[o])
    /\ order[o].status = "processing"
    /\ \E r \in HonouredOf(o) :
         order' = [order EXCEPT ![o].status = "valid", ![o].cert = r]
    /\ UNCHANGED <<row, named, acct, ca, task, reclaim, halted>>

\* The ready -> processing CAS loses: answer with the order as it is now.
FinalizeLosesLease(t) ==
    /\ task[t].pc = "admit"
    /\ order[task[t].order].status # "ready"
    /\ task' = [task EXCEPT ![t] = Idle]
    /\ UNCHANGED <<storeVars, ca, reclaim, halted>>

\* The CAS wins and mints a lease; then the halt latch and the enrollment
\* gate decide whether the enrollment is refused (the lease stays taken),
\* turned away (the lease is handed back, if that write succeeds) or queued
\* for a worker thread.
FinalizeAdmit(t) ==
    LET o == task[t].order
        g == NextGeneration(o)
        p == task[t].proc
        refused == halted[p]
        full == GatePending(p) >= MaxPending
    IN /\ task[t].pc = "admit"
       /\ order[o].status = "ready"
       /\ g <= MaxGeneration
       /\ \E s \in IF ~refused /\ full THEN {"ready", "processing"} ELSE {"processing"} :
            order' = [order EXCEPT ![o].gen = g, ![o].status = s]
       /\ task' = [task EXCEPT ![t] = IF refused \/ full
                                        THEN Idle
                                        ELSE [@ EXCEPT !.pc = "queued", !.gen = g]]
       /\ UNCHANGED <<row, named, acct, ca, reclaim, halted>>

-----------------------------------------------------------------------------
(* The enrollment worker thread.                                           *)

\* The executor runs at most max_workers admitted calls at a time.
WorkerStart(t) ==
    /\ task[t].pc = "queued"
    /\ RunningWorkers(task[t].proc) < MaxWorkers
    /\ task' = [task EXCEPT ![t].pc = "locking"]
    /\ UNCHANGED <<storeVars, ca, reclaim, halted>>

\* The account lock is taken and the account read again under it.
WorkerAuthorize(t) ==
    LET o == task[t].order
        a == Owner[o]
    IN /\ task[t].pc = "locking"
       /\ LockFree(task[t].proc, a)
       /\ \/ /\ Usable(a) /\ acct[a].key = task[t].key
             /\ task' = [task EXCEPT ![t].pc = "authorized"]
             /\ UNCHANGED order
          \/ /\ ~(Usable(a) /\ acct[a].key = task[t].key)
             /\ order' = LeaveProcessing(o, task[t].gen, "ready")
             /\ task' = [task EXCEPT ![t] = Idle]
       /\ UNCHANGED <<row, named, acct, ca, reclaim, halted>>

\* The lease is read again; a worker that lost it abandons and writes nothing.
WorkerCheckLease(t) ==
    /\ task[t].pc = "authorized"
    /\ task' = [task EXCEPT ![t] = IF HoldsLease(@.order, @.gen)
                                     THEN [@ EXCEPT !.pc = "submit"]
                                     ELSE Idle]
    /\ UNCHANGED <<storeVars, ca, reclaim, halted>>

\* The leg fails before the CA has the request: the order stays 'processing'.
LegUnavailable(t) ==
    /\ task[t].pc = "submit"
    /\ task' = [task EXCEPT ![t] = Idle]
    /\ UNCHANGED <<storeVars, ca, reclaim, halted>>

\* The POST to certfnsh.asp reaches the CA.
SubmitCsr(t) ==
    /\ task[t].pc = "submit"
    /\ \E r \in Reqs :
         /\ ca[r].state = "unused"
         /\ ca' = [ca EXCEPT ![r].state = "sent", ![r].order = task[t].order,
                             ![r].gen = task[t].gen]
         /\ task' = [task EXCEPT ![t].pc = "calling", ![t].req = r]
    /\ UNCHANGED <<storeVars, reclaim, halted>>

\* submit_csr comes back with what the CA answered, seen through LegContract.
LegReturns(t) ==
    /\ task[t].pc = "calling"
    /\ \E ans \in LegAnswer(ca[task[t].req].disposition) :
         task' = [task EXCEPT ![t].answer = ans,
                              ![t].pc = IF ans = "issued" THEN "returned" ELSE "answered"]
    /\ UNCHANGED <<storeVars, ca, reclaim, halted>>

\* Fault: a lost answer is taken for a request the CA never saw.
LegTransportErrorReopens(t) ==
    /\ task[t].pc = "calling"
    /\ order' = LeaveProcessing(task[t].order, task[t].gen, "ready")
    /\ task' = [task EXCEPT ![t] = Idle]
    /\ UNCHANGED <<row, named, acct, ca, reclaim, halted>>

\* ca_issued is false: an audit row without ReqID, the order stays put.
LegTransportError(t) ==
    /\ task[t].pc = "calling"
    /\ task' = [task EXCEPT ![t] = Idle]
    /\ UNCHANGED <<storeVars, ca, reclaim, halted>>

WorkerDenied(t) ==
    /\ task[t].pc = "answered" /\ task[t].answer = "denied"
    /\ order' = LeaveProcessing(task[t].order, task[t].gen, "ready")
    /\ task' = [task EXCEPT ![t] = Idle]
    /\ UNCHANGED <<row, named, acct, ca, reclaim, halted>>

\* record_pending_ca_request checks the generation and not the status; the
\* audit row that follows, unless its write fails, names the ReqID either way.
WorkerPending(t) ==
    LET o == task[t].order
    IN /\ task[t].pc = "answered" /\ task[t].answer = "pending"
       /\ order' = [order EXCEPT ![o].pending = IF order[o].gen = task[t].gen
                                                  THEN task[t].req ELSE @]
       /\ named' \in {named, named \cup {task[t].req}}
       /\ task' = [task EXCEPT ![t] = Idle]
       /\ UNCHANGED <<row, acct, ca, reclaim, halted>>

\* Fault: the certificate's status is written to the order.
QuarantineOrderToo(r, o) ==
    /\ RowsOf(o) = {}
    /\ row' = [row EXCEPT ![r] = "quarantined"]
    /\ order' = [order EXCEPT ![o].status = "quarantined"]

\* quarantine_certificate: the row and the order flip in one transaction.
\* The UNIQUE index on order_id makes the insert fail when a row exists, and
\* the flip is not scoped to a lease.
Quarantine(r, o) ==
    /\ RowsOf(o) = {}
    /\ row' = [row EXCEPT ![r] = "quarantined"]
    /\ order' = [order EXCEPT ![o].status =
                   IF @ \in {"processing", "ready"} THEN "invalid" ELSE @]

\* The CA issued and the leg could not complete.  Without the leaf, or when
\* the quarantine transaction fails, an audit row or, if that write fails
\* too and ends the request, a log line names the ReqID.
WorkerOrphan(t) ==
    LET r == task[t].req
        next == [task EXCEPT ![t].pc = "terminate"]
    IN /\ task[t].pc = "answered" /\ task[t].answer \in {"orphan", "leafless"}
       /\ \/ /\ task[t].answer = "orphan"
             /\ Quarantine(r, task[t].order)
             /\ task' = next
          \/ /\ UNCHANGED <<row, order>>
             /\ task' \in {next, [task EXCEPT ![t] = Idle]}
       /\ named' = named \cup {r}
       /\ UNCHANGED <<acct, ca, reclaim, halted>>

WorkerTerminate(t) ==
    /\ task[t].pc = "terminate"
    /\ order' = LeaveProcessing(task[t].order, task[t].gen, "invalid")
    /\ task' = [task EXCEPT ![t] = Idle]
    /\ UNCHANGED <<row, named, acct, ca, reclaim, halted>>

\* A store call of the route or of the worker raises: the request ends with
\* nothing written.  The account is read with the lock held.
StoreRaises(t) ==
    /\ \/ task[t].pc \in {"admit", "authorized", "terminate"}
       \/ task[t].pc = "locking" /\ LockFree(task[t].proc, Owner[task[t].order])
       \/ task[t].pc = "answered" /\ task[t].answer \in {"denied", "pending"}
    /\ task' = [task EXCEPT ![t] = Idle]
    /\ UNCHANGED <<storeVars, ca, reclaim, halted>>

-----------------------------------------------------------------------------
(* _finalize_complete, back on the event loop.                             *)

\* A post-issuance verifier rejects the certificate.
CompleteQuarantine(t) ==
    /\ task[t].pc = "returned"
    /\ Quarantine(task[t].req, task[t].order)
    /\ named' = named \cup {task[t].req}
    /\ task' = [task EXCEPT ![t] = Idle]
    /\ UNCHANGED <<acct, ca, reclaim, halted>>

\* Fault: the order is closed although nothing tracks its certificate.
CompleteQuarantineFailsClosed(t) ==
    /\ task[t].pc = "returned"
    /\ order' = LeaveProcessing(task[t].order, task[t].gen, "invalid")
    /\ task' = [task EXCEPT ![t] = Idle]
    /\ UNCHANGED <<row, named, acct, ca, reclaim, halted>>

\* The same with a failing store: the fallback audit row names the order
\* only, and the order stays 'processing'.
CompleteQuarantineFails(t) ==
    /\ task[t].pc = "returned"
    /\ task' = [task EXCEPT ![t] = Idle]
    /\ UNCHANGED <<storeVars, ca, reclaim, halted>>

\* record_issuance reads the existing certificate before its transaction.
CompleteRead(t) ==
    /\ task[t].pc = "returned"
    /\ \E s \in IF HonouredOf(task[t].order) = {} THEN {None} ELSE HonouredOf(task[t].order) :
         task' = [task EXCEPT ![t].pc = "recording", ![t].seen = s]
    /\ UNCHANGED <<storeVars, ca, reclaim, halted>>

\* Fault: the row is written with INSERT OR IGNORE.
CompleteRecordOrIgnore(t) ==
    LET r == task[t].req
        o == task[t].order
        s == task[t].seen
    IN /\ task[t].pc = "recording"
       /\ row' = IF s = None /\ RowsOf(o) = {} THEN [row EXCEPT ![r] = "valid"] ELSE row
       /\ order' = IF HoldsLease(o, task[t].gen)
                     THEN [order EXCEPT ![o].status = "valid",
                                        ![o].cert = IF s = None THEN r ELSE s]
                     ELSE order
       /\ named' = named \cup {r}
       /\ task' = [task EXCEPT ![t] = Idle]
       /\ UNCHANGED <<acct, ca, reclaim, halted>>

\* The record_issuance transaction: the row unless one was seen, the order
\* flip scoped to the lease, and an audit row naming the serial.
CompleteRecord(t) ==
    LET r == task[t].req
        o == task[t].order
        s == task[t].seen
    IN /\ task[t].pc = "recording"
       /\ s = None => RowsOf(o) = {}
       /\ row' = IF s = None THEN [row EXCEPT ![r] = "valid"] ELSE row
       /\ order' = IF HoldsLease(o, task[t].gen)
                     THEN [order EXCEPT ![o].status = "valid",
                                        ![o].cert = IF s = None THEN r ELSE s]
                     ELSE order
       /\ named' = named \cup {r}
       /\ task' = [task EXCEPT ![t] = Idle]
       /\ UNCHANGED <<acct, ca, reclaim, halted>>

\* record_issuance raises: emergency log line, and the halt latch when the
\* store cannot be written (not for a constraint violation or a busy store).
CompleteRecordFails(t) ==
    /\ task[t].pc = "recording"
    /\ named' = named \cup {task[t].req}
    /\ halted' \in {halted, [halted EXCEPT ![task[t].proc] = TRUE]}
    /\ task' = [task EXCEPT ![t] = Idle]
    /\ UNCHANGED <<order, row, acct, ca, reclaim>>

-----------------------------------------------------------------------------
(* Revocation by the account, and the operator's reclaim.                  *)

\* Fault: the order is left as it was.
RevokeCertOnly(r) ==
    /\ row[r] = "valid"
    /\ Usable(Owner[ca[r].order])
    /\ row' = [row EXCEPT ![r] = "revoked"]
    /\ UNCHANGED <<order, named, acct, ca, task, reclaim, halted>>

\* record_revocation: the certificate and its order in one transaction.
RevokeCert(r) ==
    LET o == ca[r].order
    IN /\ row[r] = "valid"
       /\ Usable(Owner[o])
       /\ row' = [row EXCEPT ![r] = "revoked"]
       /\ order' = [order EXCEPT ![o].status =
                      IF @ \in {"valid", "processing"} THEN "revoked" ELSE @]
       /\ UNCHANGED <<named, acct, ca, task, reclaim, halted>>

\* What the operator can truthfully assert about the CA database.
CaVerifiedNoIssuance(o) ==
    \A r \in Reqs : ca[r].order = o =>
        /\ ca[r].state # "issued"
        /\ OperatorChecksOutstanding => ca[r].state \notin {"sent", "pending"}

CaRequestResolved(r) == ca[r].state \in {"denied", "revoked"}

\* Fault: an order with a marker can never be reclaimed.
PendingNeverAccountedFor(o) == order[o].pending = None

\* The marker of an accepted request must be named, and so resolved, exactly.
PendingAccountedFor(o) ==
    order[o].pending # None => CaRequestResolved(order[o].pending)

\* The checks of the reclaim endpoint, in process p.
ReclaimRead(p, o) ==
    /\ reclaim = None
    /\ order[o].status = "processing"
    /\ ~IsActive(p, o)
    /\ PendingAccountedFor(o)
    /\ \E c \in IF HonouredOf(o) = {} THEN {None} ELSE HonouredOf(o) :
         /\ c = None => CaVerifiedNoIssuance(o)
         /\ reclaim' = [proc |-> p, order |-> o, gen |-> order[o].gen,
                        pending |-> order[o].pending, cert |-> c]
    /\ UNCHANGED <<storeVars, ca, task, halted>>

\* The reclaim transaction, scoped to the lease that was read; the pending
\* marker is cleared only if it is still the one the operator resolved.
ReclaimWrite ==
    LET o == reclaim.order
    IN /\ reclaim # None
       /\ order' = IF HoldsLease(o, reclaim.gen)
                     THEN [order EXCEPT
                             ![o].status = IF reclaim.cert = None THEN "ready" ELSE "valid",
                             ![o].cert = IF reclaim.cert = None THEN @ ELSE reclaim.cert,
                             ![o].pending = IF @ = reclaim.pending THEN None ELSE @]
                     ELSE order
       /\ reclaim' = None
       /\ UNCHANGED <<row, named, acct, ca, task, halted>>

-----------------------------------------------------------------------------
(* The CA and its people (external), and the death of a process.           *)

CaDecides(r) ==
    /\ ca[r].state = "sent"
    /\ \E d \in {"issued", "pending", "denied"} :
         ca' = [ca EXCEPT ![r].state = d, ![r].disposition = d]
    /\ UNCHANGED <<storeVars, task, reclaim, halted>>

OfficerDecides(r) ==
    /\ ca[r].state = "pending"
    /\ \E d \in {"issued", "denied"} : ca' = [ca EXCEPT ![r].state = d]
    /\ UNCHANGED <<storeVars, task, reclaim, halted>>

\* The operator revokes by hand what a wedged order left at the CA.
OperatorRevokesAtCa(r) ==
    /\ ca[r].state = "issued"
    /\ row[r] = "none"
    /\ order[ca[r].order].status = "processing"
    /\ \A p \in Procs : ~IsActive(p, ca[r].order)
    /\ ca' = [ca EXCEPT ![r].state = "revoked"]
    /\ UNCHANGED <<storeVars, task, reclaim, halted>>

\* The process dies and a new one starts with empty registries.
Restart(p) ==
    /\ task' = [t \in Finalizes |-> IF task[t].proc = p THEN Idle ELSE task[t]]
    /\ reclaim' = IF reclaim # None /\ reclaim.proc = p THEN None ELSE reclaim
    /\ halted' = [halted EXCEPT ![p] = FALSE]
    /\ <<task', reclaim', halted'>> # <<task, reclaim, halted>>
    /\ UNCHANGED <<storeVars, ca>>

-----------------------------------------------------------------------------
Route(t) ==
    \/ FinalizeLosesLease(t) \/ FinalizeAdmit(t)
    \/ CompleteQuarantine(t) \/ CompleteQuarantineFails(t)
    \/ CompleteRead(t) \/ CompleteRecord(t) \/ CompleteRecordFails(t)

Worker(t) ==
    \/ WorkerStart(t) \/ WorkerAuthorize(t) \/ WorkerCheckLease(t)
    \/ LegUnavailable(t) \/ SubmitCsr(t) \/ LegReturns(t) \/ LegTransportError(t)
    \/ WorkerDenied(t) \/ WorkerPending(t) \/ WorkerOrphan(t) \/ WorkerTerminate(t)
    \/ StoreRaises(t)

Authority(r) == CaDecides(r) \/ OfficerDecides(r) \/ OperatorRevokesAtCa(r)

Next ==
    \/ \E t \in Finalizes : Route(t) \/ Worker(t)
    \/ \E t \in Finalizes, p \in Procs, o \in Orders : FinalizeRead(t, p, o)
    \/ \E o \in Orders : MaybeReadyOrder(o) \/ ExpireOrder(o) \/ FinalizeExistingCert(o)
    \/ \E p \in Procs, a \in Accounts : DeactivateAccount(p, a)
    \/ \E p \in Procs, a \in Accounts, k \in Keys : KeyChange(p, a, k)
    \/ \E r \in Reqs : RevokeCert(r) \/ Authority(r)
    \/ \E p \in Procs, o \in Orders : ReclaimRead(p, o)
    \/ ReclaimWrite
    \/ \E p \in Procs : Restart(p)

Spec == Init /\ [][Next]_vars

-----------------------------------------------------------------------------
(* Properties of every deployment.                                         *)

\* A lease has one holder: no two live enrollments of one order carry the same
\* generation, over any sequence of reclaims, restarts and retried finalizes.
\* acquire_processing_lease's increment and the refusal ever to reset it give
\* this; every scoped CAS relies on it.
LeaseExclusive ==
    \A t, u \in Finalizes :
        /\ t # u
        /\ task[t].pc \in EnrollingPC /\ task[u].pc \in EnrollingPC
        /\ task[t].order = task[u].order
        => task[t].gen # task[u].gen

\* A lease is worth one CA request: the CA never receives two requests for
\* the same order under one generation, whoever crashes or retries.
OneRequestPerLease ==
    \A r, s \in Reqs :
        /\ r # s
        /\ ca[r].state # "unused" /\ ca[s].state # "unused"
        /\ ca[r].order = ca[s].order
        => ca[r].gen # ca[s].gen

\* A client is only ever pointed at a certificate of its own order that the
\* RA recorded and never rejected: a 'valid' order's URL names an honoured
\* row, whichever of record_issuance, the finalize self-heal and reclaim
\* closed the order.
ValidOrderServesHonoured ==
    \A o \in Orders : order[o].status = "valid" =>
        \E r \in Reqs : /\ order[o].cert = r
                        /\ ca[r].order = o
                        /\ row[r] \in {"valid", "revoked"}

-----------------------------------------------------------------------------
(* Properties of the supported deployment, a single process, under an      *)
(* operator who accounts for undecided requests before reopening an order. *)

Live(r) == ca[r].state = "issued"

\* The double-issuance gate: an order never has two live certificates at the
\* CA, through crashes, lost answers, pending requests approved late, and
\* any reclaim the endpoint accepts.
OneLiveCertificatePerOrder ==
    \A r, s \in Reqs : Live(r) /\ Live(s) /\ ca[r].order = ca[s].order => r = s

\* No live certificate is lost: the store has its row, an audit row or the
\* emergency log names it, or its order is still in 'processing', which only
\* an operator who has looked at the CA can leave.
IssuedIsAccountedFor ==
    \A r \in Reqs : Live(r) =>
        row[r] # "none" \/ r \in named \/ order[ca[r].order].status = "processing"

\* An order reopened for a client's retry has nothing outstanding at the CA:
\* no request that is, or may yet become, a live certificate.
ReopenedOrderIsClean ==
    \A o \in Orders, r \in Reqs :
        order[o].status \in {"pending", "ready"} /\ ca[r].order = o
            => ca[r].state \notin {"sent", "pending", "issued"}

\* The account lock linearises issuance against deactivation and keyChange:
\* while a worker is between its account check and the end of its CA call,
\* the account is valid and still has the key that signed the finalize.
SubmitsForCurrentAccount ==
    \A t \in Finalizes : task[t].pc \in LockedPC =>
        LET a == Owner[task[t].order] IN Usable(a) /\ acct[a].key = task[t].key

\* Order and certificate tell the same story at every commit: an honoured row
\* belongs to a 'valid' order that names it, a revoked row to a 'revoked'
\* order, a quarantined row to an 'invalid' one.
OrderAndRowAgree ==
    \A r \in Reqs :
        LET o == ca[r].order IN
        /\ row[r] = "valid"       => order[o].status = "valid" /\ order[o].cert = r
        /\ row[r] = "revoked"     => order[o].status = "revoked"
        /\ row[r] = "quarantined" => order[o].status = "invalid"

-----------------------------------------------------------------------------
(* What a comment says of the lease; the code does not keep this.          *)

\* finalize.py says of the orphan handler that it "cannot terminate an order
\* that a reclaim plus a later finalize have since handed to a different
\* enrollment": a worker whose lease was superseded leaves the order alone.
StaleWorkerLeavesOrder ==
    [][\A t \in Finalizes :
         LET o == task[t].order IN
         (WorkerOrphan(t) \/ WorkerTerminate(t)) /\ order[o].gen # task[t].gen
             => order'[o] = order[o]]_vars

-----------------------------------------------------------------------------
(* The abstract specification that Enrollment implements.                  *)

Lifecycle == INSTANCE OrderLifecycle
                WITH Certs <- Reqs,
                     status <- [o \in Orders |-> order[o].status],
                     cert <- [o \in Orders |-> order[o].cert]

\* Finalize, its workers, the operator's reclaim and revocation, on any number
\* of processes, keep the promise of OrderLifecycle: none of them brings back
\* an order that ended, and the certificate of a 'valid' order is never
\* exchanged for another.
EnrollmentKeepsLifecycle == Lifecycle!LifecycleSpec

-----------------------------------------------------------------------------
(* Liveness.  The worker's steps end because each leg call has a total     *)
(* deadline; the route's because the loop resumes it.  Lock acquisition is *)
(* strongly fair: the platform's lock does not starve a blocked thread.    *)

Fairness ==
    /\ \A t \in Finalizes :
         /\ WF_vars(Route(t))
         /\ WF_vars(Worker(t))
         /\ SF_vars(WorkerStart(t))
         /\ SF_vars(WorkerAuthorize(t))

\* The people: officers decide what is pending, and the operator revokes by
\* hand and reclaims what is wedged.
OperatorFairness ==
    /\ \A r \in Reqs : WF_vars(Authority(r))
    /\ \A p \in Procs, o \in Orders : WF_vars(ReclaimRead(p, o))
    /\ SF_vars(ReclaimWrite)

FairSpec == Spec /\ Fairness /\ OperatorFairness

\* Every admitted enrollment lets go of its order's registry mark, so that the
\* registry can never refuse a reclaim for ever.
EnrollmentEnds ==
    \A t \in Finalizes : task[t].pc \in EnrollingPC ~> task[t].pc = "idle"

\* No 'processing' order is beyond recovery: whatever crash, lost answer,
\* undecided request or halted store wedged it, a diligent operator and the
\* RA between them always get it out of 'processing'.
WedgedOrderIsRecovered ==
    \A o \in Orders : order[o].status = "processing" ~> order[o].status # "processing"

=============================================================================
