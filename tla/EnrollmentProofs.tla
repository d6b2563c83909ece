-------------------------- MODULE EnrollmentProofs --------------------------
(* What is proved of Enrollment for every value of its constants: its      *)
(* types, the order lifecycle it implements, the processing lease, the     *)
(* account issuance lock, and the certificates: the clients of any         *)
(* deployment are served honoured ones, and the supported deployment       *)
(* issues none twice and loses none.                                       *)
EXTENDS Enrollment, TLAPS

\* The supported deployment has one RA process on its store.
SingleProcess == \A p, q \in Procs : p = q

\* The CA has received request r.
Used(r) == ca[r].state # "unused"

-----------------------------------------------------------------------------
(* Type correctness of Enrollment, for every value of its constants.       *)

\* The CA has, or may have, the request of a worker in one of these places.
SubmittedPC == {"calling", "answered", "terminate", "returned", "recording"}

\* A finalize request past authentication belongs to a process and an order,
\* and a submitted one to a CA request.
TasksBound ==
    \A t \in Finalizes :
        /\ task[t].pc # "idle" => task[t].order \in Orders /\ task[t].proc \in Procs
        /\ task[t].pc \in SubmittedPC => task[t].req \in Reqs

\* TypeOK is not inductive: what a step writes is typed only because the task
\* that writes it is bound.
TypeInv == TypeOK /\ TasksBound

TaskOK == task \in [Finalizes -> Task] /\ TasksBound
OrderOK == order \in [Orders -> Order]

\* An empty finalize slot is a task.
LEMMA IdleIsTask == Idle \in Task
BY ConstantsAssumption DEF Idle, Task, PC, Answer

\* A finalize request may end at any point: its slot is emptied and stays
\* typed.
LEMMA TaskEnds ==
    ASSUME TaskOK, NEW t \in Finalizes, task' = [task EXCEPT ![t] = Idle]
    PROVE  TaskOK'
<1>1. task' \in [Finalizes -> Task]
  BY IdleIsTask DEF TaskOK
<1>2. Idle.pc = "idle"
  BY DEF Idle
<1>3. TasksBound'
  BY <1>1, <1>2 DEF TaskOK, TasksBound, SubmittedPC
<1>4. QED
  BY <1>1, <1>3 DEF TaskOK

\* Replacing a task by a bound one keeps every task bound.
LEMMA TaskMoves ==
    ASSUME TaskOK, NEW t \in Finalizes, NEW v \in Task,
           task' = [task EXCEPT ![t] = v],
           v.pc # "idle" => v.order \in Orders /\ v.proc \in Procs,
           v.pc \in SubmittedPC => v.req \in Reqs
    PROVE  TaskOK'
BY DEF TaskOK, TasksBound

\* A lease-scoped CAS of the status writes an order row.
LEMMA LeaveProcessingType ==
    ASSUME OrderOK, NEW o, NEW g, NEW status \in OrderStatus
    PROVE  LeaveProcessing(o, g, status) \in [Orders -> Order]
BY DEF OrderOK, LeaveProcessing, Order

\* So does an unscoped write of the status.
LEMMA SetStatusType ==
    ASSUME OrderOK, NEW o, NEW status \in OrderStatus
    PROVE  [order EXCEPT ![o].status = status] \in [Orders -> Order]
BY DEF OrderOK, Order

\* quarantine_certificate writes a typed row and a typed order.
LEMMA QuarantineType ==
    ASSUME OrderOK, row \in [Reqs -> RowStatus], NEW r, NEW o, Quarantine(r, o)
    PROVE  OrderOK' /\ row' \in [Reqs -> RowStatus]
BY DEF OrderOK, Quarantine, Order, OrderStatus, RowStatus

\* A worker that goes on to its next place keeps its order and its request.
LEMMA PcMoves ==
    ASSUME TaskOK, NEW t \in Finalizes, task[t].pc # "idle",
           NEW q \in PC \ {"idle"}, q \in SubmittedPC => task[t].pc \in SubmittedPC,
           task' = [task EXCEPT ![t].pc = q]
    PROVE  TaskOK'
<1> DEFINE v == [task[t] EXCEPT !.pc = q]
<1>1. v \in Task /\ v.pc = q /\ v.order = task[t].order /\ v.proc = task[t].proc
        /\ v.req = task[t].req
  BY DEF TaskOK, Task
<1>2. task' = [task EXCEPT ![t] = v]
  BY DEF TaskOK
<1> HIDE DEF v
<1>3. QED
  BY <1>1, <1>2, TaskMoves DEF TaskOK, TasksBound

\* Every operation of the RA, its CA and its operator keeps the types.
LEMMA TypeInvNext == TypeInv /\ [Next]_vars => TypeInv'
<1> SUFFICES ASSUME TypeInv, [Next]_vars PROVE TypeInv'
  OBVIOUS
<1>0. TaskOK /\ OrderOK
  BY DEF TypeInv, TypeOK, TaskOK, OrderOK
<1> USE DEF storeVars
<1>1. ASSUME NEW o \in Orders, MaybeReadyOrder(o) PROVE TypeInv'
  <2>1. OrderOK'
    BY <1>0, <1>1, SetStatusType DEF MaybeReadyOrder, OrderOK, OrderStatus
  <2>2. QED
    BY <1>1, <2>1 DEF MaybeReadyOrder, TypeInv, TypeOK, TaskOK, OrderOK,
       TasksBound
<1>2. ASSUME NEW o \in Orders, ExpireOrder(o) PROVE TypeInv'
  <2>1. OrderOK'
    BY <1>0, <1>2, SetStatusType DEF ExpireOrder, OrderOK, OrderStatus
  <2>2. QED
    BY <1>2, <2>1 DEF ExpireOrder, TypeInv, TypeOK, TaskOK, OrderOK, TasksBound
<1>3. ASSUME NEW o \in Orders, FinalizeExistingCert(o) PROVE TypeInv'
  <2>1. OrderOK'
    <3>1. PICK r \in Reqs : order' = [order EXCEPT ![o].status = "valid", ![o].cert = r]
      BY <1>3 DEF FinalizeExistingCert, HonouredOf, RowsOf
    <3>2. QED
      BY <1>0, <3>1 DEF OrderOK, Order, OrderStatus
  <2>2. QED
    BY <1>3, <2>1 DEF FinalizeExistingCert, TypeInv, TypeOK, TaskOK, OrderOK,
       TasksBound
<1>4. ASSUME NEW p \in Procs, NEW a \in Accounts, DeactivateAccount(p, a) PROVE TypeInv'
  BY <1>4 DEF DeactivateAccount, TypeInv, TypeOK, TasksBound
<1>5. ASSUME NEW p \in Procs, NEW a \in Accounts, NEW k \in Keys, KeyChange(p, a, k) PROVE TypeInv'
  BY <1>5 DEF KeyChange, TypeInv, TypeOK, TasksBound
<1>6. ASSUME NEW t \in Finalizes, NEW p \in Procs, NEW o \in Orders, FinalizeRead(t, p, o) PROVE TypeInv'
  <2>1. acct[Owner[o]].key \in Keys
    BY ConstantsAssumption DEF TypeInv, TypeOK
  <2>2. TaskOK'
    <3> DEFINE v == [Idle EXCEPT !.pc = "admit", !.proc = p, !.order = o, !.key = acct[Owner[o]].key]
    <3>1. v \in Task /\ v.pc = "admit" /\ v.order = o /\ v.proc = p
      BY <2>1, IdleIsTask DEF Task, PC, Idle
    <3>2. task' = [task EXCEPT ![t] = v]
      BY <1>6 DEF FinalizeRead
    <3> HIDE DEF v
    <3>3. QED
      BY <1>0, <3>1, <3>2, TaskMoves DEF SubmittedPC
  <2>3. QED
    BY <1>6, <2>1, <2>2 DEF FinalizeRead, TypeInv, TypeOK, TaskOK, OrderOK
<1>7. ASSUME NEW t \in Finalizes, FinalizeLosesLease(t) PROVE TypeInv'
  <2>1. TaskOK'
    BY <1>0, <1>7, TaskEnds DEF FinalizeLosesLease
  <2>2. QED
    BY <1>7, <2>1 DEF FinalizeLosesLease, TypeInv, TypeOK, TaskOK, OrderOK
<1>8. ASSUME NEW t \in Finalizes, LegUnavailable(t) PROVE TypeInv'
  <2>1. TaskOK'
    BY <1>0, <1>8, TaskEnds DEF LegUnavailable
  <2>2. QED
    BY <1>8, <2>1 DEF LegUnavailable, TypeInv, TypeOK, TaskOK, OrderOK
<1>9. ASSUME NEW t \in Finalizes, LegTransportError(t) PROVE TypeInv'
  <2>1. TaskOK'
    BY <1>0, <1>9, TaskEnds DEF LegTransportError
  <2>2. QED
    BY <1>9, <2>1 DEF LegTransportError, TypeInv, TypeOK, TaskOK, OrderOK
<1>10. ASSUME NEW t \in Finalizes, StoreRaises(t) PROVE TypeInv'
  <2>1. TaskOK'
    BY <1>0, <1>10, TaskEnds DEF StoreRaises
  <2>2. QED
    BY <1>10, <2>1 DEF StoreRaises, TypeInv, TypeOK, TaskOK, OrderOK
<1>11. ASSUME NEW t \in Finalizes, CompleteQuarantineFails(t) PROVE TypeInv'
  <2>1. TaskOK'
    BY <1>0, <1>11, TaskEnds DEF CompleteQuarantineFails
  <2>2. QED
    BY <1>11, <2>1 DEF CompleteQuarantineFails, TypeInv, TypeOK, TaskOK, OrderOK
<1>12. ASSUME NEW t \in Finalizes, FinalizeAdmit(t) PROVE TypeInv'
  <2>1. task[t].order \in Orders
    BY <1>12 DEF FinalizeAdmit, TypeInv, TasksBound
  <2>2. NextGeneration(task[t].order) \in 0..MaxGeneration
    BY <1>0, <1>12, <2>1, ConstantsAssumption DEF FinalizeAdmit,
       NextGeneration, OrderOK, Order
  <2>3. OrderOK'
    BY <1>0, <1>12, <2>1, <2>2 DEF FinalizeAdmit, OrderOK, Order, OrderStatus
  <2>4. TaskOK'
    <3> DEFINE v == [task[t] EXCEPT !.pc = "queued", !.gen = NextGeneration(task[t].order)]
    <3>1. v \in Task /\ v.pc = "queued" /\ v.order = task[t].order /\ v.proc = task[t].proc
      BY <1>0, <2>2 DEF TaskOK, Task, PC, EnrollingPC, AdmittedPC, RunningPC,
       LockedPC, SubmittedPC
    <3>2. task' = [task EXCEPT ![t] = Idle] \/ task' = [task EXCEPT ![t] = v]
      BY <1>0, <1>12 DEF FinalizeAdmit, TaskOK
    <3>3. v.order \in Orders /\ v.proc \in Procs
      BY <1>0, <1>12, <3>1 DEF FinalizeAdmit, TaskOK, TasksBound
    <3> HIDE DEF v
    <3>4. QED
      BY <1>0, <3>1, <3>2, <3>3, TaskMoves, TaskEnds DEF SubmittedPC
  <2>5. QED
    BY <1>12, <2>1, <2>2, <2>3, <2>4 DEF FinalizeAdmit, TypeInv, TypeOK,
       TaskOK, OrderOK
<1>13. ASSUME NEW t \in Finalizes, WorkerStart(t) PROVE TypeInv'
  <2>1. TaskOK'
    BY <1>0, <1>13, PcMoves DEF WorkerStart, PC, EnrollingPC, AdmittedPC,
       RunningPC, LockedPC, SubmittedPC
  <2>2. QED
    BY <1>13, <2>1 DEF WorkerStart, TypeInv, TypeOK, TaskOK, OrderOK
<1>14. ASSUME NEW t \in Finalizes, WorkerAuthorize(t) PROVE TypeInv'
  <2>1. OrderOK'
    BY <1>0, <1>14, LeaveProcessingType DEF WorkerAuthorize, OrderOK, OrderStatus
  <2>2. TaskOK'
    BY <1>0, <1>14, PcMoves, TaskEnds DEF WorkerAuthorize, PC, EnrollingPC,
       AdmittedPC, RunningPC, LockedPC, SubmittedPC
  <2>3. QED
    BY <1>14, <2>1, <2>2 DEF WorkerAuthorize, TypeInv, TypeOK, TaskOK, OrderOK
<1>15. ASSUME NEW t \in Finalizes, WorkerCheckLease(t) PROVE TypeInv'
  <2>1. task' = [task EXCEPT ![t].pc = "submit"] \/ task' = [task EXCEPT ![t] = Idle]
    BY <1>0, <1>15 DEF WorkerCheckLease, TaskOK
  <2>2. TaskOK'
    BY <1>0, <1>15, <2>1, PcMoves, TaskEnds DEF WorkerCheckLease, PC,
       EnrollingPC, AdmittedPC, RunningPC, LockedPC, SubmittedPC
  <2>3. QED
    BY <1>15, <2>1, <2>2 DEF WorkerCheckLease, TypeInv, TypeOK, TaskOK, OrderOK
<1>16. ASSUME NEW t \in Finalizes, SubmitCsr(t) PROVE TypeInv'
  <2>1. ca' \in [Reqs -> CaRequest]
    <3>1. PICK r \in Reqs : ca' = [ca EXCEPT ![r].state = "sent", ![r].order = task[t].order,
                                             ![r].gen = task[t].gen]
      BY <1>16 DEF SubmitCsr
    <3>2. task[t].order \in Orders \cup {None} /\ task[t].gen \in 0..MaxGeneration
      BY <1>0 DEF TaskOK, Task
    <3> DEFINE v == [ca[r] EXCEPT !.state = "sent", !.order = task[t].order, !.gen = task[t].gen]
    <3>3. v \in CaRequest
      BY <3>2 DEF TypeInv, TypeOK, CaRequest, CaState
    <3>4. ca' = [ca EXCEPT ![r] = v]
      BY <3>1 DEF TypeInv, TypeOK
    <3> HIDE DEF v
    <3>5. QED
      BY <3>3, <3>4 DEF TypeInv, TypeOK
  <2>2. TaskOK'
    <3>1. PICK r \in Reqs : task' = [task EXCEPT ![t].pc = "calling", ![t].req = r]
      BY <1>16 DEF SubmitCsr
    <3> DEFINE v == [task[t] EXCEPT !.pc = "calling", !.req = r]
    <3>2. v \in Task /\ v.pc = "calling" /\ v.order = task[t].order /\ v.proc = task[t].proc
            /\ v.req = r
      BY <1>0 DEF TaskOK, Task, PC, EnrollingPC, AdmittedPC, RunningPC,
       LockedPC, SubmittedPC
    <3>3. task' = [task EXCEPT ![t] = v]
      BY <1>0, <3>1 DEF TaskOK
    <3>4. v.order \in Orders /\ v.proc \in Procs
      BY <1>0, <1>16, <3>2 DEF SubmitCsr, TaskOK, TasksBound
    <3> HIDE DEF v
    <3>5. QED
      BY <1>0, <3>2, <3>3, <3>4, TaskMoves
  <2>3. QED
    BY <1>16, <2>1, <2>2 DEF SubmitCsr, TypeInv, TypeOK, TaskOK, OrderOK
<1>17. ASSUME NEW t \in Finalizes, LegReturns(t) PROVE TypeInv'
  <2>1. TaskOK'
    <3>1. PICK ans \in Answer :
            task' = [task EXCEPT ![t].answer = ans,
                                 ![t].pc = IF ans = "issued" THEN "returned" ELSE "answered"]
      BY <1>17 DEF LegReturns, LegAnswer, Answer
    <3> DEFINE v == [task[t] EXCEPT !.answer = ans,
                                    !.pc = IF ans = "issued" THEN "returned" ELSE "answered"]
    <3>2. v \in Task /\ v.order = task[t].order /\ v.proc = task[t].proc /\ v.req = task[t].req
      BY <1>0 DEF TaskOK, Task, PC, EnrollingPC, AdmittedPC, RunningPC,
       LockedPC, SubmittedPC
    <3>3. task' = [task EXCEPT ![t] = v]
      BY <1>0, <3>1 DEF TaskOK
    <3>4. v.order \in Orders /\ v.proc \in Procs /\ v.req \in Reqs
      BY <1>0, <1>17, <3>2 DEF LegReturns, TaskOK, TasksBound, SubmittedPC
    <3> HIDE DEF v
    <3>5. QED
      BY <1>0, <3>2, <3>3, <3>4, TaskMoves
  <2>2. QED
    BY <1>17, <2>1 DEF LegReturns, TypeInv, TypeOK, TaskOK, OrderOK
<1>18. ASSUME NEW t \in Finalizes, WorkerDenied(t) PROVE TypeInv'
  <2>1. OrderOK'
    BY <1>0, <1>18, LeaveProcessingType DEF WorkerDenied, OrderOK, OrderStatus
  <2>2. TaskOK'
    BY <1>0, <1>18, TaskEnds DEF WorkerDenied
  <2>3. QED
    BY <1>18, <2>1, <2>2 DEF WorkerDenied, TypeInv, TypeOK, TaskOK, OrderOK
<1>19. ASSUME NEW t \in Finalizes, WorkerTerminate(t) PROVE TypeInv'
  <2>1. OrderOK'
    BY <1>0, <1>19, LeaveProcessingType DEF WorkerTerminate, OrderOK, OrderStatus
  <2>2. TaskOK'
    BY <1>0, <1>19, TaskEnds DEF WorkerTerminate
  <2>3. QED
    BY <1>19, <2>1, <2>2 DEF WorkerTerminate, TypeInv, TypeOK, TaskOK, OrderOK
<1>20. ASSUME NEW t \in Finalizes, WorkerPending(t) PROVE TypeInv'
  <2>1. task[t].req \in Reqs
    BY <1>20 DEF WorkerPending, TypeInv, TasksBound, SubmittedPC
  <2>2. OrderOK'
    BY <1>0, <1>20, <2>1 DEF WorkerPending, OrderOK, Order
  <2>3. TaskOK'
    BY <1>0, <1>20, TaskEnds DEF WorkerPending
  <2>4. named' \in SUBSET Reqs
    BY <1>20, <2>1 DEF WorkerPending, TypeInv, TypeOK
  <2>5. QED
    BY <1>20, <2>1, <2>2, <2>3, <2>4 DEF WorkerPending, TypeInv, TypeOK,
       TaskOK, OrderOK
<1>21. ASSUME NEW t \in Finalizes, WorkerOrphan(t) PROVE TypeInv'
  <2>1. task[t].req \in Reqs /\ task[t].pc = "answered"
    BY <1>21 DEF WorkerOrphan, TypeInv, TasksBound, SubmittedPC
  <2>2. OrderOK' /\ row' \in [Reqs -> RowStatus]
    BY <1>0, <1>21, QuarantineType DEF WorkerOrphan, OrderOK, TypeInv, TypeOK
  <2>3. TaskOK'
    BY <1>0, <1>21, <2>1, PcMoves, TaskEnds DEF WorkerOrphan, PC, EnrollingPC,
       AdmittedPC, RunningPC, LockedPC, SubmittedPC
  <2>4. named' \in SUBSET Reqs
    BY <1>21, <2>1 DEF WorkerOrphan, TypeInv, TypeOK
  <2>5. QED
    BY <1>21, <2>1, <2>2, <2>3, <2>4 DEF WorkerOrphan, TypeInv, TypeOK,
       TaskOK, OrderOK
<1>22. ASSUME NEW t \in Finalizes, CompleteQuarantine(t) PROVE TypeInv'
  <2>1. task[t].req \in Reqs
    BY <1>22 DEF CompleteQuarantine, TypeInv, TasksBound, SubmittedPC
  <2>2. OrderOK' /\ row' \in [Reqs -> RowStatus]
    BY <1>0, <1>22, QuarantineType DEF CompleteQuarantine, TypeInv, TypeOK
  <2>3. TaskOK'
    BY <1>0, <1>22, TaskEnds DEF CompleteQuarantine
  <2>4. named' \in SUBSET Reqs
    BY <1>22, <2>1 DEF CompleteQuarantine, TypeInv, TypeOK
  <2>5. QED
    BY <1>22, <2>1, <2>2, <2>3, <2>4 DEF CompleteQuarantine, TypeInv, TypeOK,
       TaskOK, OrderOK
<1>23. ASSUME NEW t \in Finalizes, CompleteRead(t) PROVE TypeInv'
  <2>1. TaskOK'
    <3>1. PICK s \in Reqs \cup {None} :
            task' = [task EXCEPT ![t].pc = "recording", ![t].seen = s]
      BY <1>23 DEF CompleteRead, HonouredOf, RowsOf
    <3> DEFINE v == [task[t] EXCEPT !.pc = "recording", !.seen = s]
    <3>2. v \in Task /\ v.order = task[t].order /\ v.proc = task[t].proc /\ v.req = task[t].req
      BY <1>0 DEF TaskOK, Task, PC, EnrollingPC, AdmittedPC, RunningPC,
       LockedPC, SubmittedPC
    <3>3. task' = [task EXCEPT ![t] = v]
      BY <1>0, <3>1 DEF TaskOK
    <3>4. v.order \in Orders /\ v.proc \in Procs /\ v.req \in Reqs
      BY <1>0, <1>23, <3>2 DEF CompleteRead, TaskOK, TasksBound, SubmittedPC
    <3> HIDE DEF v
    <3>5. QED
      BY <1>0, <3>2, <3>3, <3>4, TaskMoves
  <2>2. QED
    BY <1>23, <2>1 DEF CompleteRead, TypeInv, TypeOK, TaskOK, OrderOK
<1>24. ASSUME NEW t \in Finalizes, CompleteRecord(t) PROVE TypeInv'
  <2>1. task[t].req \in Reqs /\ task[t].seen \in Reqs \cup {None}
    BY <1>0, <1>24 DEF CompleteRecord, TaskOK, TasksBound, SubmittedPC, Task
  <2>2. OrderOK'
    <3> DEFINE c == IF task[t].seen = None THEN task[t].req ELSE task[t].seen
    <3>1. c \in Reqs
      BY <2>1
    <3>2. order' = order \/ order' = [order EXCEPT ![task[t].order].status = "valid",
                                                 ![task[t].order].cert = c]
      BY <1>24 DEF CompleteRecord
    <3> HIDE DEF c
    <3>3. QED
      BY <1>0, <3>1, <3>2 DEF OrderOK, Order, OrderStatus
  <2>3. TaskOK'
    BY <1>0, <1>24, TaskEnds DEF CompleteRecord
  <2>4. named' \in SUBSET Reqs /\ row' \in [Reqs -> RowStatus]
    BY <1>24, <2>1 DEF CompleteRecord, TypeInv, TypeOK, RowStatus
  <2>5. QED
    BY <1>24, <2>1, <2>2, <2>3, <2>4 DEF CompleteRecord, TypeInv, TypeOK,
       TaskOK, OrderOK
<1>25. ASSUME NEW t \in Finalizes, CompleteRecordFails(t) PROVE TypeInv'
  <2>1. task[t].req \in Reqs
    BY <1>25 DEF CompleteRecordFails, TypeInv, TasksBound, SubmittedPC
  <2>2. TaskOK'
    BY <1>0, <1>25, TaskEnds DEF CompleteRecordFails
  <2>3. named' \in SUBSET Reqs /\ halted' \in [Procs -> BOOLEAN]
    BY <1>25, <2>1 DEF CompleteRecordFails, TypeInv, TypeOK
  <2>4. QED
    BY <1>25, <2>1, <2>2, <2>3 DEF CompleteRecordFails, TypeInv, TypeOK,
       TaskOK, OrderOK
<1>26. ASSUME NEW r \in Reqs, RevokeCert(r) PROVE TypeInv'
  <2>1. OrderOK'
    BY <1>0, <1>26 DEF RevokeCert, OrderOK, Order, OrderStatus
  <2>2. row' \in [Reqs -> RowStatus]
    BY <1>26 DEF RevokeCert, TypeInv, TypeOK, RowStatus
  <2>3. QED
    BY <1>26, <2>1, <2>2 DEF RevokeCert, TypeInv, TypeOK, TaskOK, OrderOK,
       TasksBound
<1>27. ASSUME NEW p \in Procs, NEW o \in Orders, ReclaimRead(p, o) PROVE TypeInv'
  <2>1. reclaim' \in Reclaim
    BY <1>0, <1>27 DEF ReclaimRead, OrderOK, Order, Reclaim, HonouredOf, RowsOf
  <2>2. QED
    BY <1>27, <2>1 DEF ReclaimRead, TypeInv, TypeOK, TaskOK, OrderOK, TasksBound
<1>28. ASSUME ReclaimWrite PROVE TypeInv'
  <2>1. reclaim \in Reclaim
    BY <1>28 DEF ReclaimWrite, TypeInv, TypeOK
  <2>2. OrderOK'
    BY <1>0, <1>28, <2>1 DEF ReclaimWrite, OrderOK, Order, OrderStatus, Reclaim
  <2>3. QED
    BY <1>28, <2>1, <2>2 DEF ReclaimWrite, TypeInv, TypeOK, TaskOK, OrderOK,
       TasksBound
<1>29. ASSUME NEW r \in Reqs, CaDecides(r) PROVE TypeInv'
  <2>1. ca' \in [Reqs -> CaRequest]
    <3>1. PICK d \in {"issued", "pending", "denied"} :
            ca' = [ca EXCEPT ![r].state = d, ![r].disposition = d]
      BY <1>29 DEF CaDecides
    <3>2. QED
      BY <3>1 DEF TypeInv, TypeOK, CaRequest, CaState, Disposition
  <2>2. QED
    BY <1>29, <2>1 DEF CaDecides, TypeInv, TypeOK, TaskOK, OrderOK, TasksBound
<1>30. ASSUME NEW r \in Reqs, OfficerDecides(r) PROVE TypeInv'
  <2>1. ca' \in [Reqs -> CaRequest]
    <3>1. PICK d \in {"issued", "denied"} : ca' = [ca EXCEPT ![r].state = d]
      BY <1>30 DEF OfficerDecides
    <3>2. QED
      BY <3>1 DEF TypeInv, TypeOK, CaRequest, CaState
  <2>2. QED
    BY <1>30, <2>1 DEF OfficerDecides, TypeInv, TypeOK, TaskOK, OrderOK,
       TasksBound
<1>31. ASSUME NEW r \in Reqs, OperatorRevokesAtCa(r) PROVE TypeInv'
  <2>1. ca' \in [Reqs -> CaRequest]
    BY <1>31 DEF OperatorRevokesAtCa, TypeInv, TypeOK, CaRequest, CaState
  <2>2. QED
    BY <1>31, <2>1 DEF OperatorRevokesAtCa, TypeInv, TypeOK, TaskOK, OrderOK,
       TasksBound
<1>32. ASSUME NEW p \in Procs, Restart(p) PROVE TypeInv'
  <2>1. TaskOK'
    BY <1>0, <1>32, IdleIsTask DEF Restart, TaskOK, TasksBound, Idle, SubmittedPC
  <2>2. reclaim' \in Reclaim \cup {None} /\ halted' \in [Procs -> BOOLEAN]
    BY <1>32 DEF Restart, TypeInv, TypeOK
  <2>3. QED
    BY <1>32, <2>1, <2>2 DEF Restart, TypeInv, TypeOK, TaskOK, OrderOK
<1>33. CASE UNCHANGED vars
  BY <1>33 DEF vars, TypeInv, TypeOK, TasksBound
<1>34. QED
  BY <1>1, <1>2, <1>3, <1>4, <1>5, <1>6, <1>7, <1>8, <1>9, <1>10, <1>11,
     <1>12, <1>13, <1>14, <1>15, <1>16, <1>17, <1>18, <1>19, <1>20,
     <1>21, <1>22, <1>23, <1>24, <1>25, <1>26, <1>27, <1>28, <1>29,
     <1>30, <1>31, <1>32, <1>33
     DEF Next, Route, Worker, Authority

-----------------------------------------------------------------------------
\* The strengthened type invariant holds in every reachable state.
THEOREM TypeInvariant == Spec => []TypeInv
<1>1. Init => TypeInv
  <2> SUFFICES ASSUME Init PROVE TypeInv
    OBVIOUS
  <2>1. task \in [Finalizes -> Task] /\ \A t \in Finalizes : task[t].pc = "idle"
    BY IdleIsTask DEF Init, Idle
  <2>2. TasksBound
    BY <2>1 DEF TasksBound, SubmittedPC
  <2>3. order \in [Orders -> Order] /\ ca \in [Reqs -> CaRequest]
    BY ConstantsAssumption DEF Init, Order, OrderStatus, CaRequest, CaState, Disposition
  <2>4. QED
    BY <2>1, <2>2, <2>3 DEF Init, TypeInv, TypeOK, RowStatus
<1>2. QED
  BY <1>1, TypeInvNext, PTL DEF Spec

\* Every state the issuance path can reach is well typed, for any number of
\* processes, orders and requests: in particular no order status is ever
\* written that the ACME state machine does not have.
THEOREM TypeCorrect == Spec => []TypeOK
<1>1. TypeInv => TypeOK
  BY DEF TypeInv
<1>2. QED
  BY <1>1, TypeInvariant, PTL

-----------------------------------------------------------------------------
(* Enrollment implements OrderLifecycle, for every value of its constants. *)

\* How one step may change the row v of an order into w: only the lease or
\* the marker, a move of the status, or the completion with a certificate.
Moves(v, w) ==
    \/ w.status = v.status /\ w.cert = v.cert
    \/ /\ w.cert = v.cert
       /\ \/ v.status = "pending" /\ w.status = "ready"
          \/ v.status = "ready" /\ w.status = "processing"
          \/ v.status = "processing" /\ w.status = "ready"
          \/ v.status \in {"pending", "ready", "processing"} /\ w.status = "invalid"
          \/ v.status \in {"processing", "valid"} /\ w.status = "revoked"
    \/ v.status = "processing" /\ w.status = "valid" /\ w.cert \in Reqs

\* No order changes but one, and that one as Moves allows.
MovesOne(o) ==
    /\ \A q \in Orders \ {o} : order'[q] = order[q]
    /\ o \in Orders => Moves(order[o], order'[o])

LifecycleStep == [Lifecycle!LifecycleNext]_(Lifecycle!lifecycleVars)

\* Such a step is a step of the abstract order, or leaves it as it is.
LEMMA MoveIsLifecycle ==
    ASSUME OrderOK, OrderOK', NEW o, MovesOne(o)
    PROVE  LifecycleStep
<1> DEFINE status == [q \in Orders |-> order[q].status]
           cert == [q \in Orders |-> order[q].cert]
<1>1. CASE \A q \in Orders : order'[q].status = order[q].status /\ order'[q].cert = order[q].cert
  <2>1. status' = status /\ cert' = cert
    BY <1>1
  <2>2. QED
    BY <2>1 DEF LifecycleStep, Lifecycle!lifecycleVars
<1>2. CASE ~ \A q \in Orders : order'[q].status = order[q].status /\ order'[q].cert = order[q].cert
  <2>1. o \in Orders
    BY <1>2 DEF MovesOne
  <2>2. Moves(order[o], order'[o])
    BY <2>1 DEF MovesOne
  <2>3. status' = [status EXCEPT ![o] = order'[o].status] /\ status[o] = order[o].status
    BY <2>1 DEF MovesOne
  <2>4. cert' = [cert EXCEPT ![o] = order'[o].cert] /\ cert[o] = order[o].cert
    BY <2>1 DEF MovesOne
  <2>5. ~(order'[o].status = order[o].status /\ order'[o].cert = order[o].cert)
    BY <1>2, <2>1 DEF MovesOne
  <2>6. ASSUME order'[o].cert = order[o].cert PROVE cert' = cert
    BY <2>1, <2>4, <2>6
  <2>7. Lifecycle!LifecycleNext
    <3> HIDE DEF status, cert
    <3>1. CASE order[o].status = "processing" /\ order'[o].status = "valid"
               /\ order'[o].cert \in Reqs
      <4>1. Lifecycle!Complete(o)
        BY <2>3, <2>4, <3>1 DEF Lifecycle!Complete, Lifecycle!Move, status, cert
      <4>2. QED
        BY <2>1, <4>1 DEF Lifecycle!LifecycleNext
    <3>2. CASE order'[o].cert = order[o].cert /\ order'[o].status # order[o].status
      <4>1. \/ Lifecycle!Authorize(o) \/ Lifecycle!Begin(o) \/ Lifecycle!Reopen(o)
            \/ Lifecycle!Reject(o) \/ Lifecycle!Revoke(o) \/ Lifecycle!Complete(o)
        BY <2>2, <2>3, <2>4, <2>6, <3>2
           DEF Moves, Lifecycle!Authorize, Lifecycle!Begin, Lifecycle!Reopen, Lifecycle!Reject,
               Lifecycle!Revoke, Lifecycle!Complete, Lifecycle!Move, status, cert
      <4>2. QED
        BY <2>1, <4>1 DEF Lifecycle!LifecycleNext
    <3>3. QED
      BY <2>2, <2>5, <3>1, <3>2 DEF Moves
  <2>8. QED
    BY <2>7 DEF LifecycleStep
<1>3. QED
  BY <1>1, <1>2

\* A CAS out of 'processing' to 'ready' or 'invalid' moves one order.
LEMMA LeaveMoves ==
    ASSUME OrderOK, NEW o, NEW g, NEW s \in {"ready", "invalid"},
           order' = LeaveProcessing(o, g, s)
    PROVE  MovesOne(o)
BY DEF OrderOK, Order, LeaveProcessing, HoldsLease, MovesOne, Moves

\* So does a quarantine, from 'processing' or 'ready' to 'invalid'.
LEMMA QuarantineMoves ==
    ASSUME OrderOK, NEW r, NEW o, Quarantine(r, o)
    PROVE  MovesOne(o)
BY DEF OrderOK, Order, Quarantine, MovesOne, Moves

\* Every step of Enrollment moves at most one order.
LEMMA StepMovesOne == TypeInv /\ [Next]_vars => \E o : MovesOne(o)
<1> SUFFICES ASSUME TypeInv, [Next]_vars PROVE \E o : MovesOne(o)
  OBVIOUS
<1>0. OrderOK /\ task \in [Finalizes -> Task] /\ reclaim \in Reclaim \cup {None}
  BY DEF TypeInv, TypeOK, OrderOK
<1> USE DEF OrderOK
<1>1. ASSUME order' = order PROVE \E o : MovesOne(o)
  BY <1>1 DEF MovesOne, Moves
<1>2. ASSUME NEW o \in Orders, MaybeReadyOrder(o) \/ ExpireOrder(o) PROVE \E q : MovesOne(q)
  <2>1. MovesOne(o)
    BY <1>0, <1>2 DEF MaybeReadyOrder, ExpireOrder, MovesOne, Moves, Order
  <2>2. QED
    BY <2>1
<1>3. ASSUME NEW o \in Orders, FinalizeExistingCert(o) PROVE \E q : MovesOne(q)
  <2>1. PICK r \in Reqs : order' = [order EXCEPT ![o].status = "valid", ![o].cert = r]
    BY <1>3 DEF FinalizeExistingCert, HonouredOf, RowsOf
  <2>2. order[o].status = "processing"
    BY <1>3 DEF FinalizeExistingCert
  <2>3. MovesOne(o)
    BY <1>0, <2>1, <2>2 DEF MovesOne, Moves, Order
  <2>4. QED
    BY <2>3
<1>4. ASSUME NEW t \in Finalizes, FinalizeAdmit(t) PROVE \E q : MovesOne(q)
  <2> DEFINE o == task[t].order
             g == NextGeneration(o)
  <2>1. order[o].status = "ready"
    BY <1>4 DEF FinalizeAdmit
  <2>2. PICK s \in {"ready", "processing"} :
           order' = [order EXCEPT ![o].gen = g, ![o].status = s]
    BY <1>4 DEF FinalizeAdmit
  <2> HIDE DEF o, g
  <2>3. MovesOne(o)
    BY <1>0, <2>1, <2>2 DEF MovesOne, Moves, Order
  <2>4. QED
    BY <2>3
<1>5. ASSUME NEW t \in Finalizes,
             WorkerAuthorize(t) \/ WorkerDenied(t) \/ WorkerTerminate(t)
      PROVE  \E q : MovesOne(q)
  <2>1. \/ order' = order
        \/ \E s \in {"ready", "invalid"} :
              order' = LeaveProcessing(task[t].order, task[t].gen, s)
    BY <1>5 DEF WorkerAuthorize, WorkerDenied, WorkerTerminate
  <2>2. QED
    BY <1>0, <1>1, <2>1, LeaveMoves
<1>6. ASSUME NEW t \in Finalizes, WorkerPending(t) PROVE \E q : MovesOne(q)
  <2> DEFINE o == task[t].order
             m == IF order[o].gen = task[t].gen THEN task[t].req ELSE order[o].pending
  <2>1. order' = [order EXCEPT ![o].pending = m]
    BY <1>6 DEF WorkerPending
  <2> HIDE DEF o, m
  <2>2. MovesOne(o)
    BY <1>0, <2>1 DEF MovesOne, Moves, Order
  <2>3. QED
    BY <2>2
<1>7. ASSUME NEW t \in Finalizes, WorkerOrphan(t) \/ CompleteQuarantine(t) PROVE \E q : MovesOne(q)
  <2>1. Quarantine(task[t].req, task[t].order) \/ order' = order
    BY <1>7 DEF WorkerOrphan, CompleteQuarantine
  <2>2. QED
    BY <1>0, <1>1, <2>1, QuarantineMoves
<1>8. ASSUME NEW t \in Finalizes, CompleteRecord(t) PROVE \E q : MovesOne(q)
  <2> DEFINE o == task[t].order
             c == IF task[t].seen = None THEN task[t].req ELSE task[t].seen
  <2>1. task[t].req \in Reqs /\ task[t].seen \in Reqs \cup {None}
    BY <1>0, <1>8 DEF CompleteRecord, TypeInv, TasksBound, SubmittedPC, Task
  <2>2. c \in Reqs
    BY <2>1
  <2>3. \/ order' = order
        \/ HoldsLease(o, task[t].gen)
           /\ order' = [order EXCEPT ![o].status = "valid", ![o].cert = c]
    BY <1>8 DEF CompleteRecord
  <2> HIDE DEF o, c
  <2>4. ASSUME HoldsLease(o, task[t].gen),
               order' = [order EXCEPT ![o].status = "valid", ![o].cert = c]
        PROVE  MovesOne(o)
    BY <1>0, <2>2, <2>4 DEF MovesOne, Moves, Order, HoldsLease
  <2>5. QED
    BY <1>1, <2>3, <2>4
<1>9. ASSUME NEW r \in Reqs, RevokeCert(r) PROVE \E q : MovesOne(q)
  <2>1. MovesOne(ca[r].order)
    BY <1>0, <1>9 DEF RevokeCert, MovesOne, Moves, Order
  <2>2. QED
    BY <2>1
<1>10. ASSUME ReclaimWrite PROVE \E q : MovesOne(q)
  <2> DEFINE o == reclaim.order
             m == IF order[o].pending = reclaim.pending THEN None ELSE order[o].pending
  <2>1. reclaim \in Reclaim
    BY <1>0, <1>10 DEF ReclaimWrite
  <2>2. o \in Orders /\ reclaim.cert \in Reqs \cup {None}
    BY <2>1 DEF Reclaim
  <2>3. \/ order' = order
        \/ HoldsLease(o, reclaim.gen) /\ reclaim.cert = None
           /\ order' = [order EXCEPT ![o].status = "ready", ![o].cert = order[o].cert,
                                     ![o].pending = m]
        \/ HoldsLease(o, reclaim.gen) /\ reclaim.cert # None
           /\ order' = [order EXCEPT ![o].status = "valid", ![o].cert = reclaim.cert,
                                     ![o].pending = m]
    BY <1>0, <1>10, <2>2 DEF ReclaimWrite, Order
  <2> HIDE DEF o, m
  <2>4. order' = order \/ MovesOne(o)
    BY <1>0, <2>2, <2>3 DEF MovesOne, Moves, Order, HoldsLease
  <2>5. QED
    BY <1>1, <2>4
<1>11. QED
  BY <1>1, <1>2, <1>3, <1>4, <1>5, <1>6, <1>7, <1>8, <1>9, <1>10
     DEF Next, Route, Worker, Authority, vars, storeVars, FinalizeLosesLease,
         CompleteQuarantineFails, CompleteRead, CompleteRecordFails, WorkerStart,
         WorkerCheckLease, LegUnavailable, SubmitCsr, LegReturns, LegTransportError,
         StoreRaises, FinalizeRead, DeactivateAccount, KeyChange, CaDecides, OfficerDecides,
         OperatorRevokesAtCa, ReclaimRead, Restart

\* Enrollment implements OrderLifecycle with any number of processes, orders
\* and operators: what a client was told of an order that ended, and of the
\* certificate of a valid one, stays true.
THEOREM EnrollmentImplementsLifecycle == Spec => EnrollmentKeepsLifecycle
<1>1. Init => Lifecycle!LifecycleInit
  BY DEF Init, Lifecycle!LifecycleInit
<1>2. TypeInv /\ TypeInv' /\ [Next]_vars => LifecycleStep
  <2> SUFFICES ASSUME TypeInv, TypeInv', [Next]_vars PROVE LifecycleStep
    OBVIOUS
  <2>1. OrderOK /\ OrderOK'
    BY DEF TypeInv, TypeOK, OrderOK
  <2>2. QED
    BY <2>1, StepMovesOne, MoveIsLifecycle
<1>3. QED
  BY <1>1, <1>2, TypeInvariant, PTL
     DEF Spec, EnrollmentKeepsLifecycle, Lifecycle!LifecycleSpec, LifecycleStep

-----------------------------------------------------------------------------
(* The processing lease, for every number of RA processes on one store:    *)
(* a lease has one holder and is worth one CA request.  Each entry into    *)
(* 'processing' mints a generation above every one handed out or spent     *)
(* before; the other steps only let go of leases.                          *)

\* Leases are handed out in increasing order.
LeasesMinted ==
    /\ \A t \in Finalizes : task[t].pc \in EnrollingPC =>
           task[t].gen <= order[task[t].order].gen
    /\ \A r \in Reqs : Used(r) =>
           ca[r].order \in Orders /\ ca[r].gen <= order[ca[r].order].gen

\* The lease of a worker that has not submitted yet is unspent.
LeaseUnspent ==
    \A t \in Finalizes, r \in Reqs :
        /\ task[t].pc \in EnrollingPC \ SubmittedPC
        /\ Used(r)
        /\ ca[r].order = task[t].order
        => ca[r].gen # task[t].gen

LeaseInv == LeasesMinted /\ LeaseExclusive /\ LeaseUnspent /\ OneRequestPerLease

-----------------------------------------------------------------------------
(* All steps but two mint no lease and spend none.                         *)

KeepsGenerations == \A o \in Orders : order'[o].gen = order[o].gen

KeepsRequests ==
    \A r \in Reqs : /\ Used(r)' <=> Used(r)
                    /\ ca'[r].order = ca[r].order
                    /\ ca'[r].gen = ca[r].gen

KeepsLeases ==
    \A t \in Finalizes : task'[t].pc \in EnrollingPC =>
        /\ task[t].pc \in EnrollingPC
        /\ task'[t].order = task[t].order
        /\ task'[t].gen = task[t].gen
        /\ task[t].pc \in SubmittedPC => task'[t].pc \in SubmittedPC

Keeps == KeepsGenerations /\ KeepsRequests /\ KeepsLeases

\* A step that mints and spends nothing keeps the invariant.
LEMMA KeepsLeaseInv ==
    ASSUME TypeInv, LeaseInv, Keeps PROVE LeaseInv'
<1> USE DEF Keeps
<1>1. \A t \in Finalizes : task[t].pc \in EnrollingPC => task[t].order \in Orders
  BY DEF TypeInv, TasksBound, EnrollingPC, AdmittedPC, RunningPC, LockedPC
<1>2. LeasesMinted'
  BY <1>1 DEF LeaseInv, LeasesMinted, KeepsGenerations, KeepsRequests, KeepsLeases
<1>3. LeaseExclusive'
  BY DEF LeaseInv, LeaseExclusive, KeepsLeases
<1>4. LeaseUnspent'
  BY DEF LeaseInv, LeaseUnspent, KeepsRequests, KeepsLeases
<1>5. OneRequestPerLease'
  BY DEF LeaseInv, OneRequestPerLease, KeepsRequests, Used
<1>6. QED
  BY <1>2, <1>3, <1>4, <1>5 DEF LeaseInv

\* A finalize request that ends lets go of its lease.
LEMMA EndKeepsLeases ==
    ASSUME TypeInv, NEW t \in Finalizes, task' = [task EXCEPT ![t] = Idle]
    PROVE  KeepsLeases
BY DEF TypeInv, TypeOK, KeepsLeases, Idle, EnrollingPC, AdmittedPC, RunningPC, LockedPC

\* A CAS of the status does not touch the generation.
LEMMA StatusKeepsGenerations ==
    ASSUME TypeInv, NEW o, NEW g, NEW status, order' = LeaveProcessing(o, g, status)
    PROVE  KeepsGenerations
BY DEF TypeInv, TypeOK, Order, KeepsGenerations, LeaveProcessing

\* Every operation but the minting of a lease and the POST of a CSR mints and
\* spends nothing.
LEMMA QuietStepsKeep ==
    ASSUME TypeInv, Next,
           ~ \E t \in Finalizes : FinalizeAdmit(t) \/ SubmitCsr(t)
    PROVE  Keeps
<1> USE DEF storeVars
<1>1. ASSUME NEW o \in Orders, MaybeReadyOrder(o) PROVE Keeps
  <2>1. KeepsGenerations
    BY <1>1 DEF MaybeReadyOrder, TypeInv, TypeOK, Order, KeepsGenerations
  <2>2. QED
    BY <1>1, <2>1 DEF MaybeReadyOrder, Keeps, KeepsRequests, KeepsLeases, Used
<1>2. ASSUME NEW o \in Orders, ExpireOrder(o) PROVE Keeps
  <2>1. KeepsGenerations
    BY <1>2 DEF ExpireOrder, TypeInv, TypeOK, Order, KeepsGenerations
  <2>2. QED
    BY <1>2, <2>1 DEF ExpireOrder, Keeps, KeepsRequests, KeepsLeases, Used
<1>3. ASSUME NEW o \in Orders, FinalizeExistingCert(o) PROVE Keeps
  <2>1. KeepsGenerations
    BY <1>3 DEF FinalizeExistingCert, TypeInv, TypeOK, Order, KeepsGenerations
  <2>2. QED
    BY <1>3, <2>1 DEF FinalizeExistingCert, Keeps, KeepsRequests, KeepsLeases,
       Used
<1>4. ASSUME NEW p \in Procs, NEW a \in Accounts, DeactivateAccount(p, a) PROVE Keeps
  BY <1>4 DEF DeactivateAccount, Keeps, KeepsGenerations, KeepsRequests,
     KeepsLeases, Used
<1>5. ASSUME NEW p \in Procs, NEW a \in Accounts, NEW k \in Keys, KeyChange(p, a, k) PROVE Keeps
  BY <1>5 DEF KeyChange, Keeps, KeepsGenerations, KeepsRequests, KeepsLeases,
     Used
<1>6. ASSUME NEW t \in Finalizes, NEW p \in Procs, NEW o \in Orders, FinalizeRead(t, p, o) PROVE Keeps
  <2>1. KeepsLeases
    BY <1>6 DEF FinalizeRead, TypeInv, TypeOK, KeepsLeases, Idle, EnrollingPC,
       AdmittedPC, RunningPC, LockedPC, SubmittedPC
  <2>2. QED
    BY <1>6, <2>1 DEF FinalizeRead, Keeps, KeepsGenerations, KeepsRequests,
       Used
<1>7. ASSUME NEW t \in Finalizes, FinalizeLosesLease(t) PROVE Keeps
  <2>1. KeepsLeases
    BY <1>7, EndKeepsLeases DEF FinalizeLosesLease
  <2>2. QED
    BY <1>7, <2>1 DEF FinalizeLosesLease, Keeps, KeepsGenerations,
       KeepsRequests, Used
<1>8. ASSUME NEW t \in Finalizes, LegUnavailable(t) PROVE Keeps
  <2>1. KeepsLeases
    BY <1>8, EndKeepsLeases DEF LegUnavailable
  <2>2. QED
    BY <1>8, <2>1 DEF LegUnavailable, Keeps, KeepsGenerations, KeepsRequests,
       Used
<1>9. ASSUME NEW t \in Finalizes, LegTransportError(t) PROVE Keeps
  <2>1. KeepsLeases
    BY <1>9, EndKeepsLeases DEF LegTransportError
  <2>2. QED
    BY <1>9, <2>1 DEF LegTransportError, Keeps, KeepsGenerations,
       KeepsRequests, Used
<1>10. ASSUME NEW t \in Finalizes, StoreRaises(t) PROVE Keeps
  <2>1. KeepsLeases
    BY <1>10, EndKeepsLeases DEF StoreRaises
  <2>2. QED
    BY <1>10, <2>1 DEF StoreRaises, Keeps, KeepsGenerations, KeepsRequests,
       Used
<1>11. ASSUME NEW t \in Finalizes, CompleteQuarantineFails(t) PROVE Keeps
  <2>1. KeepsLeases
    BY <1>11, EndKeepsLeases DEF CompleteQuarantineFails
  <2>2. QED
    BY <1>11, <2>1 DEF CompleteQuarantineFails, Keeps, KeepsGenerations,
       KeepsRequests, Used
<1>12. ASSUME NEW t \in Finalizes, CompleteRecordFails(t) PROVE Keeps
  <2>1. KeepsLeases
    BY <1>12, EndKeepsLeases DEF CompleteRecordFails
  <2>2. QED
    BY <1>12, <2>1 DEF CompleteRecordFails, Keeps, KeepsGenerations,
       KeepsRequests, Used
<1>13. ASSUME NEW t \in Finalizes, WorkerStart(t) PROVE Keeps
  <2>1. KeepsLeases
    BY <1>13 DEF WorkerStart, TypeInv, TypeOK, Task, KeepsLeases, Idle,
       EnrollingPC, AdmittedPC, RunningPC, LockedPC, SubmittedPC
  <2>2. QED
    BY <1>13, <2>1 DEF WorkerStart, Keeps, KeepsGenerations, KeepsRequests,
       Used
<1>14. ASSUME NEW t \in Finalizes, WorkerAuthorize(t) PROVE Keeps
  <2>1. KeepsGenerations
    BY <1>14, StatusKeepsGenerations DEF WorkerAuthorize, KeepsGenerations
  <2>2. KeepsLeases
    BY <1>14 DEF WorkerAuthorize, TypeInv, TypeOK, Task, KeepsLeases, Idle,
       EnrollingPC, AdmittedPC, RunningPC, LockedPC, SubmittedPC
  <2>3. QED
    BY <1>14, <2>1, <2>2 DEF WorkerAuthorize, Keeps, KeepsRequests, Used
<1>15. ASSUME NEW t \in Finalizes, WorkerCheckLease(t) PROVE Keeps
  <2>1. KeepsLeases
    BY <1>15 DEF WorkerCheckLease, TypeInv, TypeOK, Task, KeepsLeases, Idle,
       EnrollingPC, AdmittedPC, RunningPC, LockedPC, SubmittedPC
  <2>2. QED
    BY <1>15, <2>1 DEF WorkerCheckLease, Keeps, KeepsGenerations,
       KeepsRequests, Used
<1>16. ASSUME NEW t \in Finalizes, LegReturns(t) PROVE Keeps
  <2>1. KeepsLeases
    BY <1>16 DEF LegReturns, TypeInv, TypeOK, Task, KeepsLeases, Idle,
       EnrollingPC, AdmittedPC, RunningPC, LockedPC, SubmittedPC
  <2>2. QED
    BY <1>16, <2>1 DEF LegReturns, Keeps, KeepsGenerations, KeepsRequests,
       Used
<1>17. ASSUME NEW t \in Finalizes, WorkerDenied(t) PROVE Keeps
  <2>1. KeepsGenerations
    BY <1>17, StatusKeepsGenerations DEF WorkerDenied
  <2>2. KeepsLeases
    BY <1>17, EndKeepsLeases DEF WorkerDenied
  <2>3. QED
    BY <1>17, <2>1, <2>2 DEF WorkerDenied, Keeps, KeepsRequests, Used
<1>18. ASSUME NEW t \in Finalizes, WorkerTerminate(t) PROVE Keeps
  <2>1. KeepsGenerations
    BY <1>18, StatusKeepsGenerations DEF WorkerTerminate
  <2>2. KeepsLeases
    BY <1>18, EndKeepsLeases DEF WorkerTerminate
  <2>3. QED
    BY <1>18, <2>1, <2>2 DEF WorkerTerminate, Keeps, KeepsRequests, Used
<1>19. ASSUME NEW t \in Finalizes, WorkerPending(t) PROVE Keeps
  <2>1. KeepsGenerations
    BY <1>19 DEF WorkerPending, TypeInv, TypeOK, Order, KeepsGenerations
  <2>2. KeepsLeases
    BY <1>19, EndKeepsLeases DEF WorkerPending
  <2>3. QED
    BY <1>19, <2>1, <2>2 DEF WorkerPending, Keeps, KeepsRequests, Used
<1>20. ASSUME NEW t \in Finalizes, WorkerOrphan(t) PROVE Keeps
  <2>1. KeepsGenerations
    BY <1>20 DEF WorkerOrphan, TypeInv, TypeOK, Order, KeepsGenerations,
       Quarantine
  <2>2. KeepsLeases
    BY <1>20 DEF WorkerOrphan, TypeInv, TypeOK, Task, KeepsLeases, Idle,
       EnrollingPC, AdmittedPC, RunningPC, LockedPC, SubmittedPC
  <2>3. QED
    BY <1>20, <2>1, <2>2 DEF WorkerOrphan, Keeps, KeepsRequests, Used
<1>21. ASSUME NEW t \in Finalizes, CompleteQuarantine(t) PROVE Keeps
  <2>1. KeepsGenerations
    BY <1>21 DEF CompleteQuarantine, TypeInv, TypeOK, Order, KeepsGenerations,
       Quarantine
  <2>2. KeepsLeases
    BY <1>21, EndKeepsLeases DEF CompleteQuarantine
  <2>3. QED
    BY <1>21, <2>1, <2>2 DEF CompleteQuarantine, Keeps, KeepsRequests, Used
<1>22. ASSUME NEW t \in Finalizes, CompleteRead(t) PROVE Keeps
  <2>1. KeepsLeases
    BY <1>22 DEF CompleteRead, TypeInv, TypeOK, Task, KeepsLeases, Idle,
       EnrollingPC, AdmittedPC, RunningPC, LockedPC, SubmittedPC
  <2>2. QED
    BY <1>22, <2>1 DEF CompleteRead, Keeps, KeepsGenerations, KeepsRequests,
       Used
<1>23. ASSUME NEW t \in Finalizes, CompleteRecord(t) PROVE Keeps
  <2>1. KeepsGenerations
    BY <1>23 DEF CompleteRecord, TypeInv, TypeOK, Order, KeepsGenerations
  <2>2. KeepsLeases
    BY <1>23, EndKeepsLeases DEF CompleteRecord
  <2>3. QED
    BY <1>23, <2>1, <2>2 DEF CompleteRecord, Keeps, KeepsRequests, Used
<1>24. ASSUME NEW r \in Reqs, RevokeCert(r) PROVE Keeps
  <2>1. KeepsGenerations
    BY <1>24 DEF RevokeCert, TypeInv, TypeOK, Order, KeepsGenerations
  <2>2. QED
    BY <1>24, <2>1 DEF RevokeCert, Keeps, KeepsRequests, KeepsLeases, Used
<1>25. ASSUME NEW p \in Procs, NEW o \in Orders, ReclaimRead(p, o) PROVE Keeps
  BY <1>25 DEF ReclaimRead, Keeps, KeepsGenerations, KeepsRequests,
     KeepsLeases, Used
<1>26. ASSUME ReclaimWrite PROVE Keeps
  <2>1. KeepsGenerations
    BY <1>26 DEF ReclaimWrite, TypeInv, TypeOK, Order, KeepsGenerations
  <2>2. QED
    BY <1>26, <2>1 DEF ReclaimWrite, Keeps, KeepsRequests, KeepsLeases, Used
<1>27. ASSUME NEW r \in Reqs, CaDecides(r) PROVE Keeps
  <2>1. KeepsRequests
    BY <1>27 DEF CaDecides, TypeInv, TypeOK, CaRequest, KeepsRequests, Used
  <2>2. QED
    BY <1>27, <2>1 DEF CaDecides, Keeps, KeepsGenerations, KeepsLeases
<1>28. ASSUME NEW r \in Reqs, OfficerDecides(r) PROVE Keeps
  <2>1. KeepsRequests
    BY <1>28 DEF OfficerDecides, TypeInv, TypeOK, CaRequest, KeepsRequests,
       Used
  <2>2. QED
    BY <1>28, <2>1 DEF OfficerDecides, Keeps, KeepsGenerations, KeepsLeases
<1>29. ASSUME NEW r \in Reqs, OperatorRevokesAtCa(r) PROVE Keeps
  <2>1. KeepsRequests
    BY <1>29 DEF OperatorRevokesAtCa, TypeInv, TypeOK, CaRequest,
       KeepsRequests, Used
  <2>2. QED
    BY <1>29, <2>1 DEF OperatorRevokesAtCa, Keeps, KeepsGenerations,
       KeepsLeases
<1>30. ASSUME NEW p \in Procs, Restart(p) PROVE Keeps
  <2>1. KeepsLeases
    BY <1>30 DEF Restart, TypeInv, TypeOK, Task, KeepsLeases, Idle,
       EnrollingPC, AdmittedPC, RunningPC, LockedPC, SubmittedPC
  <2>2. QED
    BY <1>30, <2>1 DEF Restart, Keeps, KeepsGenerations, KeepsRequests, Used
<1>31. QED
  BY <1>1, <1>2, <1>3, <1>4, <1>5, <1>6, <1>7, <1>8, <1>9, <1>10, <1>11,
     <1>12, <1>13, <1>14, <1>15, <1>16, <1>17, <1>18, <1>19, <1>20, <1>21,
     <1>22, <1>23, <1>24, <1>25, <1>26, <1>27, <1>28, <1>29, <1>30 DEF Next,
     Route, Worker, Authority

-----------------------------------------------------------------------------
(* The two steps that do.                                                  *)

\* acquire_processing_lease: the new generation is above every one handed out
\* or spent.
LEMMA AdmitKeepsLeaseInv ==
    ASSUME TypeInv, LeaseInv, NEW t \in Finalizes, FinalizeAdmit(t)
    PROVE  LeaseInv'
<1> DEFINE o == task[t].order
           g == NextGeneration(o)
<1>1. o \in Orders /\ order[o].gen \in Nat /\ g = order[o].gen + 1
  BY DEF FinalizeAdmit, TypeInv, TypeOK, TasksBound, Order, NextGeneration
<1>2. order'[o].gen = g /\ \A q \in Orders : q # o => order'[q].gen = order[q].gen
  BY <1>1 DEF FinalizeAdmit, TypeInv, TypeOK, Order
<1>3. \A u \in Finalizes : u # t => task'[u] = task[u]
  BY DEF FinalizeAdmit, TypeInv, TypeOK
<1>4. task'[t] = Idle \/ (/\ task'[t].pc = "queued"
                         /\ task'[t].order = o /\ task'[t].gen = g)
  BY DEF FinalizeAdmit, TypeInv, TypeOK, Task
<1>5. ca' = ca
  BY DEF FinalizeAdmit
<1>6. /\ \A u \in Finalizes : task[u].pc \in EnrollingPC =>
             task[u].order \in Orders /\ task[u].gen \in Nat
      /\ \A r \in Reqs : ca[r].gen \in Nat
      /\ \A q \in Orders : order[q].gen \in Nat
  BY DEF TypeInv, TypeOK, TasksBound, Task, CaRequest, Order,
         EnrollingPC, AdmittedPC, RunningPC, LockedPC
<1>7. Idle.pc \notin EnrollingPC /\ "queued" \in EnrollingPC \ SubmittedPC
  BY DEF Idle, EnrollingPC, AdmittedPC, RunningPC, LockedPC, SubmittedPC
<1> HIDE DEF o, g
<1>8. \A u \in Finalizes : u # t /\ task[u].pc \in EnrollingPC /\ task[u].order = o
          => task[u].gen < g
  BY <1>1, <1>6 DEF LeaseInv, LeasesMinted
<1>9. \A r \in Reqs : Used(r) /\ ca[r].order = o => ca[r].gen < g
  BY <1>1, <1>6 DEF LeaseInv, LeasesMinted
<1>10. LeasesMinted'
  <2>1. ASSUME NEW u \in Finalizes, task'[u].pc \in EnrollingPC
        PROVE  task'[u].gen <= order'[task'[u].order].gen
    <3>1. CASE u = t
      BY <1>1, <1>2, <1>4, <1>7, <2>1, <3>1
    <3>2. CASE u # t
      BY <1>1, <1>2, <1>3, <1>6, <1>8, <2>1, <3>2 DEF LeaseInv, LeasesMinted
    <3>3. QED
      BY <3>1, <3>2
  <2>2. ASSUME NEW r \in Reqs, Used(r)'
        PROVE  ca'[r].order \in Orders /\ ca'[r].gen <= order'[ca'[r].order].gen
    BY <1>1, <1>2, <1>5, <1>6, <1>9, <2>2 DEF LeaseInv, LeasesMinted, Used
  <2>3. QED
    BY <2>1, <2>2 DEF LeasesMinted
<1>11. LeaseExclusive'
  BY <1>1, <1>3, <1>4, <1>6, <1>7, <1>8 DEF LeaseInv, LeaseExclusive
<1>12. LeaseUnspent'
  BY <1>1, <1>3, <1>4, <1>5, <1>6, <1>7, <1>9 DEF LeaseInv, LeaseUnspent, Used
<1>13. OneRequestPerLease'
  BY <1>5 DEF LeaseInv, OneRequestPerLease
<1>14. QED
  BY <1>10, <1>11, <1>12, <1>13 DEF LeaseInv

\* The POST of the CSR spends a lease that no request was spent on, and that
\* no other worker holds.
LEMMA SubmitKeepsLeaseInv ==
    ASSUME TypeInv, LeaseInv, NEW t \in Finalizes, SubmitCsr(t)
    PROVE  LeaseInv'
<1>1. PICK r \in Reqs :
        /\ ca[r].state = "unused"
        /\ ca' = [ca EXCEPT ![r].state = "sent", ![r].order = task[t].order,
                            ![r].gen = task[t].gen]
        /\ task' = [task EXCEPT ![t].pc = "calling", ![t].req = r]
  BY DEF SubmitCsr
<1>2. order' = order
  BY DEF SubmitCsr, storeVars
<1>3. /\ Used(r)' /\ ca'[r].order = task[t].order /\ ca'[r].gen = task[t].gen
      /\ \A s \in Reqs : s # r => ca'[s] = ca[s]
  BY <1>1 DEF TypeInv, TypeOK, CaRequest, Used
<1>4. /\ task'[t].pc = "calling" /\ task'[t].order = task[t].order
      /\ task'[t].gen = task[t].gen
      /\ \A u \in Finalizes : u # t => task'[u] = task[u]
  BY <1>1 DEF TypeInv, TypeOK, Task
<1>5. /\ task[t].pc \in EnrollingPC \ SubmittedPC
      /\ "calling" \in EnrollingPC \cap SubmittedPC
      /\ task[t].order \in Orders
  BY DEF SubmitCsr, TypeInv, TasksBound, EnrollingPC, AdmittedPC, RunningPC,
         LockedPC, SubmittedPC
<1>6. LeasesMinted'
  BY <1>2, <1>3, <1>4, <1>5 DEF LeaseInv, LeasesMinted, Used
<1>7. LeaseExclusive'
  BY <1>4, <1>5 DEF LeaseInv, LeaseExclusive
<1>8. LeaseUnspent'
  BY <1>3, <1>4, <1>5 DEF LeaseInv, LeaseUnspent, LeaseExclusive, Used
<1>9. OneRequestPerLease'
  BY <1>3, <1>5 DEF LeaseInv, LeaseUnspent, OneRequestPerLease, Used
<1>10. QED
  BY <1>6, <1>7, <1>8, <1>9 DEF LeaseInv

-----------------------------------------------------------------------------
\* The lease invariant holds in every reachable state.
THEOREM LeaseInvariant == Spec => []LeaseInv
<1>1. Init => LeaseInv
  BY DEF Init, LeaseInv, LeasesMinted, LeaseExclusive, LeaseUnspent, OneRequestPerLease,
         Used, Idle, EnrollingPC, AdmittedPC, RunningPC, LockedPC
<1>2. TypeInv /\ LeaseInv /\ [Next]_vars => LeaseInv'
  <2> SUFFICES ASSUME TypeInv, LeaseInv, [Next]_vars PROVE LeaseInv'
    OBVIOUS
  <2>1. CASE UNCHANGED vars
    <3>1. Keeps
      BY <2>1 DEF vars, Keeps, KeepsGenerations, KeepsRequests, KeepsLeases, Used
    <3>2. QED
      BY <3>1, KeepsLeaseInv
  <2>2. CASE Next /\ ~ \E t \in Finalizes : FinalizeAdmit(t) \/ SubmitCsr(t)
    BY <2>2, QuietStepsKeep, KeepsLeaseInv
  <2>3. CASE \E t \in Finalizes : FinalizeAdmit(t) \/ SubmitCsr(t)
    BY <2>3, AdmitKeepsLeaseInv, SubmitKeepsLeaseInv
  <2>4. QED
    BY <2>1, <2>2, <2>3
<1>3. QED
  BY <1>1, <1>2, TypeInvariant, PTL DEF Spec

\* No two live enrollments of an order ever hold the same lease, however many
\* processes share the store and whatever crashes or is reclaimed: what
\* acquire_processing_lease promises its callers.
THEOREM LeaseHasOneHolder == Spec => []LeaseExclusive
<1>1. LeaseInv => LeaseExclusive
  BY DEF LeaseInv
<1>2. QED
  BY <1>1, LeaseInvariant, PTL

\* The CA never receives two requests for one order under one lease: a second
\* request always means that a reclaim, a denial or a refused admission put
\* the order back to 'ready' in between.
THEOREM LeaseIsWorthOneRequest == Spec => []OneRequestPerLease
<1>1. LeaseInv => OneRequestPerLease
  BY DEF LeaseInv
<1>2. QED
  BY <1>1, LeaseInvariant, PTL

-----------------------------------------------------------------------------
(* The account issuance lock, in the supported deployment of one process:  *)
(* no CSR is at the CA for an account that was deactivated, or whose key   *)
(* was rolled, since the worker checked it.  With a second process the     *)
(* statement is false: its locks are not those of the first.               *)

\* The step lets no new worker into the places that hold the lock, and leaves
\* the accounts alone.
KeepsLocked ==
    /\ acct' = acct
    /\ \A t \in Finalizes : task'[t].pc \in LockedPC =>
           /\ task[t].pc \in LockedPC
           /\ task'[t].order = task[t].order
           /\ task'[t].key = task[t].key

\* A finalize request that ends releases the lock.
LEMMA EndKeepsLocked ==
    ASSUME TypeInv, NEW t \in Finalizes, task' = [task EXCEPT ![t] = Idle], acct' = acct
    PROVE  KeepsLocked
BY DEF TypeInv, TypeOK, KeepsLocked, Idle, LockedPC

\* Only WorkerAuthorize takes the lock; only deactivation and keyChange write
\* the account.
LEMMA QuietStepsKeepLocked ==
    ASSUME TypeInv, Next,
           ~ \E t \in Finalizes : WorkerAuthorize(t),
           ~ \E p \in Procs, a \in Accounts : DeactivateAccount(p, a),
           ~ \E p \in Procs, a \in Accounts, k \in Keys : KeyChange(p, a, k)
    PROVE  KeepsLocked
<1> USE DEF storeVars
<1>1. ASSUME NEW o \in Orders, MaybeReadyOrder(o) PROVE KeepsLocked
  BY <1>1 DEF MaybeReadyOrder, KeepsLocked
<1>2. ASSUME NEW o \in Orders, ExpireOrder(o) PROVE KeepsLocked
  BY <1>2 DEF ExpireOrder, KeepsLocked
<1>3. ASSUME NEW o \in Orders, FinalizeExistingCert(o) PROVE KeepsLocked
  BY <1>3 DEF FinalizeExistingCert, KeepsLocked
<1>4. ASSUME NEW t \in Finalizes, NEW p \in Procs, NEW o \in Orders, FinalizeRead(t, p, o) PROVE KeepsLocked
  BY <1>4 DEF FinalizeRead, TypeInv, TypeOK, Task, KeepsLocked, Idle, LockedPC
<1>5. ASSUME NEW t \in Finalizes, FinalizeLosesLease(t) PROVE KeepsLocked
  BY <1>5, EndKeepsLocked DEF FinalizeLosesLease
<1>6. ASSUME NEW t \in Finalizes, LegUnavailable(t) PROVE KeepsLocked
  BY <1>6, EndKeepsLocked DEF LegUnavailable
<1>7. ASSUME NEW t \in Finalizes, LegTransportError(t) PROVE KeepsLocked
  BY <1>7, EndKeepsLocked DEF LegTransportError
<1>8. ASSUME NEW t \in Finalizes, StoreRaises(t) PROVE KeepsLocked
  BY <1>8, EndKeepsLocked DEF StoreRaises
<1>9. ASSUME NEW t \in Finalizes, CompleteQuarantineFails(t) PROVE KeepsLocked
  BY <1>9, EndKeepsLocked DEF CompleteQuarantineFails
<1>10. ASSUME NEW t \in Finalizes, CompleteRecordFails(t) PROVE KeepsLocked
  BY <1>10, EndKeepsLocked DEF CompleteRecordFails
<1>11. ASSUME NEW t \in Finalizes, WorkerDenied(t) PROVE KeepsLocked
  BY <1>11, EndKeepsLocked DEF WorkerDenied
<1>12. ASSUME NEW t \in Finalizes, WorkerTerminate(t) PROVE KeepsLocked
  BY <1>12, EndKeepsLocked DEF WorkerTerminate
<1>13. ASSUME NEW t \in Finalizes, WorkerPending(t) PROVE KeepsLocked
  BY <1>13, EndKeepsLocked DEF WorkerPending
<1>14. ASSUME NEW t \in Finalizes, CompleteQuarantine(t) PROVE KeepsLocked
  BY <1>14, EndKeepsLocked DEF CompleteQuarantine
<1>15. ASSUME NEW t \in Finalizes, CompleteRecord(t) PROVE KeepsLocked
  BY <1>15, EndKeepsLocked DEF CompleteRecord
<1>16. ASSUME NEW t \in Finalizes, FinalizeAdmit(t) PROVE KeepsLocked
  BY <1>16 DEF FinalizeAdmit, TypeInv, TypeOK, Task, KeepsLocked, Idle,
     LockedPC
<1>17. ASSUME NEW t \in Finalizes, WorkerStart(t) PROVE KeepsLocked
  BY <1>17 DEF WorkerStart, TypeInv, TypeOK, Task, KeepsLocked, Idle, LockedPC
<1>18. ASSUME NEW t \in Finalizes, WorkerCheckLease(t) PROVE KeepsLocked
  BY <1>18 DEF WorkerCheckLease, TypeInv, TypeOK, Task, KeepsLocked, Idle,
     LockedPC
<1>19. ASSUME NEW t \in Finalizes, SubmitCsr(t) PROVE KeepsLocked
  BY <1>19 DEF SubmitCsr, TypeInv, TypeOK, Task, KeepsLocked, Idle, LockedPC
<1>20. ASSUME NEW t \in Finalizes, LegReturns(t) PROVE KeepsLocked
  BY <1>20 DEF LegReturns, TypeInv, TypeOK, Task, KeepsLocked, Idle, LockedPC
<1>21. ASSUME NEW t \in Finalizes, WorkerOrphan(t) PROVE KeepsLocked
  BY <1>21 DEF WorkerOrphan, TypeInv, TypeOK, Task, KeepsLocked, Idle,
     LockedPC
<1>22. ASSUME NEW t \in Finalizes, CompleteRead(t) PROVE KeepsLocked
  BY <1>22 DEF CompleteRead, TypeInv, TypeOK, Task, KeepsLocked, Idle,
     LockedPC
<1>23. ASSUME NEW r \in Reqs, RevokeCert(r) PROVE KeepsLocked
  BY <1>23 DEF RevokeCert, KeepsLocked
<1>24. ASSUME NEW p \in Procs, NEW o \in Orders, ReclaimRead(p, o) PROVE KeepsLocked
  BY <1>24 DEF ReclaimRead, KeepsLocked
<1>25. ASSUME ReclaimWrite PROVE KeepsLocked
  BY <1>25 DEF ReclaimWrite, KeepsLocked
<1>26. ASSUME NEW r \in Reqs, CaDecides(r) PROVE KeepsLocked
  BY <1>26 DEF CaDecides, KeepsLocked
<1>27. ASSUME NEW r \in Reqs, OfficerDecides(r) PROVE KeepsLocked
  BY <1>27 DEF OfficerDecides, KeepsLocked
<1>28. ASSUME NEW r \in Reqs, OperatorRevokesAtCa(r) PROVE KeepsLocked
  BY <1>28 DEF OperatorRevokesAtCa, KeepsLocked
<1>29. ASSUME NEW p \in Procs, Restart(p) PROVE KeepsLocked
  BY <1>29 DEF Restart, TypeInv, TypeOK, Task, KeepsLocked, Idle, LockedPC
<1>30. QED
  BY <1>1, <1>2, <1>3, <1>4, <1>5, <1>6, <1>7, <1>8, <1>9, <1>10, <1>11,
     <1>12, <1>13, <1>14, <1>15, <1>16, <1>17, <1>18, <1>19, <1>20, <1>21,
     <1>22, <1>23, <1>24, <1>25, <1>26, <1>27, <1>28, <1>29 DEF Next, Route,
     Worker, Authority

\* A worker that is let into the locked places has checked the account there
\* and then.
LEMMA AuthorizeChecksAccount ==
    ASSUME TypeInv, SubmitsForCurrentAccount, NEW t \in Finalizes, WorkerAuthorize(t)
    PROVE  SubmitsForCurrentAccount'
<1>1. acct' = acct
  BY DEF WorkerAuthorize
<1>2. CASE task' = [task EXCEPT ![t] = Idle]
  BY <1>1, <1>2, EndKeepsLocked DEF SubmitsForCurrentAccount, KeepsLocked, Usable
<1>3. CASE /\ task' = [task EXCEPT ![t].pc = "authorized"]
           /\ Usable(Owner[task[t].order])
           /\ acct[Owner[task[t].order]].key = task[t].key
  <2>1. /\ task'[t].order = task[t].order /\ task'[t].key = task[t].key
        /\ \A u \in Finalizes : u # t => task'[u] = task[u]
    BY <1>3 DEF TypeInv, TypeOK, Task
  <2>2. QED
    BY <1>1, <1>3, <2>1 DEF SubmitsForCurrentAccount, Usable
<1>4. QED
  BY <1>2, <1>3 DEF WorkerAuthorize

\* An account is written only while no worker of the one process is in the
\* locked places for it.
LEMMA AccountWritesWaitForLock ==
    ASSUME SingleProcess, TypeInv, SubmitsForCurrentAccount,
           NEW p \in Procs, NEW a \in Accounts, LockFree(p, a),
           task' = task, \A b \in Accounts : b # a => acct'[b] = acct[b]
    PROVE  SubmitsForCurrentAccount'
<1>1. ASSUME NEW t \in Finalizes, task[t].pc \in LockedPC
      PROVE  Owner[task[t].order] \in Accounts /\ Owner[task[t].order] # a
  <2>1. task[t].order \in Orders /\ task[t].proc \in Procs
    BY <1>1 DEF TypeInv, TasksBound, LockedPC
  <2>2. task[t].proc = p
    BY <2>1 DEF SingleProcess
  <2>3. QED
    BY <1>1, <2>1, <2>2, ConstantsAssumption DEF LockFree
<1>2. QED
  BY <1>1 DEF SubmitsForCurrentAccount, Usable

-----------------------------------------------------------------------------
\* In a single process, a worker between its account check and the end of its
\* CA call works for an account that is valid and still has the key that
\* signed the finalize: a deactivation or keyChange answered with success is
\* not followed by a submission on the account's old authority.
THEOREM AccountLockLinearises ==
    ASSUME SingleProcess
    PROVE  Spec => []SubmitsForCurrentAccount
<1>1. Init => SubmitsForCurrentAccount
  BY DEF Init, SubmitsForCurrentAccount, Idle, LockedPC
<1>2. TypeInv /\ SubmitsForCurrentAccount /\ [Next]_vars => SubmitsForCurrentAccount'
  <2> SUFFICES ASSUME TypeInv, SubmitsForCurrentAccount, [Next]_vars
               PROVE  SubmitsForCurrentAccount'
    OBVIOUS
  <2>1. CASE UNCHANGED vars
    BY <2>1 DEF vars, SubmitsForCurrentAccount, Usable
  <2>2. CASE \E t \in Finalizes : WorkerAuthorize(t)
    BY <2>2, AuthorizeChecksAccount
  <2>3. ASSUME NEW p \in Procs, NEW a \in Accounts, DeactivateAccount(p, a)
        PROVE  SubmitsForCurrentAccount'
    BY <2>3, AccountWritesWaitForLock, SingleProcess DEF DeactivateAccount, TypeInv, TypeOK
  <2>4. ASSUME NEW p \in Procs, NEW a \in Accounts, NEW k \in Keys, KeyChange(p, a, k)
        PROVE  SubmitsForCurrentAccount'
    BY <2>4, AccountWritesWaitForLock, SingleProcess DEF KeyChange, TypeInv, TypeOK
  <2>5. ASSUME Next, KeepsLocked PROVE SubmitsForCurrentAccount'
    BY <2>5 DEF KeepsLocked, SubmitsForCurrentAccount, Usable
  <2>6. QED
    BY <2>1, <2>2, <2>3, <2>4, <2>5, QuietStepsKeepLocked
<1>3. QED
  BY <1>1, <1>2, TypeInvariant, PTL DEF Spec

-----------------------------------------------------------------------------
(* A 'valid' order serves a certificate of its own that the RA recorded    *)
(* and never rejected, for every number of processes.  Three writers close *)
(* orders (record_issuance, the finalize self-heal, reclaim), each with a  *)
(* certificate it read earlier: the invariant says such a reading stays    *)
(* true until it is used.                                                  *)

\* r is a certificate of order o that the RA honours, or honoured until it
\* was revoked.
Serves(r, o) == r \in Reqs /\ row[r] \in {"valid", "revoked"} /\ ca[r].order = o

RowsUsed == \A r \in Reqs : row[r] # "none" => Used(r)

ClaimsBelong ==
    \A t \in Finalizes : task[t].pc \in SubmittedPC =>
        /\ Used(task[t].req)
        /\ ca[task[t].req].order = task[t].order
        /\ task[t].pc = "recording" /\ task[t].seen # None =>
               Serves(task[t].seen, task[t].order)

ReclaimBelongs ==
    reclaim # None /\ reclaim.cert # None => Serves(reclaim.cert, reclaim.order)

RowInv == RowsUsed /\ ClaimsBelong /\ ReclaimBelongs /\ ValidOrderServesHonoured

-----------------------------------------------------------------------------
(* What a step may do to each part.                                        *)

\* No certificate stops being served, and no request changes its order.
RowsGrow ==
    /\ \A r \in Reqs : Used(r) => Used(r)' /\ ca'[r].order = ca[r].order
    /\ \A r \in Reqs : row[r] \in {"valid", "revoked"} => row'[r] \in {"valid", "revoked"}
    /\ \A r \in Reqs : row'[r] # "none" => Used(r)'

KeepsClaims ==
    \A t \in Finalizes : task'[t].pc \in SubmittedPC =>
        /\ task[t].pc \in SubmittedPC
        /\ task'[t].order = task[t].order /\ task'[t].req = task[t].req
        /\ task'[t].pc = "recording" => task[t].pc = "recording" /\ task'[t].seen = task[t].seen

KeepsReclaim == reclaim' = reclaim \/ reclaim' = None

KeepsValid ==
    \A o \in Orders : order'[o].status = "valid" =>
        order[o].status = "valid" /\ order'[o].cert = order[o].cert

\* The parts of the invariant are kept independently.
LEMMA PartsKept ==
    ASSUME TypeInv, RowInv, RowsGrow
    PROVE  /\ RowsUsed'
           /\ KeepsClaims => ClaimsBelong'
           /\ KeepsReclaim => ReclaimBelongs'
           /\ KeepsValid => ValidOrderServesHonoured'
<1>1. RowsUsed'
  BY DEF RowsGrow, RowsUsed
<1>2. ASSUME KeepsClaims PROVE ClaimsBelong'
  <2> SUFFICES ASSUME NEW t \in Finalizes, task'[t].pc \in SubmittedPC
               PROVE  /\ Used(task[t].req)'
                      /\ ca'[task'[t].req].order = task'[t].order
                      /\ task'[t].pc = "recording" /\ task'[t].seen # None =>
                             Serves(task[t].seen, task[t].order)'
    BY DEF ClaimsBelong
  <2>1. /\ task[t].pc \in SubmittedPC /\ task[t].req \in Reqs
        /\ task'[t].order = task[t].order /\ task'[t].req = task[t].req
    BY <1>2 DEF KeepsClaims, TypeInv, TasksBound
  <2>2. Used(task[t].req)' /\ ca'[task'[t].req].order = task'[t].order
    BY <2>1 DEF RowInv, ClaimsBelong, RowsGrow, Used
  <2>3. ASSUME task'[t].pc = "recording", task'[t].seen # None
        PROVE  Serves(task[t].seen, task[t].order)'
    <3>1. task'[t].seen = task[t].seen /\ Serves(task[t].seen, task[t].order)
      BY <1>2, <2>1, <2>3 DEF KeepsClaims, RowInv, ClaimsBelong
    <3>2. QED
      BY <2>1, <3>1 DEF RowInv, RowsUsed, RowsGrow, Serves
  <2>4. QED
    BY <2>2, <2>3
<1>3. ASSUME KeepsReclaim PROVE ReclaimBelongs'
  BY <1>3 DEF KeepsReclaim, RowInv, RowsUsed, ReclaimBelongs, RowsGrow, Serves
<1>4. ASSUME KeepsValid PROVE ValidOrderServesHonoured'
  BY <1>4 DEF KeepsValid, RowInv, RowsUsed, ValidOrderServesHonoured, RowsGrow
<1>5. QED
  BY <1>1, <1>2, <1>3, <1>4

\* A finalize request that ends claims nothing more.
LEMMA EndKeepsClaims ==
    ASSUME TypeInv, NEW t \in Finalizes, task' = [task EXCEPT ![t] = Idle]
    PROVE  KeepsClaims
BY DEF TypeInv, TypeOK, KeepsClaims, Idle, SubmittedPC

\* quarantine_certificate never overwrites a certificate the RA serves: its
\* INSERT fails when the order has a row.
LEMMA QuarantineGrowsRows ==
    ASSUME TypeInv, RowInv, NEW t \in Finalizes, task[t].pc \in SubmittedPC,
           Quarantine(task[t].req, task[t].order), ca' = ca
    PROVE  RowsGrow /\ KeepsValid
<1>1. task[t].req \in Reqs /\ Used(task[t].req) /\ ca[task[t].req].order = task[t].order
  BY DEF TypeInv, TasksBound, RowInv, ClaimsBelong
<1>2. row[task[t].req] = "none"
  BY <1>1 DEF Quarantine, RowsOf
<1>3. RowsGrow
  BY <1>1, <1>2 DEF Quarantine, RowsGrow, RowInv, RowsUsed, Used, TypeInv, TypeOK
<1>4. KeepsValid
  BY DEF Quarantine, KeepsValid, TypeInv, TypeOK, Order
<1>5. QED
  BY <1>3, <1>4

\* Every step of the system keeps the invariant.
LEMMA RowInvNext == TypeInv /\ RowInv /\ [Next]_vars => RowInv'
<1> SUFFICES ASSUME TypeInv, RowInv, [Next]_vars PROVE RowInv'
  OBVIOUS
<1> USE DEF storeVars
<1>1. ASSUME NEW o \in Orders, MaybeReadyOrder(o) PROVE RowInv'
  <2>1. KeepsValid
    BY <1>1 DEF MaybeReadyOrder, KeepsValid, TypeInv, TypeOK, Order
  <2>2. RowsGrow /\ KeepsClaims /\ KeepsReclaim
    BY <1>1 DEF MaybeReadyOrder, RowsGrow, RowInv, RowsUsed, Used,
       KeepsClaims, KeepsReclaim
  <2>3. QED
    BY <2>1, <2>2, PartsKept DEF RowInv
<1>2. ASSUME NEW o \in Orders, ExpireOrder(o) PROVE RowInv'
  <2>1. KeepsValid
    BY <1>2 DEF ExpireOrder, KeepsValid, TypeInv, TypeOK, Order
  <2>2. RowsGrow /\ KeepsClaims /\ KeepsReclaim
    BY <1>2 DEF ExpireOrder, RowsGrow, RowInv, RowsUsed, Used, KeepsClaims,
       KeepsReclaim
  <2>3. QED
    BY <2>1, <2>2, PartsKept DEF RowInv
<1>3. ASSUME NEW o \in Orders, FinalizeExistingCert(o) PROVE RowInv'
  <2>1. ValidOrderServesHonoured'
    <3>1. PICK r \in Reqs : /\ Serves(r, o) /\ row' = row /\ ca' = ca
                           /\ order' = [order EXCEPT ![o].status = "valid", ![o].cert = r]
      BY <1>3 DEF FinalizeExistingCert, HonouredOf, RowsOf, Serves, TypeInv, TypeOK, RowStatus
    <3>2. /\ order'[o].cert = r
          /\ \A q \in Orders : q # o => order'[q] = order[q]
      BY <3>1 DEF TypeInv, TypeOK, Order
    <3>3. ASSUME NEW q \in Orders, order'[q].status = "valid"
          PROVE  \E s \in Reqs : /\ order'[q].cert = s
                                 /\ ca'[s].order = q
                                 /\ row'[s] \in {"valid", "revoked"}
      <4>1. CASE q = o
        BY <3>1, <3>2, <4>1 DEF Serves
      <4>2. CASE q # o
        <5>1. order'[q] = order[q] /\ row' = row /\ ca' = ca
          BY <3>1, <3>2, <4>2
        <5>2. QED
          BY <3>3, <5>1 DEF RowInv, ValidOrderServesHonoured
      <4>3. QED
        BY <4>1, <4>2
    <3>4. QED
      BY <3>3 DEF ValidOrderServesHonoured
  <2>2. RowsGrow /\ KeepsClaims /\ KeepsReclaim
    BY <1>3 DEF FinalizeExistingCert, RowsGrow, RowInv, RowsUsed, Used,
       KeepsClaims, KeepsReclaim
  <2>3. QED
    BY <2>1, <2>2, PartsKept DEF RowInv
<1>4. ASSUME NEW p \in Procs, NEW a \in Accounts, DeactivateAccount(p, a) PROVE RowInv'
  <2>1. RowsGrow /\ KeepsClaims /\ KeepsReclaim /\ KeepsValid
    BY <1>4 DEF DeactivateAccount, RowsGrow, RowInv, RowsUsed, Used,
       KeepsClaims, KeepsReclaim, KeepsValid
  <2>2. QED
    BY <2>1, PartsKept DEF RowInv
<1>5. ASSUME NEW p \in Procs, NEW a \in Accounts, NEW k \in Keys, KeyChange(p, a, k) PROVE RowInv'
  <2>1. RowsGrow /\ KeepsClaims /\ KeepsReclaim /\ KeepsValid
    BY <1>5 DEF KeyChange, RowsGrow, RowInv, RowsUsed, Used, KeepsClaims,
       KeepsReclaim, KeepsValid
  <2>2. QED
    BY <2>1, PartsKept DEF RowInv
<1>6. ASSUME NEW t \in Finalizes, NEW p \in Procs, NEW o \in Orders, FinalizeRead(t, p, o) PROVE RowInv'
  <2>1. KeepsClaims
    BY <1>6 DEF FinalizeRead, KeepsClaims, TypeInv, TypeOK, Task, Idle,
       SubmittedPC
  <2>2. RowsGrow /\ KeepsReclaim /\ KeepsValid
    BY <1>6 DEF FinalizeRead, RowsGrow, RowInv, RowsUsed, Used, KeepsReclaim,
       KeepsValid
  <2>3. QED
    BY <2>1, <2>2, PartsKept DEF RowInv
<1>7. ASSUME NEW t \in Finalizes, FinalizeLosesLease(t) PROVE RowInv'
  <2>1. KeepsClaims
    BY <1>7, EndKeepsClaims DEF FinalizeLosesLease
  <2>2. RowsGrow /\ KeepsReclaim /\ KeepsValid
    BY <1>7 DEF FinalizeLosesLease, RowsGrow, RowInv, RowsUsed, Used,
       KeepsReclaim, KeepsValid
  <2>3. QED
    BY <2>1, <2>2, PartsKept DEF RowInv
<1>8. ASSUME NEW t \in Finalizes, LegUnavailable(t) PROVE RowInv'
  <2>1. KeepsClaims
    BY <1>8, EndKeepsClaims DEF LegUnavailable
  <2>2. RowsGrow /\ KeepsReclaim /\ KeepsValid
    BY <1>8 DEF LegUnavailable, RowsGrow, RowInv, RowsUsed, Used,
       KeepsReclaim, KeepsValid
  <2>3. QED
    BY <2>1, <2>2, PartsKept DEF RowInv
<1>9. ASSUME NEW t \in Finalizes, LegTransportError(t) PROVE RowInv'
  <2>1. KeepsClaims
    BY <1>9, EndKeepsClaims DEF LegTransportError
  <2>2. RowsGrow /\ KeepsReclaim /\ KeepsValid
    BY <1>9 DEF LegTransportError, RowsGrow, RowInv, RowsUsed, Used,
       KeepsReclaim, KeepsValid
  <2>3. QED
    BY <2>1, <2>2, PartsKept DEF RowInv
<1>10. ASSUME NEW t \in Finalizes, StoreRaises(t) PROVE RowInv'
  <2>1. KeepsClaims
    BY <1>10, EndKeepsClaims DEF StoreRaises
  <2>2. RowsGrow /\ KeepsReclaim /\ KeepsValid
    BY <1>10 DEF StoreRaises, RowsGrow, RowInv, RowsUsed, Used, KeepsReclaim,
       KeepsValid
  <2>3. QED
    BY <2>1, <2>2, PartsKept DEF RowInv
<1>11. ASSUME NEW t \in Finalizes, CompleteQuarantineFails(t) PROVE RowInv'
  <2>1. KeepsClaims
    BY <1>11, EndKeepsClaims DEF CompleteQuarantineFails
  <2>2. RowsGrow /\ KeepsReclaim /\ KeepsValid
    BY <1>11 DEF CompleteQuarantineFails, RowsGrow, RowInv, RowsUsed, Used,
       KeepsReclaim, KeepsValid
  <2>3. QED
    BY <2>1, <2>2, PartsKept DEF RowInv
<1>12. ASSUME NEW t \in Finalizes, CompleteRecordFails(t) PROVE RowInv'
  <2>1. KeepsClaims
    BY <1>12, EndKeepsClaims DEF CompleteRecordFails
  <2>2. RowsGrow /\ KeepsReclaim /\ KeepsValid
    BY <1>12 DEF CompleteRecordFails, RowsGrow, RowInv, RowsUsed, Used,
       KeepsReclaim, KeepsValid
  <2>3. QED
    BY <2>1, <2>2, PartsKept DEF RowInv
<1>13. ASSUME NEW t \in Finalizes, FinalizeAdmit(t) PROVE RowInv'
  <2>1. KeepsValid
    BY <1>13 DEF FinalizeAdmit, KeepsValid, TypeInv, TypeOK, Order
  <2>2. KeepsClaims
    BY <1>13 DEF FinalizeAdmit, KeepsClaims, TypeInv, TypeOK, Task, Idle,
       SubmittedPC
  <2>3. RowsGrow /\ KeepsReclaim
    BY <1>13 DEF FinalizeAdmit, RowsGrow, RowInv, RowsUsed, Used, KeepsReclaim
  <2>4. QED
    BY <2>1, <2>2, <2>3, PartsKept DEF RowInv
<1>14. ASSUME NEW t \in Finalizes, WorkerStart(t) PROVE RowInv'
  <2>1. KeepsClaims
    BY <1>14 DEF WorkerStart, KeepsClaims, TypeInv, TypeOK, Task, Idle,
       SubmittedPC
  <2>2. RowsGrow /\ KeepsReclaim /\ KeepsValid
    BY <1>14 DEF WorkerStart, RowsGrow, RowInv, RowsUsed, Used, KeepsReclaim,
       KeepsValid
  <2>3. QED
    BY <2>1, <2>2, PartsKept DEF RowInv
<1>15. ASSUME NEW t \in Finalizes, WorkerAuthorize(t) PROVE RowInv'
  <2>1. KeepsValid
    <3>1. \/ order' = order
          \/ order' = LeaveProcessing(task[t].order, task[t].gen, "ready")
      BY <1>15 DEF WorkerAuthorize
    <3>2. QED
      BY <3>1 DEF KeepsValid, LeaveProcessing, TypeInv, TypeOK, Order
  <2>2. KeepsClaims
    <3>1. \/ task' = [task EXCEPT ![t].pc = "authorized"]
          \/ task' = [task EXCEPT ![t] = Idle]
      BY <1>15 DEF WorkerAuthorize
    <3>2. QED
      BY <3>1, EndKeepsClaims DEF KeepsClaims, TypeInv, TypeOK, Task, SubmittedPC
  <2>3. RowsGrow /\ KeepsReclaim
    BY <1>15 DEF WorkerAuthorize, RowsGrow, RowInv, RowsUsed, Used,
       KeepsReclaim
  <2>4. QED
    BY <2>1, <2>2, <2>3, PartsKept DEF RowInv
<1>16. ASSUME NEW t \in Finalizes, WorkerCheckLease(t) PROVE RowInv'
  <2>1. KeepsClaims
    BY <1>16 DEF WorkerCheckLease, KeepsClaims, TypeInv, TypeOK, Task, Idle,
       SubmittedPC
  <2>2. RowsGrow /\ KeepsReclaim /\ KeepsValid
    BY <1>16 DEF WorkerCheckLease, RowsGrow, RowInv, RowsUsed, Used,
       KeepsReclaim, KeepsValid
  <2>3. QED
    BY <2>1, <2>2, PartsKept DEF RowInv
<1>17. ASSUME NEW t \in Finalizes, SubmitCsr(t) PROVE RowInv'
  <2>1. RowsGrow /\ ClaimsBelong'
    <3>1. PICK r \in Reqs :
            /\ ca[r].state = "unused"
            /\ ca' = [ca EXCEPT ![r].state = "sent", ![r].order = task[t].order,
                                ![r].gen = task[t].gen]
            /\ task' = [task EXCEPT ![t].pc = "calling", ![t].req = r]
      BY <1>17 DEF SubmitCsr
    <3>2. /\ Used(r)' /\ ca'[r].order = task[t].order
          /\ \A s \in Reqs : s # r => ca'[s] = ca[s]
      BY <3>1 DEF TypeInv, TypeOK, CaRequest, Used
    <3>3. /\ task'[t].pc = "calling" /\ task'[t].order = task[t].order /\ task'[t].req = r
          /\ \A u \in Finalizes : u # t => task'[u] = task[u]
      BY <3>1 DEF TypeInv, TypeOK, Task
    <3>4. row' = row
      BY <1>17 DEF SubmitCsr
    <3>5. RowsGrow
      BY <3>1, <3>2, <3>4 DEF RowsGrow, RowInv, RowsUsed, Used
    <3>6. \A u \in Finalizes : u # t /\ task[u].pc \in SubmittedPC =>
             task[u].req # r /\ task[u].req \in Reqs
      BY <3>1 DEF RowInv, ClaimsBelong, Used, TypeInv, TasksBound
    <3>8. ASSUME NEW u \in Finalizes, task'[u].pc \in SubmittedPC
          PROVE  /\ Used(task[u].req)' /\ ca'[task'[u].req].order = task'[u].order
                 /\ task'[u].pc = "recording" /\ task'[u].seen # None =>
                        Serves(task[u].seen, task[u].order)'
      <4>1. CASE u = t
        BY <3>2, <3>3, <4>1 DEF Used
      <4>2. CASE u # t
        <5>1. task'[u] = task[u] /\ task[u].req \in Reqs /\ task[u].req # r
          BY <3>3, <3>6, <3>8, <4>2
        <5>2. Used(task[u].req)' /\ ca'[task'[u].req].order = task'[u].order
          BY <3>2, <3>8, <5>1 DEF RowInv, ClaimsBelong, Used
        <5>3. ASSUME task'[u].pc = "recording", task'[u].seen # None
              PROVE  Serves(task[u].seen, task[u].order)'
          <6>1. Serves(task[u].seen, task[u].order)
            BY <3>8, <5>1, <5>3 DEF RowInv, ClaimsBelong
          <6>2. QED
            BY <3>1, <3>2, <3>4, <5>1, <6>1 DEF Serves, RowInv, RowsUsed, Used
        <5>4. QED
          BY <5>2, <5>3
      <4>3. QED
        BY <4>1, <4>2
    <3>9. QED
      BY <3>5, <3>8 DEF ClaimsBelong
  <2>2. KeepsReclaim /\ KeepsValid
    BY <1>17 DEF SubmitCsr, KeepsReclaim, KeepsValid
  <2>3. QED
    BY <2>1, <2>2, PartsKept DEF RowInv
<1>18. ASSUME NEW t \in Finalizes, LegReturns(t) PROVE RowInv'
  <2>1. KeepsClaims
    BY <1>18 DEF LegReturns, KeepsClaims, TypeInv, TypeOK, Task, Idle,
       SubmittedPC
  <2>2. RowsGrow /\ KeepsReclaim /\ KeepsValid
    BY <1>18 DEF LegReturns, RowsGrow, RowInv, RowsUsed, Used, KeepsReclaim,
       KeepsValid
  <2>3. QED
    BY <2>1, <2>2, PartsKept DEF RowInv
<1>19. ASSUME NEW t \in Finalizes, WorkerDenied(t) PROVE RowInv'
  <2>1. KeepsValid
    BY <1>19 DEF WorkerDenied, KeepsValid, TypeInv, TypeOK, Order,
       LeaveProcessing
  <2>2. KeepsClaims
    BY <1>19, EndKeepsClaims DEF WorkerDenied
  <2>3. RowsGrow /\ KeepsReclaim
    BY <1>19 DEF WorkerDenied, RowsGrow, RowInv, RowsUsed, Used, KeepsReclaim
  <2>4. QED
    BY <2>1, <2>2, <2>3, PartsKept DEF RowInv
<1>20. ASSUME NEW t \in Finalizes, WorkerTerminate(t) PROVE RowInv'
  <2>1. KeepsValid
    BY <1>20 DEF WorkerTerminate, KeepsValid, TypeInv, TypeOK, Order,
       LeaveProcessing
  <2>2. KeepsClaims
    BY <1>20, EndKeepsClaims DEF WorkerTerminate
  <2>3. RowsGrow /\ KeepsReclaim
    BY <1>20 DEF WorkerTerminate, RowsGrow, RowInv, RowsUsed, Used,
       KeepsReclaim
  <2>4. QED
    BY <2>1, <2>2, <2>3, PartsKept DEF RowInv
<1>21. ASSUME NEW t \in Finalizes, WorkerPending(t) PROVE RowInv'
  <2>1. KeepsValid
    BY <1>21 DEF WorkerPending, KeepsValid, TypeInv, TypeOK, Order
  <2>2. KeepsClaims
    BY <1>21, EndKeepsClaims DEF WorkerPending
  <2>3. RowsGrow /\ KeepsReclaim
    BY <1>21 DEF WorkerPending, RowsGrow, RowInv, RowsUsed, Used, KeepsReclaim
  <2>4. QED
    BY <2>1, <2>2, <2>3, PartsKept DEF RowInv
<1>22. ASSUME NEW t \in Finalizes, WorkerOrphan(t) PROVE RowInv'
  <2>1. RowsGrow /\ KeepsValid
    <3>1. task[t].pc \in SubmittedPC /\ ca' = ca
      BY <1>22 DEF WorkerOrphan, SubmittedPC
    <3>2. CASE Quarantine(task[t].req, task[t].order)
      BY <3>1, <3>2, QuarantineGrowsRows
    <3>3. CASE UNCHANGED <<row, order>>
      BY <3>1, <3>3 DEF RowsGrow, KeepsValid, RowInv, RowsUsed, Used
    <3>4. QED
      BY <1>22, <3>2, <3>3 DEF WorkerOrphan
  <2>2. KeepsClaims
    BY <1>22 DEF WorkerOrphan, KeepsClaims, TypeInv, TypeOK, Task, Idle,
       SubmittedPC
  <2>3. KeepsReclaim
    BY <1>22 DEF WorkerOrphan, KeepsReclaim
  <2>4. QED
    BY <2>1, <2>2, <2>3, PartsKept DEF RowInv
<1>23. ASSUME NEW t \in Finalizes, CompleteQuarantine(t) PROVE RowInv'
  <2>1. RowsGrow /\ KeepsValid
    BY <1>23, QuarantineGrowsRows DEF CompleteQuarantine, SubmittedPC
  <2>2. KeepsClaims
    BY <1>23, EndKeepsClaims DEF CompleteQuarantine
  <2>3. KeepsReclaim
    BY <1>23 DEF CompleteQuarantine, KeepsReclaim
  <2>4. QED
    BY <2>1, <2>2, <2>3, PartsKept DEF RowInv
<1>24. ASSUME NEW t \in Finalizes, CompleteRead(t) PROVE RowInv'
  <2>1. ClaimsBelong'
    <3>1. PICK s : /\ s = None \/ Serves(s, task[t].order)
                   /\ task' = [task EXCEPT ![t].pc = "recording", ![t].seen = s]
      BY <1>24 DEF CompleteRead, HonouredOf, RowsOf, Serves, TypeInv, TypeOK, RowStatus
    <3>2. /\ task'[t].pc = "recording" /\ task'[t].order = task[t].order
          /\ task'[t].req = task[t].req /\ task'[t].seen = s
          /\ \A u \in Finalizes : u # t => task'[u] = task[u]
      BY <3>1 DEF TypeInv, TypeOK, Task
    <3>3. row' = row /\ ca' = ca /\ task[t].pc \in SubmittedPC
      BY <1>24 DEF CompleteRead, SubmittedPC
    <3>4. ASSUME NEW u \in Finalizes, task'[u].pc \in SubmittedPC
          PROVE  /\ Used(task[u].req)' /\ ca'[task'[u].req].order = task'[u].order
                 /\ task'[u].pc = "recording" /\ task'[u].seen # None =>
                        Serves(task[u].seen, task[u].order)'
      <4>1. CASE u = t
        BY <3>1, <3>2, <3>3, <4>1 DEF ClaimsBelong, RowInv, Used, Serves
      <4>2. CASE u # t
        BY <3>2, <3>3, <3>4, <4>2 DEF ClaimsBelong, RowInv, Used, Serves
      <4>3. QED
        BY <4>1, <4>2
    <3>5. QED
      BY <3>4 DEF ClaimsBelong
  <2>2. RowsGrow /\ KeepsReclaim /\ KeepsValid
    BY <1>24 DEF CompleteRead, RowsGrow, RowInv, RowsUsed, Used, KeepsReclaim,
       KeepsValid
  <2>3. QED
    BY <2>1, <2>2, PartsKept DEF RowInv
<1>25. ASSUME NEW t \in Finalizes, CompleteRecord(t) PROVE RowInv'
  <2>1. /\ task[t].req \in Reqs /\ Used(task[t].req)
        /\ task[t].order \in Orders /\ ca[task[t].req].order = task[t].order
    BY <1>25 DEF CompleteRecord, TypeInv, TasksBound, RowInv, ClaimsBelong,
       SubmittedPC
  <2>2. RowsGrow
    BY <1>25, <2>1 DEF CompleteRecord, RowsGrow, RowInv, RowsUsed, Used,
       TypeInv, TypeOK
  <2>3. KeepsClaims
    BY <1>25, EndKeepsClaims DEF CompleteRecord
  <2>4. ValidOrderServesHonoured'
    <3> DEFINE c == IF task[t].seen = None THEN task[t].req ELSE task[t].seen
    <3>1. c \in Reqs /\ row'[c] \in {"valid", "revoked"} /\ ca'[c].order = task[t].order
      <4>1. CASE task[t].seen = None
        BY <1>25, <2>1, <4>1 DEF CompleteRecord, TypeInv, TypeOK
      <4>2. CASE task[t].seen # None
        <5>1. Serves(task[t].seen, task[t].order)
          BY <1>25, <4>2 DEF CompleteRecord, RowInv, ClaimsBelong, SubmittedPC
        <5>2. QED
          BY <1>25, <2>2, <4>2, <5>1 DEF CompleteRecord, RowsGrow, RowInv, RowsUsed, Serves
      <4>3. QED
        BY <4>1, <4>2
    <3>2. order' = order \/ order' = [order EXCEPT ![task[t].order].status = "valid",
                                                 ![task[t].order].cert = c]
      BY <1>25 DEF CompleteRecord
    <3>3. CASE order' = order
      BY <2>2, <3>3, PartsKept DEF KeepsValid
    <3>4. CASE order' = [order EXCEPT ![task[t].order].status = "valid",
                                      ![task[t].order].cert = c]
      <4> HIDE DEF c
      <4>1. /\ order'[task[t].order].cert = c
            /\ \A q \in Orders : q # task[t].order => order'[q] = order[q]
        BY <2>1, <3>4 DEF TypeInv, TypeOK, Order
      <4>2. ASSUME NEW q \in Orders, order'[q].status = "valid"
            PROVE  \E r \in Reqs : /\ order'[q].cert = r
                                   /\ ca'[r].order = q
                                   /\ row'[r] \in {"valid", "revoked"}
        <5>1. CASE q = task[t].order
          BY <3>1, <4>1, <5>1
        <5>2. CASE q # task[t].order
          BY <2>2, <4>1, <4>2, <5>2 DEF RowsGrow, RowInv, RowsUsed, ValidOrderServesHonoured
        <5>3. QED
          BY <5>1, <5>2
      <4>3. QED
        BY <4>2 DEF ValidOrderServesHonoured
    <3>5. QED
      BY <3>2, <3>3, <3>4
  <2>5. KeepsReclaim
    BY <1>25 DEF CompleteRecord, KeepsReclaim
  <2>6. QED
    BY <2>1, <2>2, <2>3, <2>4, <2>5, PartsKept DEF RowInv
<1>26. ASSUME NEW r \in Reqs, RevokeCert(r) PROVE RowInv'
  <2>1. RowsGrow
    BY <1>26 DEF RevokeCert, RowsGrow, RowInv, RowsUsed, Used, TypeInv, TypeOK
  <2>2. KeepsValid
    BY <1>26 DEF RevokeCert, KeepsValid, TypeInv, TypeOK, Order
  <2>3. KeepsClaims /\ KeepsReclaim
    BY <1>26 DEF RevokeCert, KeepsClaims, KeepsReclaim
  <2>4. QED
    BY <2>1, <2>2, <2>3, PartsKept DEF RowInv
<1>27. ASSUME NEW p \in Procs, NEW o \in Orders, ReclaimRead(p, o) PROVE RowInv'
  <2>1. ReclaimBelongs'
    BY <1>27 DEF ReclaimRead, ReclaimBelongs, Serves, HonouredOf, RowsOf,
       TypeInv, TypeOK, RowStatus
  <2>2. RowsGrow /\ KeepsClaims /\ KeepsValid
    BY <1>27 DEF ReclaimRead, RowsGrow, RowInv, RowsUsed, Used, KeepsClaims,
       KeepsValid
  <2>3. QED
    BY <2>1, <2>2, PartsKept DEF RowInv
<1>28. ASSUME ReclaimWrite PROVE RowInv'
  <2>1. reclaim \in Reclaim
    BY <1>28 DEF ReclaimWrite, TypeInv, TypeOK
  <2>2. ValidOrderServesHonoured'
    <3>1. row' = row /\ ca' = ca /\ reclaim.order \in Orders
      BY <1>28, <2>1 DEF ReclaimWrite, Reclaim
    <3>2. /\ \A q \in Orders : q # reclaim.order => order'[q] = order[q]
          /\ \/ order'[reclaim.order] = order[reclaim.order]
             \/ order'[reclaim.order].status # "valid"
             \/ reclaim.cert # None /\ order'[reclaim.order].cert = reclaim.cert
      BY <1>28, <3>1 DEF ReclaimWrite, TypeInv, TypeOK, Order
    <3>3. reclaim.cert # None => Serves(reclaim.cert, reclaim.order)
      BY <1>28 DEF ReclaimWrite, RowInv, ReclaimBelongs
    <3>4. QED
      BY <3>1, <3>2, <3>3 DEF ValidOrderServesHonoured, RowInv, Serves
  <2>3. RowsGrow /\ KeepsClaims /\ KeepsReclaim
    BY <1>28 DEF ReclaimWrite, RowsGrow, RowInv, RowsUsed, Used, KeepsClaims,
       KeepsReclaim
  <2>4. QED
    BY <2>1, <2>2, <2>3, PartsKept DEF RowInv
<1>29. ASSUME NEW r \in Reqs, CaDecides(r) PROVE RowInv'
  <2>1. RowsGrow
    BY <1>29 DEF CaDecides, RowsGrow, RowInv, RowsUsed, Used, TypeInv, TypeOK,
       CaRequest
  <2>2. KeepsClaims /\ KeepsReclaim /\ KeepsValid
    BY <1>29 DEF CaDecides, KeepsClaims, KeepsReclaim, KeepsValid
  <2>3. QED
    BY <2>1, <2>2, PartsKept DEF RowInv
<1>30. ASSUME NEW r \in Reqs, OfficerDecides(r) PROVE RowInv'
  <2>1. RowsGrow
    BY <1>30 DEF OfficerDecides, RowsGrow, RowInv, RowsUsed, Used, TypeInv,
       TypeOK, CaRequest
  <2>2. KeepsClaims /\ KeepsReclaim /\ KeepsValid
    BY <1>30 DEF OfficerDecides, KeepsClaims, KeepsReclaim, KeepsValid
  <2>3. QED
    BY <2>1, <2>2, PartsKept DEF RowInv
<1>31. ASSUME NEW r \in Reqs, OperatorRevokesAtCa(r) PROVE RowInv'
  <2>1. RowsGrow
    BY <1>31 DEF OperatorRevokesAtCa, RowsGrow, RowInv, RowsUsed, Used,
       TypeInv, TypeOK, CaRequest
  <2>2. KeepsClaims /\ KeepsReclaim /\ KeepsValid
    BY <1>31 DEF OperatorRevokesAtCa, KeepsClaims, KeepsReclaim, KeepsValid
  <2>3. QED
    BY <2>1, <2>2, PartsKept DEF RowInv
<1>32. ASSUME NEW p \in Procs, Restart(p) PROVE RowInv'
  <2>1. KeepsClaims
    BY <1>32 DEF Restart, KeepsClaims, TypeInv, TypeOK, Task, Idle,
       SubmittedPC
  <2>2. RowsGrow /\ KeepsReclaim /\ KeepsValid
    BY <1>32 DEF Restart, RowsGrow, RowInv, RowsUsed, Used, KeepsReclaim,
       KeepsValid
  <2>3. QED
    BY <2>1, <2>2, PartsKept DEF RowInv
<1>33. CASE UNCHANGED vars
  <2>1. RowsGrow /\ KeepsClaims /\ KeepsReclaim /\ KeepsValid
    BY <1>33 DEF vars, RowsGrow, RowInv, RowsUsed, Used, KeepsClaims, KeepsReclaim, KeepsValid
  <2>2. QED
    BY <2>1, PartsKept DEF RowInv
<1>34. QED
  BY <1>1, <1>2, <1>3, <1>4, <1>5, <1>6, <1>7, <1>8, <1>9, <1>10, <1>11,
     <1>12, <1>13, <1>14, <1>15, <1>16, <1>17, <1>18, <1>19, <1>20, <1>21,
     <1>22, <1>23, <1>24, <1>25, <1>26, <1>27, <1>28, <1>29, <1>30, <1>31,
     <1>32, <1>33 DEF Next, Route, Worker, Authority

-----------------------------------------------------------------------------
\* The row invariant holds in every reachable state.
LEMMA RowInvariant == Spec => []RowInv
<1>1. Init => RowInv
  BY DEF Init, RowInv, RowsUsed, ClaimsBelong, ReclaimBelongs, ValidOrderServesHonoured,
         Used, Idle, SubmittedPC
<1>2. QED
  BY <1>1, RowInvNext, TypeInvariant, PTL DEF Spec

\* A client is only ever pointed at a certificate of its own order that the RA
\* recorded and did not quarantine, for any number of processes racing to
\* record, reconcile, reclaim and revoke.
THEOREM ClientsGetHonouredCertificates == Spec => []ValidOrderServesHonoured
<1>1. RowInv => ValidOrderServesHonoured
  BY DEF RowInv
<1>2. QED
  BY <1>1, RowInvariant, PTL

-----------------------------------------------------------------------------
(* No double issuance and no lost certificate, in the supported deployment *)
(* of one process whose operator accounts for undecided requests before    *)
(* reopening an order.  The argument: the enrollment under way is the only *)
(* one of its order and holds its lease; every request of the order but    *)
(* its own is resolved; and an order leaves 'processing' only when what it *)
(* has at the CA is resolved, on a row, or named.                          *)

Supported == SingleProcess /\ OperatorChecksOutstanding

\* A request that is, or may yet become, a live certificate.
Outstanding(r) == ca[r].state \in {"sent", "pending", "issued"}

\* An enrollment holds the lease of its order until it lets go; only one that
\* is about to terminate may find that its quarantine has ended the order.
ActiveHolds ==
    \A t \in Finalizes : task[t].pc \in EnrollingPC =>
        /\ order[task[t].order].gen = task[t].gen
        /\ \/ order[task[t].order].status = "processing"
           \/ task[t].pc = "terminate" /\ order[task[t].order].status = "invalid"

OneActive ==
    \A t, u \in Finalizes :
        /\ task[t].pc \in EnrollingPC /\ task[u].pc \in EnrollingPC
        /\ task[t].order = task[u].order
        => t = u

\* What an order under enrollment has outstanding is the enrollment's own.
OthersResolved ==
    \A t \in Finalizes, r \in Reqs :
        task[t].pc \in EnrollingPC /\ Outstanding(r) /\ ca[r].order = task[t].order
            => task[t].pc \in SubmittedPC /\ task[t].req = r

\* What a worker has been told, or has written, is so.
AnswersTrue ==
    \A t \in Finalizes :
        /\ task[t].pc = "answered" /\ task[t].answer = "denied" =>
             ca[task[t].req].state = "denied"
        /\ task[t].pc = "terminate" => task[t].req \in named
        /\ task[t].pc = "recording" => task[t].seen = None

DenialsFinal == \A r \in Reqs : ca[r].disposition = "denied" => ca[r].state = "denied"

RequestsOwned == \A r \in Reqs : Used(r) => ca[r].order \in Orders

\* What the operator was shown still holds when the reclaim is written, unless
\* the lease is gone and the write does nothing.
ReclaimQuiet ==
    reclaim # None =>
        /\ reclaim.cert = None
        /\ reclaim.gen <= order[reclaim.order].gen
        /\ HoldsLease(reclaim.order, reclaim.gen) =>
             /\ \A t \in Finalizes : task[t].pc \in EnrollingPC => task[t].order # reclaim.order
             /\ \A r \in Reqs : ca[r].order = reclaim.order => ~Outstanding(r)

OneOutstanding ==
    \A r, s \in Reqs : Outstanding(r) /\ Outstanding(s) /\ ca[r].order = ca[s].order => r = s

Accounted ==
    \A r \in Reqs : Outstanding(r) =>
        row[r] # "none" \/ r \in named \/ order[ca[r].order].status = "processing"

\* The parts about the process, those about the CA, and those that relate the
\* CA and the tables.
ProcessInv == ActiveHolds /\ OneActive /\ AnswersTrue
CaInv == OthersResolved /\ DenialsFinal /\ RequestsOwned /\ OneOutstanding
TableInv == Accounted /\ ReopenedOrderIsClean /\ OrderAndRowAgree
IssuanceInv == ProcessInv /\ CaInv /\ ReclaimQuiet /\ TableInv
Inv == TypeInv /\ RowInv /\ IssuanceInv

-----------------------------------------------------------------------------
(* Steps that leave the tables of orders and certificates alone.           *)

KeepsOrders ==
    \A o \in Orders : /\ order'[o].status = order[o].status
                      /\ order'[o].gen = order[o].gen
                      /\ order'[o].cert = order[o].cert

\* No enrollment starts or submits; one may move on or end.
KeepsEnrollments ==
    \A t \in Finalizes : task'[t].pc \in EnrollingPC =>
        /\ task[t].pc \in EnrollingPC
        /\ task'[t].order = task[t].order /\ task'[t].gen = task[t].gen
        /\ task[t].pc \in SubmittedPC => task'[t].pc \in SubmittedPC /\ task'[t].req = task[t].req
        /\ task[t].pc = "terminate" => task'[t].pc = "terminate"

\* An enrollment has an order.
LEMMA EnrollingHasOrder ==
    ASSUME TypeInv, NEW t \in Finalizes, task[t].pc \in EnrollingPC
    PROVE  task[t].order \in Orders
BY DEF TypeInv, TasksBound, EnrollingPC, AdmittedPC, RunningPC, LockedPC

\* Submitted enrollments are enrollments.
LEMMA SubmittedIsEnrolling == SubmittedPC \subseteq EnrollingPC
BY DEF SubmittedPC, EnrollingPC, AdmittedPC, RunningPC, LockedPC

\* A step that only moves or ends enrollments keeps the invariant.
LEMMA QuietStep ==
    ASSUME Inv, KeepsOrders, row' = row, ca' = ca, named \subseteq named',
           KeepsReclaim, KeepsEnrollments, AnswersTrue'
    PROVE  IssuanceInv'
<1> USE DEF Inv
<1>1. ProcessInv'
  <2>1. ActiveHolds'
    BY EnrollingHasOrder DEF IssuanceInv, ProcessInv, ActiveHolds, KeepsEnrollments, KeepsOrders
  <2>2. OneActive'
    BY DEF IssuanceInv, ProcessInv, OneActive, KeepsEnrollments
  <2>3. QED
    BY <2>1, <2>2 DEF ProcessInv
<1>2. CaInv'
  <2>1. OthersResolved'
    BY DEF IssuanceInv, CaInv, OthersResolved, KeepsEnrollments, Outstanding
  <2>2. QED
    BY <2>1 DEF IssuanceInv, CaInv, DenialsFinal, RequestsOwned, OneOutstanding, Outstanding, Used
<1>3. ReclaimQuiet'
  <2>1. reclaim # None => reclaim.order \in Orders
    BY DEF TypeInv, TypeOK, Reclaim
  <2>2. QED
    BY <2>1 DEF IssuanceInv, ReclaimQuiet, KeepsReclaim, KeepsOrders, KeepsEnrollments,
       HoldsLease, Outstanding
<1>4. TableInv'
  <2>1. \A r \in Reqs : Outstanding(r) \/ row[r] # "none" => ca[r].order \in Orders
    BY DEF IssuanceInv, CaInv, RequestsOwned, RowInv, RowsUsed, Used, Outstanding
  <2>2. Accounted'
    BY <2>1 DEF IssuanceInv, TableInv, Accounted, KeepsOrders, Outstanding
  <2>3. ReopenedOrderIsClean'
    BY DEF IssuanceInv, TableInv, ReopenedOrderIsClean, KeepsOrders
  <2>4. OrderAndRowAgree'
    BY <2>1 DEF IssuanceInv, TableInv, OrderAndRowAgree, KeepsOrders
  <2>5. QED
    BY <2>2, <2>3, <2>4 DEF TableInv
<1>5. QED
  BY <1>1, <1>2, <1>3, <1>4 DEF IssuanceInv

\* A step of the CA that makes nothing outstanding keeps it too.
LEMMA CaStep ==
    ASSUME Inv, UNCHANGED <<order, row, named, task, reclaim>>,
           \A r \in Reqs : /\ Outstanding(r)' => Outstanding(r)
                           /\ Used(r)' => Used(r)
                           /\ ca'[r].order = ca[r].order
                           /\ ca[r].state = "denied" => ca'[r].state = "denied",
           DenialsFinal'
    PROVE  IssuanceInv'
<1> USE DEF Inv
<1>1. ProcessInv'
  <2>1. AnswersTrue'
    BY DEF IssuanceInv, ProcessInv, AnswersTrue, TypeInv, TasksBound, SubmittedPC
  <2>2. QED
    BY <2>1 DEF IssuanceInv, ProcessInv, ActiveHolds, OneActive
<1>2. CaInv'
  <2>1. OthersResolved'
    BY DEF IssuanceInv, CaInv, OthersResolved
  <2>2. OneOutstanding'
    BY DEF IssuanceInv, CaInv, OneOutstanding
  <2>3. QED
    BY <2>1, <2>2 DEF IssuanceInv, CaInv, RequestsOwned
<1>3. ReclaimQuiet'
  BY DEF IssuanceInv, ReclaimQuiet, HoldsLease
<1>4. TableInv'
  <2>1. Accounted'
    BY DEF IssuanceInv, TableInv, Accounted
  <2>2. ReopenedOrderIsClean'
    BY DEF IssuanceInv, TableInv, ReopenedOrderIsClean, Outstanding
  <2>3. OrderAndRowAgree'
    BY DEF IssuanceInv, TableInv, OrderAndRowAgree
  <2>4. QED
    BY <2>1, <2>2, <2>3 DEF TableInv
<1>5. QED
  BY <1>1, <1>2, <1>3, <1>4 DEF IssuanceInv

\* Enrollment places, spelled out.
LEMMA Places ==
    /\ EnrollingPC = {"queued", "locking", "authorized", "submit", "calling", "answered",
                      "terminate", "returned", "recording"}
    /\ SubmittedPC = {"calling", "answered", "terminate", "returned", "recording"}
BY DEF EnrollingPC, AdmittedPC, RunningPC, LockedPC, SubmittedPC

\* A finalize request that ends leaves the others as they are.
LEMMA TaskEnded ==
    ASSUME TypeInv, AnswersTrue, NEW t \in Finalizes, task' = [task EXCEPT ![t] = Idle],
           ca' = ca, named \subseteq named'
    PROVE  /\ KeepsEnrollments /\ AnswersTrue'
           /\ task'[t].pc \notin EnrollingPC
           /\ \A u \in Finalizes : u # t => task'[u] = task[u]
<1>1. /\ task'[t].pc = "idle"
      /\ \A u \in Finalizes : u # t => task'[u] = task[u]
  BY DEF TypeInv, TypeOK, Idle
<1>2. KeepsEnrollments
  BY <1>1, Places DEF KeepsEnrollments
<1>3. AnswersTrue'
  BY <1>1 DEF AnswersTrue
<1>4. QED
  BY <1>1, <1>2, <1>3, Places

\* A finalize request may end at any point with nothing but an audit row.
LEMMA EndStep ==
    ASSUME Inv, NEW t \in Finalizes, task' = [task EXCEPT ![t] = Idle], KeepsOrders,
           row' = row, ca' = ca, named \subseteq named', reclaim' = reclaim
    PROVE  IssuanceInv'
BY TaskEnded, QuietStep DEF Inv, IssuanceInv, ProcessInv, KeepsReclaim

\* A worker may go on to its next place.
LEMMA MoveStep ==
    ASSUME Inv, NEW t \in Finalizes, NEW q,
           \/ task[t].pc = "queued" /\ q = "locking"
           \/ task[t].pc = "locking" /\ q = "authorized"
           \/ task[t].pc = "authorized" /\ q = "submit"
           \/ task[t].pc = "answered" /\ q = "terminate" /\ task[t].req \in named',
           task' = [task EXCEPT ![t].pc = q], KeepsOrders,
           row' = row, ca' = ca, named \subseteq named', reclaim' = reclaim
    PROVE  IssuanceInv'
<1>1. /\ task'[t].pc = q /\ task'[t].order = task[t].order /\ task'[t].gen = task[t].gen
      /\ task'[t].req = task[t].req
      /\ \A u \in Finalizes : u # t => task'[u] = task[u]
  BY DEF Inv, TypeInv, TypeOK, Task
<1>2. KeepsEnrollments
  BY <1>1, Places DEF KeepsEnrollments
<1>3. AnswersTrue'
  BY <1>1 DEF AnswersTrue, Inv, IssuanceInv, ProcessInv
<1>4. QED
  BY <1>2, <1>3, QuietStep DEF KeepsReclaim

\* No enrollment of an order but t's, when t is one.
LEMMA AloneOnOrder ==
    ASSUME Inv, NEW t \in Finalizes, task[t].pc \in EnrollingPC, KeepsEnrollments,
           task'[t].pc \notin EnrollingPC
    PROVE  \A u \in Finalizes : task'[u].pc \in EnrollingPC => task'[u].order # task[t].order
BY DEF Inv, IssuanceInv, ProcessInv, OneActive, KeepsEnrollments

\* An order may be reopened, or ended, when no enrollment of it remains and
\* what it has at the CA is resolved or, if it ends, named.
LEMMA OrderLeaves ==
    ASSUME Inv, NEW o \in Orders, order[o].status \in {"pending", "ready", "processing"},
           \A q \in Orders : q # o => order'[q] = order[q],
           order'[o].gen = order[o].gen, order'[o].status \in {"ready", "invalid"},
           row' = row, ca' = ca, named \subseteq named', KeepsReclaim,
           KeepsEnrollments, AnswersTrue',
           \A t \in Finalizes : task'[t].pc \in EnrollingPC => task'[t].order # o,
           \A r \in Reqs : Outstanding(r) /\ ca[r].order = o =>
               order'[o].status = "invalid" /\ r \in named'
    PROVE  IssuanceInv'
<1> USE DEF Inv
<1>1. ProcessInv'
  <2>1. ActiveHolds'
    BY EnrollingHasOrder DEF IssuanceInv, ProcessInv, ActiveHolds, KeepsEnrollments
  <2>2. OneActive'
    BY DEF IssuanceInv, ProcessInv, OneActive, KeepsEnrollments
  <2>3. QED
    BY <2>1, <2>2 DEF ProcessInv
<1>2. CaInv'
  <2>1. OthersResolved'
    BY DEF IssuanceInv, CaInv, OthersResolved, KeepsEnrollments, Outstanding
  <2>2. QED
    BY <2>1 DEF IssuanceInv, CaInv, DenialsFinal, RequestsOwned, OneOutstanding, Outstanding, Used
<1>3. ReclaimQuiet'
  <2>1. reclaim # None => reclaim.order \in Orders
    BY DEF TypeInv, TypeOK, Reclaim
  <2>2. QED
    BY <2>1 DEF IssuanceInv, ReclaimQuiet, KeepsReclaim, KeepsEnrollments,
       HoldsLease, Outstanding
<1>4. TableInv'
  <2>1. \A r \in Reqs : Outstanding(r) \/ row[r] # "none" => ca[r].order \in Orders
    BY DEF IssuanceInv, CaInv, RequestsOwned, RowInv, RowsUsed, Used, Outstanding
  <2>2. Accounted'
    BY <2>1 DEF IssuanceInv, TableInv, Accounted, Outstanding
  <2>3. ReopenedOrderIsClean'
    BY DEF IssuanceInv, TableInv, ReopenedOrderIsClean, Outstanding
  <2>4. \A r \in Reqs : row[r] # "none" => ca[r].order # o
    BY DEF IssuanceInv, TableInv, OrderAndRowAgree, TypeInv, TypeOK, RowStatus
  <2>5. OrderAndRowAgree'
    BY <2>1, <2>4 DEF IssuanceInv, TableInv, OrderAndRowAgree
  <2>6. QED
    BY <2>2, <2>3, <2>5 DEF TableInv
<1>5. QED
  BY <1>1, <1>2, <1>3, <1>4 DEF IssuanceInv

\* A worker that holds its lease may let go of it when its own request, the
\* only one that may be outstanding, is resolved or named.
LEMMA WorkerLeaves ==
    ASSUME Inv, NEW t \in Finalizes, task[t].pc \in EnrollingPC,
           NEW s \in {"ready", "invalid"},
           order' = LeaveProcessing(task[t].order, task[t].gen, s),
           task' = [task EXCEPT ![t] = Idle],
           UNCHANGED <<row, named, ca, reclaim>>,
           task[t].pc \in SubmittedPC /\ Outstanding(task[t].req) =>
               s = "invalid" /\ task[t].req \in named
    PROVE  IssuanceInv'
<1> USE DEF Inv
<1>1. task[t].order \in Orders
  BY EnrollingHasOrder
<1>2. /\ KeepsEnrollments /\ AnswersTrue' /\ KeepsReclaim
      /\ task'[t].pc \notin EnrollingPC
  BY TaskEnded DEF IssuanceInv, ProcessInv, KeepsReclaim
<1>3. CASE HoldsLease(task[t].order, task[t].gen)
  <2>1. /\ order'[task[t].order].status = s
        /\ order'[task[t].order].gen = order[task[t].order].gen
        /\ \A q \in Orders : q # task[t].order => order'[q] = order[q]
    BY <1>1, <1>3 DEF LeaveProcessing, TypeInv, TypeOK, Order
  <2>2. order[task[t].order].status = "processing"
    BY <1>3 DEF HoldsLease
  <2>3. \A r \in Reqs : Outstanding(r) /\ ca[r].order = task[t].order =>
            s = "invalid" /\ r \in named
    BY DEF IssuanceInv, CaInv, OthersResolved
  <2>4. QED
    BY <1>1, <1>2, <2>1, <2>2, <2>3, AloneOnOrder, OrderLeaves
<1>4. CASE ~HoldsLease(task[t].order, task[t].gen)
  <2>1. KeepsOrders
    BY <1>4 DEF LeaveProcessing, KeepsOrders, TypeInv, TypeOK, Order
  <2>2. QED
    BY <2>1, EndStep
<1>5. QED
  BY <1>3, <1>4

\* An order under enrollment has no row but, possibly, a quarantined one.
LEMMA EnrollingHasNoRow ==
    ASSUME Inv, NEW t \in Finalizes, task[t].pc \in EnrollingPC, task[t].pc # "terminate"
    PROVE  /\ HoldsLease(task[t].order, task[t].gen)
           /\ RowsOf(task[t].order) = {}
<1>1. HoldsLease(task[t].order, task[t].gen)
  BY DEF Inv, IssuanceInv, ProcessInv, ActiveHolds, HoldsLease
<1>2. QED
  BY <1>1 DEF Inv, IssuanceInv, TableInv, OrderAndRowAgree, HoldsLease, RowsOf, TypeInv,
     TypeOK, RowStatus

\* The POST of a CSR: the lease was acquired on an order with nothing at the CA.
LEMMA SubmitKeeps ==
    ASSUME Inv, NEW t \in Finalizes, SubmitCsr(t)
    PROVE  IssuanceInv'
<1> USE DEF Inv
<1>1. PICK r \in Reqs :
        /\ ca[r].state = "unused"
        /\ ca' = [ca EXCEPT ![r].state = "sent", ![r].order = task[t].order,
                            ![r].gen = task[t].gen]
        /\ task' = [task EXCEPT ![t].pc = "calling", ![t].req = r]
  BY DEF SubmitCsr
<1>2. /\ ca'[r].state = "sent" /\ ca'[r].order = task[t].order
      /\ ca'[r].disposition = ca[r].disposition
      /\ \A s \in Reqs : s # r => ca'[s] = ca[s]
  BY <1>1 DEF TypeInv, TypeOK, CaRequest
<1>3. /\ task'[t].pc = "calling" /\ task'[t].order = task[t].order
      /\ task'[t].gen = task[t].gen /\ task'[t].req = r
      /\ \A u \in Finalizes : u # t => task'[u] = task[u]
  BY <1>1 DEF TypeInv, TypeOK, Task
<1>4. task[t].pc = "submit" /\ UNCHANGED <<order, row, named, reclaim>>
  BY DEF SubmitCsr, storeVars
<1>5. /\ task[t].order \in Orders /\ HoldsLease(task[t].order, task[t].gen)
      /\ task[t].pc \in EnrollingPC
  BY <1>4, Places, EnrollingHasOrder, EnrollingHasNoRow
<1>6. \A s \in Reqs : Outstanding(s) => ca[s].order # task[t].order /\ s # r
  BY <1>1, <1>4, Places DEF IssuanceInv, CaInv, OthersResolved, Outstanding
<1>7. \A s \in Reqs : Outstanding(s)' <=> Outstanding(s) \/ s = r
  BY <1>2 DEF Outstanding
<1>8. ProcessInv'
  <2>1. ActiveHolds'
    BY <1>3, <1>4, <1>5, Places DEF IssuanceInv, ProcessInv, ActiveHolds
  <2>2. OneActive'
    BY <1>3, <1>5, Places DEF IssuanceInv, ProcessInv, OneActive
  <2>3. \A u \in Finalizes : task[u].pc \in SubmittedPC => task[u].req # r /\ task[u].req \in Reqs
    BY <1>1 DEF RowInv, ClaimsBelong, Used, TypeInv, TasksBound
  <2>4. AnswersTrue'
    BY <1>2, <1>3, <1>4, <2>3, Places DEF IssuanceInv, ProcessInv, AnswersTrue
  <2>5. QED
    BY <2>1, <2>2, <2>4 DEF ProcessInv
<1>9. CaInv'
  <2>1. OthersResolved'
    <3> SUFFICES ASSUME NEW u \in Finalizes, NEW s \in Reqs, task'[u].pc \in EnrollingPC,
                        Outstanding(s)', ca'[s].order = task'[u].order
                 PROVE  task'[u].pc \in SubmittedPC /\ task'[u].req = s
      BY DEF OthersResolved
    <3>1. CASE s = r
      <4>1. u = t
        BY <1>2, <1>3, <1>5, <3>1 DEF IssuanceInv, ProcessInv, OneActive
      <4>2. QED
        BY <1>3, <3>1, <4>1, Places
    <3>2. CASE s # r
      BY <1>2, <1>3, <1>6, <1>7, <3>2 DEF IssuanceInv, CaInv, OthersResolved
    <3>3. QED
      BY <3>1, <3>2
  <2>2. DenialsFinal'
    BY <1>1, <1>2 DEF IssuanceInv, CaInv, DenialsFinal
  <2>3. RequestsOwned'
    BY <1>2, <1>5 DEF IssuanceInv, CaInv, RequestsOwned, Used
  <2>4. OneOutstanding'
    BY <1>2, <1>6, <1>7 DEF IssuanceInv, CaInv, OneOutstanding
  <2>5. QED
    BY <2>1, <2>2, <2>3, <2>4 DEF CaInv
<1>10. ReclaimQuiet'
  BY <1>2, <1>3, <1>4, <1>5, <1>7 DEF IssuanceInv, ReclaimQuiet, HoldsLease
<1>11. TableInv'
  <2>1. Accounted'
    BY <1>2, <1>4, <1>5, <1>7 DEF IssuanceInv, TableInv, Accounted, HoldsLease
  <2>2. ReopenedOrderIsClean'
    BY <1>2, <1>4, <1>5, <1>7 DEF IssuanceInv, TableInv, ReopenedOrderIsClean, HoldsLease
  <2>3. row[r] = "none"
    BY <1>1 DEF RowInv, RowsUsed, Used
  <2>4. OrderAndRowAgree'
    BY <1>2, <1>4, <2>3 DEF IssuanceInv, TableInv, OrderAndRowAgree
  <2>5. QED
    BY <2>1, <2>2, <2>4 DEF TableInv
<1>12. QED
  BY <1>8, <1>9, <1>10, <1>11 DEF IssuanceInv

\* The minting of a lease: a 'ready' order has no enrollment and nothing at the
\* CA, and the new generation is above the one a pending reclaim has read.
LEMMA AdmitKeeps ==
    ASSUME Inv, NEW t \in Finalizes, FinalizeAdmit(t)
    PROVE  IssuanceInv'
<1> USE DEF Inv
<1> DEFINE o == task[t].order
           g == NextGeneration(o)
<1>1. o \in Orders /\ order[o].status = "ready" /\ UNCHANGED <<row, named, ca, reclaim>>
  BY DEF FinalizeAdmit, TypeInv, TasksBound
<1>2. /\ order'[o].gen = g /\ order'[o].status \in {"ready", "processing"}
      /\ \A q \in Orders : q # o => order'[q] = order[q]
  BY <1>1 DEF FinalizeAdmit, TypeInv, TypeOK, Order
<1>3. order[o].gen \in Nat /\ g = order[o].gen + 1
  BY <1>1, ConstantsAssumption DEF NextGeneration, TypeInv, TypeOK, Order
<1>4. /\ \/ task'[t].pc = "idle"
         \/ /\ task'[t].pc = "queued" /\ task'[t].order = o /\ task'[t].gen = g
            /\ order'[o].status = "processing"
      /\ \A u \in Finalizes : u # t => task'[u] = task[u]
  BY <1>1 DEF FinalizeAdmit, TypeInv, TypeOK, Task, Order, Idle
<1> HIDE DEF g
<1>5. \A u \in Finalizes : task[u].pc \in EnrollingPC => task[u].order # o
  BY <1>1 DEF IssuanceInv, ProcessInv, ActiveHolds
<1>6. \A r \in Reqs : ca[r].order = o => ~Outstanding(r) /\ row[r] = "none"
  BY <1>1 DEF IssuanceInv, TableInv, ReopenedOrderIsClean, OrderAndRowAgree, Outstanding,
     TypeInv, TypeOK, RowStatus
<1> HIDE DEF o
<1>7. ProcessInv'
  <2>1. ActiveHolds'
    BY <1>2, <1>4, <1>5, EnrollingHasOrder, Places DEF IssuanceInv, ProcessInv, ActiveHolds
  <2>2. OneActive'
    BY <1>4, <1>5, Places DEF IssuanceInv, ProcessInv, OneActive
  <2>3. AnswersTrue'
    BY <1>1, <1>4 DEF IssuanceInv, ProcessInv, AnswersTrue
  <2>4. QED
    BY <2>1, <2>2, <2>3 DEF ProcessInv
<1>8. CaInv'
  <2>1. OthersResolved'
    BY <1>1, <1>4, <1>6, Places DEF IssuanceInv, CaInv, OthersResolved, Outstanding
  <2>2. QED
    BY <1>1, <2>1 DEF IssuanceInv, CaInv, DenialsFinal, RequestsOwned, OneOutstanding,
       Outstanding, Used
<1>9. ReclaimQuiet'
  <2>1. reclaim # None => reclaim.order \in Orders /\ reclaim.gen \in Nat
    BY ConstantsAssumption DEF TypeInv, TypeOK, Reclaim
  <2>2. CASE reclaim # None /\ reclaim.order = o
    <3>1. reclaim.gen <= order[o].gen /\ reclaim.cert = None
      BY <2>2 DEF IssuanceInv, ReclaimQuiet
    <3>2. reclaim.gen <= order'[o].gen /\ reclaim.gen # order'[o].gen
      BY <1>2, <1>3, <2>1, <2>2, <3>1
    <3>3. QED
      BY <1>1, <2>2, <3>1, <3>2 DEF ReclaimQuiet, HoldsLease
  <2>3. CASE reclaim # None /\ reclaim.order # o
    <3>1. order'[reclaim.order] = order[reclaim.order]
      BY <1>2, <2>1, <2>3
    <3>2. \A u \in Finalizes : task'[u].pc \in EnrollingPC =>
             task'[u].order = o \/ task'[u] = task[u]
      BY <1>4, Places
    <3>3. QED
      BY <1>1, <2>3, <3>1, <3>2 DEF IssuanceInv, ReclaimQuiet, HoldsLease, Outstanding
  <2>4. QED
    BY <1>1, <2>2, <2>3 DEF ReclaimQuiet
<1>10. TableInv'
  <2>1. \A r \in Reqs : Outstanding(r) \/ row[r] # "none" =>
            ca[r].order \in Orders /\ ca[r].order # o
    BY <1>6 DEF IssuanceInv, CaInv, RequestsOwned, RowInv, RowsUsed, Used, Outstanding
  <2>2. Accounted'
    BY <1>1, <1>2, <2>1 DEF IssuanceInv, TableInv, Accounted, Outstanding
  <2>3. ReopenedOrderIsClean'
    BY <1>1, <1>2, <1>6 DEF IssuanceInv, TableInv, ReopenedOrderIsClean, Outstanding
  <2>4. OrderAndRowAgree'
    BY <1>1, <1>2, <2>1 DEF IssuanceInv, TableInv, OrderAndRowAgree
  <2>5. QED
    BY <2>2, <2>3, <2>4 DEF TableInv
<1>11. QED
  BY <1>7, <1>8, <1>9, <1>10 DEF IssuanceInv

\* An order ends with a row: the enrollment's certificate is recorded or
\* quarantined, and named either way.
LEMMA OrderEndsWithRow ==
    ASSUME Inv, NEW t \in Finalizes, task[t].pc \in SubmittedPC, task[t].pc # "terminate",
           \A q \in Orders : q # task[t].order => order'[q] = order[q],
           order'[task[t].order].gen = order[task[t].order].gen,
           \/ /\ order'[task[t].order].status = "invalid"
              /\ row' = [row EXCEPT ![task[t].req] = "quarantined"]
           \/ /\ order'[task[t].order].status = "valid"
              /\ order'[task[t].order].cert = task[t].req
              /\ row' = [row EXCEPT ![task[t].req] = "valid"],
           ca' = ca, named' = named \cup {task[t].req}, reclaim' = reclaim,
           KeepsEnrollments, AnswersTrue',
           task'[t].pc \in EnrollingPC =>
               task'[t].pc = "terminate" /\ order'[task[t].order].status = "invalid"
    PROVE  IssuanceInv'
<1> USE DEF Inv
<1> DEFINE o == task[t].order
           r == task[t].req
<1>1. /\ o \in Orders /\ r \in Reqs /\ ca[r].order = o
      /\ task[t].pc \in EnrollingPC
      /\ HoldsLease(o, task[t].gen) /\ RowsOf(o) = {}
  BY SubmittedIsEnrolling, EnrollingHasOrder, EnrollingHasNoRow
     DEF TypeInv, TasksBound, RowInv, ClaimsBelong
<1>2. \A u \in Finalizes : u # t /\ task'[u].pc \in EnrollingPC => task'[u].order # o
  BY <1>1 DEF IssuanceInv, ProcessInv, OneActive, KeepsEnrollments
<1>3. \A s \in Reqs : Outstanding(s) /\ ca[s].order = o => s = r
  BY <1>1 DEF IssuanceInv, CaInv, OthersResolved
<1>4. \A s \in Reqs : s # r => row'[s] = row[s]
  BY <1>1 DEF TypeInv, TypeOK
<1>5. row'[r] \in {"valid", "quarantined"}
  BY <1>1 DEF TypeInv, TypeOK
<1>6. \A s \in Reqs : s # r /\ row[s] # "none" => ca[s].order # o
  BY <1>1 DEF RowsOf
<1>7. order'[o].status \in {"valid", "invalid"}
  OBVIOUS
<1>8. ProcessInv'
  <2>1. ActiveHolds'
    <3> SUFFICES ASSUME NEW u \in Finalizes, task'[u].pc \in EnrollingPC
                 PROVE  /\ order'[task'[u].order].gen = task'[u].gen
                        /\ \/ order'[task'[u].order].status = "processing"
                           \/ /\ task'[u].pc = "terminate"
                              /\ order'[task'[u].order].status = "invalid"
      BY DEF ActiveHolds
    <3>1. /\ task[u].pc \in EnrollingPC /\ task'[u].order = task[u].order
          /\ task'[u].gen = task[u].gen /\ task[u].order \in Orders
      BY EnrollingHasOrder DEF KeepsEnrollments
    <3>2. CASE u = t
      BY <1>1, <3>1, <3>2 DEF HoldsLease
    <3>3. CASE u # t
      BY <1>2, <3>1, <3>3 DEF IssuanceInv, ProcessInv, ActiveHolds, KeepsEnrollments
    <3>4. QED
      BY <3>2, <3>3
  <2>2. OneActive'
    BY DEF IssuanceInv, ProcessInv, OneActive, KeepsEnrollments
  <2>3. QED
    BY <2>1, <2>2 DEF ProcessInv
<1>9. CaInv'
  <2>1. OthersResolved'
    BY DEF IssuanceInv, CaInv, OthersResolved, KeepsEnrollments, Outstanding
  <2>2. QED
    BY <2>1 DEF IssuanceInv, CaInv, DenialsFinal, RequestsOwned, OneOutstanding, Outstanding, Used
<1>10. ReclaimQuiet'
  <2>1. reclaim # None => reclaim.order \in Orders
    BY DEF TypeInv, TypeOK, Reclaim
  <2>2. QED
    BY <1>7, <2>1 DEF IssuanceInv, ReclaimQuiet, KeepsEnrollments, HoldsLease, Outstanding
<1>11. TableInv'
  <2>1. \A s \in Reqs : Outstanding(s) \/ row[s] # "none" => ca[s].order \in Orders
    BY DEF IssuanceInv, CaInv, RequestsOwned, RowInv, RowsUsed, Used, Outstanding
  <2>2. Accounted'
    BY <1>3, <1>4, <2>1 DEF IssuanceInv, TableInv, Accounted, Outstanding
  <2>3. ReopenedOrderIsClean'
    BY <1>7 DEF IssuanceInv, TableInv, ReopenedOrderIsClean
  <2>4. OrderAndRowAgree'
    <3> SUFFICES ASSUME NEW s \in Reqs
                 PROVE  LET q == ca'[s].order IN
                        /\ row'[s] = "valid" => order'[q].status = "valid" /\ order'[q].cert = s
                        /\ row'[s] = "revoked" => order'[q].status = "revoked"
                        /\ row'[s] = "quarantined" => order'[q].status = "invalid"
      BY DEF OrderAndRowAgree
    <3>1. CASE s = r
      BY <1>1, <3>1 DEF TypeInv, TypeOK
    <3>2. CASE s # r
      BY <1>4, <1>6, <2>1, <3>2 DEF IssuanceInv, TableInv, OrderAndRowAgree
    <3>3. QED
      BY <3>1, <3>2
  <2>5. QED
    BY <2>2, <2>3, <2>4 DEF TableInv
<1>12. QED
  BY <1>8, <1>9, <1>10, <1>11 DEF IssuanceInv

\* Revocation of a recorded certificate: the order it closed follows it.
LEMMA RevokeKeeps ==
    ASSUME Inv, NEW r \in Reqs, RevokeCert(r)
    PROVE  IssuanceInv'
<1> USE DEF Inv
<1> DEFINE o == ca[r].order
<1>1. /\ row[r] = "valid" /\ UNCHANGED <<named, ca, task, reclaim>>
      /\ row' = [row EXCEPT ![r] = "revoked"]
      /\ order[o].status = "valid" /\ order[o].cert = r /\ o \in Orders
  BY DEF RevokeCert, IssuanceInv, TableInv, OrderAndRowAgree, CaInv, RequestsOwned, RowInv,
     RowsUsed
<1>2. /\ order'[o].status = "revoked" /\ order'[o].gen = order[o].gen
      /\ \A q \in Orders : q # o => order'[q] = order[q]
  BY <1>1 DEF RevokeCert, TypeInv, TypeOK, Order
<1>3. row'[r] = "revoked" /\ \A s \in Reqs : s # r => row'[s] = row[s]
  BY <1>1 DEF TypeInv, TypeOK
<1>4. ProcessInv'
  <2>1. ActiveHolds'
    BY <1>1, <1>2, EnrollingHasOrder DEF IssuanceInv, ProcessInv, ActiveHolds
  <2>2. QED
    BY <1>1, <2>1 DEF IssuanceInv, ProcessInv, OneActive, AnswersTrue
<1>5. CaInv'
  BY <1>1 DEF IssuanceInv, CaInv, OthersResolved, DenialsFinal, RequestsOwned,
     OneOutstanding, Outstanding, Used
<1>6. ReclaimQuiet'
  <2>1. reclaim # None => reclaim.order \in Orders
    BY DEF TypeInv, TypeOK, Reclaim
  <2>2. QED
    BY <1>1, <1>2, <2>1 DEF IssuanceInv, ReclaimQuiet, HoldsLease, Outstanding
<1>7. TableInv'
  <2>1. \A s \in Reqs : Outstanding(s) \/ row[s] # "none" => ca[s].order \in Orders
    BY DEF IssuanceInv, CaInv, RequestsOwned, RowInv, RowsUsed, Used, Outstanding
  <2>2. Accounted'
    BY <1>1, <1>2, <1>3, <2>1 DEF IssuanceInv, TableInv, Accounted, Outstanding
  <2>3. ReopenedOrderIsClean'
    BY <1>1, <1>2 DEF IssuanceInv, TableInv, ReopenedOrderIsClean
  <2>4. \A s \in Reqs : s # r /\ row[s] # "none" => ca[s].order # o
    BY <1>1 DEF IssuanceInv, TableInv, OrderAndRowAgree, TypeInv, TypeOK, RowStatus
  <2>5. OrderAndRowAgree'
    BY <1>1, <1>2, <1>3, <2>1, <2>4 DEF IssuanceInv, TableInv, OrderAndRowAgree
  <2>6. QED
    BY <2>2, <2>3, <2>5 DEF TableInv
<1>8. QED
  BY <1>4, <1>5, <1>6, <1>7 DEF IssuanceInv

\* The operator's checks make a reclaim safe to write while its lease lasts.
LEMMA ReclaimReadKeeps ==
    ASSUME Supported, Inv, NEW p \in Procs, NEW o \in Orders, ReclaimRead(p, o)
    PROVE  IssuanceInv'
<1> USE DEF Inv
<1>1. order[o].status = "processing" /\ UNCHANGED <<order, row, named, ca, task>>
  BY DEF ReclaimRead, storeVars
<1>2. HonouredOf(o) = {}
  BY <1>1 DEF HonouredOf, RowsOf, IssuanceInv, TableInv, OrderAndRowAgree, TypeInv, TypeOK,
     RowStatus
<1>3. /\ reclaim' = [proc |-> p, order |-> o, gen |-> order[o].gen,
                     pending |-> order[o].pending, cert |-> None]
      /\ CaVerifiedNoIssuance(o)
  BY <1>2 DEF ReclaimRead
<1>4. \A r \in Reqs : ca[r].order = o => ~Outstanding(r)
  BY <1>3 DEF CaVerifiedNoIssuance, Outstanding, Supported
<1>5. \A t \in Finalizes : task[t].pc \in EnrollingPC => task[t].order # o
  <2>1. \A t \in Finalizes : task[t].pc \in EnrollingPC => task[t].proc \in Procs
    BY Places DEF TypeInv, TasksBound
  <2>2. QED
    BY <2>1 DEF ReclaimRead, IsActive, Supported, SingleProcess
<1>6. order[o].gen \in Nat
  BY ConstantsAssumption DEF TypeInv, TypeOK, Order
<1>7. ReclaimQuiet'
  BY <1>1, <1>3, <1>4, <1>5, <1>6 DEF ReclaimQuiet, Outstanding
<1>8. ProcessInv' /\ CaInv' /\ TableInv'
  BY <1>1 DEF IssuanceInv, ProcessInv, CaInv, TableInv, ActiveHolds, OneActive, AnswersTrue,
     OthersResolved, DenialsFinal, RequestsOwned, OneOutstanding, Outstanding, Used, Accounted,
     ReopenedOrderIsClean, OrderAndRowAgree
<1>9. QED
  BY <1>7, <1>8 DEF IssuanceInv

\* The reclaim reopens its order, or finds the lease gone and does nothing.
LEMMA ReclaimWriteKeeps ==
    ASSUME Inv, ReclaimWrite
    PROVE  IssuanceInv'
<1> USE DEF Inv
<1> DEFINE o == reclaim.order
<1>1. /\ reclaim # None /\ reclaim' = None /\ UNCHANGED <<row, named, ca, task>>
      /\ reclaim.cert = None /\ o \in Orders
  BY DEF ReclaimWrite, IssuanceInv, ReclaimQuiet, TypeInv, TypeOK, Reclaim
<1>2. KeepsEnrollments /\ AnswersTrue' /\ KeepsReclaim
  BY <1>1 DEF KeepsEnrollments, IssuanceInv, ProcessInv, AnswersTrue, KeepsReclaim
<1>3. CASE HoldsLease(o, reclaim.gen)
  <2>1. /\ order'[o].status = "ready" /\ order'[o].gen = order[o].gen
        /\ \A q \in Orders : q # o => order'[q] = order[q]
    BY <1>1, <1>3 DEF ReclaimWrite, TypeInv, TypeOK, Order
  <2>2. order[o].status = "processing"
    BY <1>3 DEF HoldsLease
  <2>3. /\ \A t \in Finalizes : task'[t].pc \in EnrollingPC => task'[t].order # o
        /\ \A r \in Reqs : ca[r].order = o => ~Outstanding(r)
    BY <1>1, <1>3 DEF IssuanceInv, ReclaimQuiet
  <2>4. QED
    BY <1>1, <1>2, <2>1, <2>2, <2>3, OrderLeaves
<1>4. CASE ~HoldsLease(o, reclaim.gen)
  <2>1. KeepsOrders
    BY <1>4 DEF ReclaimWrite, KeepsOrders
  <2>2. QED
    BY <1>1, <1>2, <2>1, QuietStep
<1>5. QED
  BY <1>3, <1>4

\* Every step of the supported deployment keeps the invariant.
LEMMA IssuanceInvNext ==
    ASSUME Supported
    PROVE  Inv /\ [Next]_vars => IssuanceInv'
<1> SUFFICES ASSUME Inv, [Next]_vars PROVE IssuanceInv'
  OBVIOUS
<1> USE DEF storeVars
<1>0. TypeInv /\ RowInv /\ AnswersTrue
  BY DEF Inv, IssuanceInv, ProcessInv
<1>1. ASSUME NEW o \in Orders, MaybeReadyOrder(o) \/ ExpireOrder(o) PROVE IssuanceInv'
  <2>1. /\ order[o].status \in {"pending", "ready"} /\ order'[o].gen = order[o].gen
        /\ order'[o].status \in {"ready", "invalid"}
        /\ \A q \in Orders : q # o => order'[q] = order[q]
        /\ UNCHANGED <<row, named, ca, task, reclaim>>
    BY <1>0, <1>1 DEF MaybeReadyOrder, ExpireOrder, TypeInv, TypeOK, Order
  <2>2. \A t \in Finalizes : task'[t].pc \in EnrollingPC => task'[t].order # o
    BY <2>1 DEF Inv, IssuanceInv, ProcessInv, ActiveHolds
  <2>3. \A r \in Reqs : ca[r].order = o => ~Outstanding(r)
    BY <2>1 DEF Inv, IssuanceInv, TableInv, ReopenedOrderIsClean, Outstanding
  <2>4. KeepsReclaim /\ KeepsEnrollments /\ AnswersTrue'
    BY <1>0, <2>1 DEF KeepsReclaim, KeepsEnrollments, AnswersTrue
  <2>5. QED
    BY <2>1, <2>2, <2>3, <2>4, OrderLeaves
<1>2. ASSUME NEW o \in Orders, FinalizeExistingCert(o) PROVE IssuanceInv'
  <2>1. order[o].status = "processing" /\ \E r \in Reqs : Serves(r, o)
    BY <1>0, <1>2 DEF FinalizeExistingCert, HonouredOf, RowsOf, Serves, TypeInv, TypeOK, RowStatus
  <2>2. QED
    BY <2>1 DEF Serves, Inv, IssuanceInv, TableInv, OrderAndRowAgree
<1>3. ASSUME UNCHANGED <<order, row, named, ca, task, reclaim>> PROVE IssuanceInv'
  <2>1. KeepsOrders /\ KeepsReclaim /\ KeepsEnrollments /\ AnswersTrue'
    BY <1>0, <1>3 DEF KeepsOrders, KeepsReclaim, KeepsEnrollments, AnswersTrue
  <2>2. QED
    BY <1>3, <2>1, QuietStep
<1>4. ASSUME NEW p \in Procs, NEW a \in Accounts, DeactivateAccount(p, a) PROVE IssuanceInv'
  BY <1>3, <1>4 DEF DeactivateAccount
<1>5. ASSUME NEW p \in Procs, NEW a \in Accounts, NEW k \in Keys, KeyChange(p, a, k)
      PROVE  IssuanceInv'
  BY <1>3, <1>5 DEF KeyChange
<1>6. ASSUME NEW t \in Finalizes, NEW p \in Procs, NEW o \in Orders, FinalizeRead(t, p, o)
      PROVE  IssuanceInv'
  <2>1. /\ task'[t].pc = "admit" /\ \A u \in Finalizes : u # t => task'[u] = task[u]
        /\ UNCHANGED <<order, row, named, ca, reclaim>>
    BY <1>0, <1>6 DEF FinalizeRead, TypeInv, TypeOK, Idle
  <2>2. KeepsOrders /\ KeepsReclaim /\ KeepsEnrollments /\ AnswersTrue'
    BY <1>0, <2>1, Places DEF KeepsOrders, KeepsReclaim, KeepsEnrollments, AnswersTrue
  <2>3. QED
    BY <2>1, <2>2, QuietStep
<1>7. ASSUME NEW t \in Finalizes,
             \/ FinalizeLosesLease(t) \/ LegUnavailable(t) \/ LegTransportError(t)
             \/ StoreRaises(t) \/ CompleteQuarantineFails(t) \/ CompleteRecordFails(t)
      PROVE  IssuanceInv'
  <2>1. /\ task' = [task EXCEPT ![t] = Idle] /\ UNCHANGED <<order, row, ca, reclaim>>
        /\ named \subseteq named'
    BY <1>7 DEF FinalizeLosesLease, LegUnavailable, LegTransportError, StoreRaises,
       CompleteQuarantineFails, CompleteRecordFails
  <2>2. KeepsOrders
    BY <2>1 DEF KeepsOrders
  <2>3. QED
    BY <2>1, <2>2, EndStep
<1>8. ASSUME NEW t \in Finalizes, FinalizeAdmit(t) PROVE IssuanceInv'
  BY <1>8, AdmitKeeps
<1>9. ASSUME NEW t \in Finalizes, WorkerStart(t) PROVE IssuanceInv'
  BY <1>9, MoveStep DEF WorkerStart, KeepsOrders
<1>10. ASSUME NEW t \in Finalizes, WorkerAuthorize(t) PROVE IssuanceInv'
  <2>1. /\ task[t].pc = "locking" /\ UNCHANGED <<row, named, ca, reclaim>>
        /\ task[t].pc \in EnrollingPC /\ task[t].pc \notin SubmittedPC
    BY <1>10, Places DEF WorkerAuthorize
  <2>2. CASE task' = [task EXCEPT ![t].pc = "authorized"] /\ order' = order
    BY <2>1, <2>2, MoveStep DEF KeepsOrders
  <2>3. CASE /\ order' = LeaveProcessing(task[t].order, task[t].gen, "ready")
             /\ task' = [task EXCEPT ![t] = Idle]
    BY <2>1, <2>3, WorkerLeaves
  <2>4. QED
    BY <1>10, <2>2, <2>3 DEF WorkerAuthorize
<1>11. ASSUME NEW t \in Finalizes, WorkerCheckLease(t) PROVE IssuanceInv'
  <2>1. /\ task[t].pc = "authorized" /\ UNCHANGED <<order, row, named, ca, reclaim>>
        /\ \/ task' = [task EXCEPT ![t].pc = "submit"]
           \/ task' = [task EXCEPT ![t] = Idle]
    BY <1>0, <1>11 DEF WorkerCheckLease, TypeInv, TypeOK
  <2>2. KeepsOrders
    BY <2>1 DEF KeepsOrders
  <2>3. QED
    BY <2>1, <2>2, MoveStep, EndStep
<1>12. ASSUME NEW t \in Finalizes, SubmitCsr(t) PROVE IssuanceInv'
  BY <1>12, SubmitKeeps
<1>13. ASSUME NEW t \in Finalizes, LegReturns(t) PROVE IssuanceInv'
  <2>1. task[t].pc = "calling" /\ UNCHANGED <<order, row, named, ca, reclaim>>
    BY <1>13 DEF LegReturns
  <2>2. PICK ans \in LegAnswer(ca[task[t].req].disposition) :
          task' = [task EXCEPT ![t].answer = ans,
                               ![t].pc = IF ans = "issued" THEN "returned" ELSE "answered"]
    BY <1>13 DEF LegReturns
  <2>3. /\ task'[t].pc \in {"returned", "answered"} /\ task'[t].answer = ans
        /\ task'[t].order = task[t].order /\ task'[t].gen = task[t].gen
        /\ task'[t].req = task[t].req
        /\ \A u \in Finalizes : u # t => task'[u] = task[u]
    BY <1>0, <2>2 DEF TypeInv, TypeOK, Task
  <2>4. ans = "denied" => ca[task[t].req].state = "denied"
    <3>1. task[t].req \in Reqs
      BY <1>0, <2>1, Places DEF TypeInv, TasksBound
    <3>2. ans = "denied" => ca[task[t].req].disposition = "denied"
      BY <2>2 DEF LegAnswer
    <3>3. QED
      BY <3>1, <3>2 DEF Inv, IssuanceInv, CaInv, DenialsFinal
  <2>5. KeepsOrders /\ KeepsReclaim /\ KeepsEnrollments
    BY <2>1, <2>3, Places DEF KeepsOrders, KeepsReclaim, KeepsEnrollments
  <2>6. AnswersTrue'
    BY <1>0, <2>1, <2>3, <2>4 DEF AnswersTrue
  <2>7. QED
    BY <2>1, <2>5, <2>6, QuietStep
<1>14. ASSUME NEW t \in Finalizes, WorkerDenied(t) PROVE IssuanceInv'
  <2>1. ~Outstanding(task[t].req)
    BY <1>0, <1>14 DEF WorkerDenied, AnswersTrue, Outstanding
  <2>2. QED
    BY <1>14, <2>1, Places, WorkerLeaves DEF WorkerDenied
<1>15. ASSUME NEW t \in Finalizes, WorkerTerminate(t) PROVE IssuanceInv'
  <2>1. task[t].req \in named
    BY <1>0, <1>15 DEF WorkerTerminate, AnswersTrue
  <2>2. QED
    BY <1>15, <2>1, Places, WorkerLeaves DEF WorkerTerminate
<1>16. ASSUME NEW t \in Finalizes, WorkerPending(t) PROVE IssuanceInv'
  <2>1. KeepsOrders
    BY <1>0, <1>16 DEF WorkerPending, KeepsOrders, TypeInv, TypeOK, Order
  <2>2. QED
    BY <1>16, <2>1, EndStep DEF WorkerPending
<1>17. ASSUME NEW t \in Finalizes, Quarantine(task[t].req, task[t].order),
              task[t].pc \in {"answered", "returned"},
              ca' = ca, named' = named \cup {task[t].req}, reclaim' = reclaim,
              \/ task' = [task EXCEPT ![t].pc = "terminate"]
              \/ task' = [task EXCEPT ![t] = Idle]
       PROVE  IssuanceInv'
  <2>1. task[t].pc \in SubmittedPC /\ task[t].pc \in EnrollingPC
    BY <1>17, Places
  <2>2. task[t].order \in Orders /\ order[task[t].order].status = "processing"
    BY <1>17, <2>1, EnrollingHasOrder, EnrollingHasNoRow DEF HoldsLease, Inv
  <2>3. /\ order'[task[t].order].status = "invalid"
        /\ order'[task[t].order].gen = order[task[t].order].gen
        /\ \A q \in Orders : q # task[t].order => order'[q] = order[q]
        /\ row' = [row EXCEPT ![task[t].req] = "quarantined"]
    BY <1>0, <1>17, <2>2 DEF Quarantine, TypeInv, TypeOK, Order
  <2>4. KeepsEnrollments /\ AnswersTrue' /\ (task'[t].pc \in EnrollingPC => task'[t].pc = "terminate")
    <3>1. CASE task' = [task EXCEPT ![t] = Idle]
      BY <1>0, <1>17, <3>1, TaskEnded
    <3>2. CASE task' = [task EXCEPT ![t].pc = "terminate"]
      <4>1. /\ task'[t].pc = "terminate" /\ task'[t].order = task[t].order
            /\ task'[t].gen = task[t].gen /\ task'[t].req = task[t].req
            /\ \A u \in Finalizes : u # t => task'[u] = task[u]
        BY <1>0, <3>2 DEF TypeInv, TypeOK, Task
      <4>2. QED
        BY <1>0, <1>17, <4>1, Places DEF KeepsEnrollments, AnswersTrue
    <3>3. QED
      BY <1>17, <3>1, <3>2
  <2>5. QED
    BY <1>17, <2>1, <2>2, <2>3, <2>4, OrderEndsWithRow
<1>18. ASSUME NEW t \in Finalizes, WorkerOrphan(t) PROVE IssuanceInv'
  <2>1. CASE UNCHANGED <<row, order>>
    BY <1>18, <2>1, MoveStep, EndStep DEF WorkerOrphan, KeepsOrders
  <2>2. CASE /\ Quarantine(task[t].req, task[t].order)
             /\ task' = [task EXCEPT ![t].pc = "terminate"]
    BY <1>17, <1>18, <2>2 DEF WorkerOrphan
  <2>3. QED
    BY <1>18, <2>1, <2>2 DEF WorkerOrphan
<1>19. ASSUME NEW t \in Finalizes, CompleteQuarantine(t) PROVE IssuanceInv'
  BY <1>17, <1>19 DEF CompleteQuarantine
<1>20. ASSUME NEW t \in Finalizes, CompleteRead(t) PROVE IssuanceInv'
  <2>1. /\ task[t].pc = "returned" /\ UNCHANGED <<order, row, named, ca, reclaim>>
        /\ HonouredOf(task[t].order) = {}
    BY <1>20, Places, EnrollingHasNoRow DEF CompleteRead, HonouredOf
  <2>2. task' = [task EXCEPT ![t].pc = "recording", ![t].seen = None]
    BY <1>20, <2>1 DEF CompleteRead
  <2>3. /\ task'[t].pc = "recording" /\ task'[t].seen = None
        /\ task'[t].order = task[t].order /\ task'[t].gen = task[t].gen
        /\ task'[t].req = task[t].req
        /\ \A u \in Finalizes : u # t => task'[u] = task[u]
    BY <1>0, <2>2 DEF TypeInv, TypeOK, Task
  <2>4. KeepsOrders /\ KeepsReclaim /\ KeepsEnrollments /\ AnswersTrue'
    BY <1>0, <2>1, <2>3, Places DEF KeepsOrders, KeepsReclaim, KeepsEnrollments, AnswersTrue
  <2>5. QED
    BY <2>1, <2>4, QuietStep
<1>21. ASSUME NEW t \in Finalizes, CompleteRecord(t) PROVE IssuanceInv'
  <2>1. /\ task[t].pc = "recording" /\ task[t].seen = None
        /\ task[t].pc \in SubmittedPC /\ task[t].pc \in EnrollingPC
        /\ UNCHANGED <<ca, reclaim>> /\ named' = named \cup {task[t].req}
        /\ task' = [task EXCEPT ![t] = Idle]
    BY <1>0, <1>21, Places DEF CompleteRecord, AnswersTrue
  <2>2. task[t].order \in Orders /\ HoldsLease(task[t].order, task[t].gen)
    BY <2>1, EnrollingHasOrder, EnrollingHasNoRow DEF Inv
  <2>3. /\ order'[task[t].order].status = "valid" /\ order'[task[t].order].cert = task[t].req
        /\ order'[task[t].order].gen = order[task[t].order].gen
        /\ \A q \in Orders : q # task[t].order => order'[q] = order[q]
        /\ row' = [row EXCEPT ![task[t].req] = "valid"]
    BY <1>0, <1>21, <2>1, <2>2 DEF CompleteRecord, TypeInv, TypeOK, Order
  <2>4. KeepsEnrollments /\ AnswersTrue' /\ task'[t].pc \notin EnrollingPC
    BY <1>0, <2>1, TaskEnded
  <2>5. QED
    BY <2>1, <2>3, <2>4, OrderEndsWithRow
<1>22. ASSUME NEW r \in Reqs, RevokeCert(r) PROVE IssuanceInv'
  BY <1>22, RevokeKeeps
<1>23. ASSUME NEW p \in Procs, NEW o \in Orders, ReclaimRead(p, o) PROVE IssuanceInv'
  BY <1>23, Supported, ReclaimReadKeeps
<1>24. ASSUME ReclaimWrite PROVE IssuanceInv'
  BY <1>24, ReclaimWriteKeeps
<1>25. ASSUME NEW r \in Reqs, Authority(r) PROVE IssuanceInv'
  <2>1. UNCHANGED <<order, row, named, task, reclaim>>
    BY <1>25 DEF Authority, CaDecides, OfficerDecides, OperatorRevokesAtCa
  <2>2. /\ \A s \in Reqs : s # r => ca'[s] = ca[s]
        /\ ca'[r].order = ca[r].order
        /\ ca[r].state \in {"sent", "pending", "issued"}
        /\ ca'[r].disposition = "denied" => ca'[r].state = "denied"
    BY <1>0, <1>25 DEF Authority, CaDecides, OfficerDecides, OperatorRevokesAtCa, TypeInv,
       TypeOK, CaRequest, Inv, IssuanceInv, CaInv, DenialsFinal
  <2>3. DenialsFinal'
    BY <2>2 DEF Inv, IssuanceInv, CaInv, DenialsFinal
  <2>4. \A s \in Reqs : /\ Outstanding(s)' => Outstanding(s)
                        /\ Used(s)' => Used(s)
                        /\ ca'[s].order = ca[s].order
                        /\ ca[s].state = "denied" => ca'[s].state = "denied"
    BY <2>2 DEF Outstanding, Used
  <2>5. QED
    BY <2>1, <2>3, <2>4, CaStep
<1>26. ASSUME NEW p \in Procs, Restart(p) PROVE IssuanceInv'
  <2>1. /\ \A t \in Finalizes : task'[t] = Idle \/ task'[t] = task[t]
        /\ KeepsReclaim /\ UNCHANGED <<order, row, named, ca>>
    BY <1>26 DEF Restart, KeepsReclaim
  <2>2. Idle.pc = "idle"
    BY DEF Idle
  <2>3. KeepsOrders /\ KeepsEnrollments /\ AnswersTrue'
    BY <1>0, <2>1, <2>2, Places DEF KeepsOrders, KeepsEnrollments, AnswersTrue
  <2>4. QED
    BY <2>1, <2>3, QuietStep
<1>27. CASE UNCHANGED vars
  BY <1>3, <1>27 DEF vars
<1>28. QED
  BY <1>1, <1>2, <1>4, <1>5, <1>6, <1>7, <1>8, <1>9, <1>10, <1>11, <1>12, <1>13, <1>14,
     <1>15, <1>16, <1>18, <1>19, <1>20, <1>21, <1>22, <1>23, <1>24, <1>25, <1>26, <1>27
     DEF Next, Route, Worker

-----------------------------------------------------------------------------
\* The issuance invariant holds in every reachable state of the supported
\* deployment.
LEMMA IssuanceInvariant ==
    ASSUME Supported
    PROVE  Spec => []Inv
<1>1. Init => IssuanceInv
  BY DEF Init, IssuanceInv, ProcessInv, ActiveHolds, OneActive, AnswersTrue, CaInv,
     OthersResolved, DenialsFinal, RequestsOwned, OneOutstanding, Outstanding, Used,
     ReclaimQuiet, TableInv, Accounted, ReopenedOrderIsClean, OrderAndRowAgree, Idle,
     EnrollingPC, AdmittedPC, RunningPC, LockedPC
<1>2. Inv /\ [Next]_vars => IssuanceInv'
  BY Supported, IssuanceInvNext
<1>3. TypeInv /\ RowInv /\ IssuanceInv <=> Inv
  BY DEF Inv
<1>4. QED
  BY <1>1, <1>2, <1>3, TypeInvariant, RowInvariant, PTL DEF Spec

\* The double-issuance gate, in a single process with a diligent operator: no
\* order ever has two live certificates at the CA, through any sequence of
\* crashes, lost answers, late approvals, retries and reclaims.
THEOREM OrderHasOneLiveCertificate ==
    ASSUME Supported
    PROVE  Spec => []OneLiveCertificatePerOrder
<1>1. Inv => OneLiveCertificatePerOrder
  BY DEF Inv, IssuanceInv, CaInv, OneOutstanding, OneLiveCertificatePerOrder, Live, Outstanding
<1>2. QED
  BY <1>1, Supported, IssuanceInvariant, PTL

\* A certificate the CA issued is on a row, is named by an audit row or the
\* emergency log, or its order is still 'processing' and so in the reclaim
\* queue of an operator: no failure of the store or the leg loses it.
THEOREM NoCertificateIsLost ==
    ASSUME Supported
    PROVE  Spec => []IssuedIsAccountedFor
<1>1. Inv => IssuedIsAccountedFor
  BY DEF Inv, IssuanceInv, TableInv, Accounted, IssuedIsAccountedFor, Live, Outstanding
<1>2. QED
  BY <1>1, Supported, IssuanceInvariant, PTL

\* An order that a client may finalize has nothing at the CA that is, or may
\* yet become, a live certificate.
THEOREM ReopenedOrdersAreClean ==
    ASSUME Supported
    PROVE  Spec => []ReopenedOrderIsClean
<1>1. Inv => ReopenedOrderIsClean
  BY DEF Inv, IssuanceInv, TableInv
<1>2. QED
  BY <1>1, Supported, IssuanceInvariant, PTL

\* The orders and certificates tables agree at every commit: recorded,
\* revoked and quarantined rows belong to 'valid', 'revoked' and 'invalid'
\* orders.
THEOREM OrderAndRowTellOneStory ==
    ASSUME Supported
    PROVE  Spec => []OrderAndRowAgree
<1>1. Inv => OrderAndRowAgree
  BY DEF Inv, IssuanceInv, TableInv
<1>2. QED
  BY <1>1, Supported, IssuanceInvariant, PTL

=============================================================================
