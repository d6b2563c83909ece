------------------------- MODULE OrderIntakeProofs -------------------------
(***************************************************************************)
(* An order is finalized only when all its identifiers are authorized, it  *)
(* is never left 'pending' by handlers that overtook each other, windows   *)
(* keep their ceilings, and OrderIntake implements OrderLifecycle: for any *)
(* number of processes, orders, identifiers and requests.                  *)
(***************************************************************************)
EXTENDS OrderIntake, FiniteSetTheorems, TLAPS

-----------------------------------------------------------------------------
(* Types.                                                                  *)

\* A request in progress is about an account, or about an order that exists.
TasksBound ==
    \A t \in Requests :
        /\ task[t].pc = "insert" => task[t].acct \in Accounts
        /\ task[t].pc \in ChallengePC =>
             /\ task[t].order \in Orders /\ task[t].name \in Names
             /\ order[task[t].order].status # "none"

\* An id not yet drawn has nothing to its name, and an order in the window
\* has an account.
FreshOrders ==
    \A o \in Orders :
        /\ order[o].status = "none" =>
             order[o].names = {} /\ challenged[o] = {} /\ o \notin window
        /\ o \in window => order[o].acct \in Accounts

IntakeInv == TypeOK /\ TasksBound /\ FreshOrders

\* An empty slot is a task.
LEMMA IdleIsTask == Idle \in Task /\ Idle.pc = "idle"
BY DEF Idle, Task, PC

\* The initial state is well formed.
LEMMA InitIntake == Init => IntakeInv
<1> SUFFICES ASSUME Init PROVE IntakeInv
  OBVIOUS
<1>1. Unused \in Order
  BY DEF Unused, Order, OrderStatus
<1>2. TypeOK
  BY <1>1, IdleIsTask DEF Init, TypeOK
<1>3. TasksBound
  BY IdleIsTask DEF Init, TasksBound, ChallengePC, Committed
<1>4. FreshOrders
  BY DEF Init, FreshOrders, Unused
<1>5. QED
  BY <1>2, <1>3, <1>4 DEF IntakeInv

\* A request ends, or starts over from an empty slot.
LEMMA TaskFinishes ==
    ASSUME IntakeInv, NEW t \in Requests, Finish(t), order' = order
    PROVE  task' \in [Requests -> Task] /\ TasksBound'
<1>1. task' \in [Requests -> Task]
  BY IdleIsTask DEF IntakeInv, TypeOK, Finish
<1>2. \A u \in Requests : task'[u] = task[u] \/ task'[u] = Idle
  BY DEF IntakeInv, TypeOK, Finish
<1>3. QED
  BY <1>1, <1>2, IdleIsTask DEF IntakeInv, TasksBound, ChallengePC, Committed

\* A challenge handler moves on.
LEMMA TaskAdvances ==
    ASSUME IntakeInv, NEW t \in Requests, NEW pc \in ChallengePC, At(t, pc),
           task[t].pc \in ChallengePC, order' = order
    PROVE  task' \in [Requests -> Task] /\ TasksBound'
<1>1. task' \in [Requests -> Task]
  BY DEF IntakeInv, TypeOK, At, Task, PC
<1>2. \A u \in Requests \ {t} : task'[u] = task[u]
  BY DEF IntakeInv, TypeOK, At
<1>3. /\ task'[t].pc = pc /\ task'[t].order = task[t].order /\ task'[t].name = task[t].name
  BY DEF IntakeInv, TypeOK, At, Task
<1>4. "insert" \notin ChallengePC
  BY DEF ChallengePC, Committed
<1>5. TasksBound'
  BY <1>2, <1>3, <1>4 DEF IntakeInv, TasksBound
<1>6. QED
  BY <1>1, <1>5

\* Only the status of orders that exist, or whether they are past expiry, is
\* changed, and no order goes back to "none".
LEMMA OrdersChange ==
    ASSUME IntakeInv, order' \in [Orders -> Order],
           \A o \in Orders : /\ order'[o].status = "none" <=> order[o].status = "none"
                             /\ order'[o].names = order[o].names
                             /\ order'[o].acct = order[o].acct,
           UNCHANGED <<challenged, authorized, window, task, interrupted>>
    PROVE  IntakeInv'
<1>1. TypeOK'
  BY DEF IntakeInv, TypeOK
<1>2. TasksBound'
  BY DEF IntakeInv, TasksBound
<1>3. FreshOrders'
  BY DEF IntakeInv, FreshOrders
<1>4. QED
  BY <1>1, <1>2, <1>3 DEF IntakeInv

\* What newOrder's transaction writes.
LEMMA CommitWrites ==
    ASSUME IntakeInv, NEW t \in Requests, NewOrderCommit(t)
    PROVE  \E o \in Orders, N \in SUBSET Names :
             LET v == [status |-> "pending", acct |-> task[t].acct, names |-> N,
                       expired |-> FALSE]
             IN /\ order[o].status = "none" /\ N # {}
                /\ order' = [order EXCEPT ![o] = v] /\ v \in Order /\ task[t].acct \in Accounts
                /\ window' = window \cup {o}
<1>1. task[t].acct \in Accounts
  BY DEF NewOrderCommit, InsertOrder, IntakeInv, TasksBound
<1>2. QED
  BY <1>1 DEF NewOrderCommit, InsertOrder, Order, OrderStatus

\* Every step keeps the state well formed.
LEMMA StepIntake == IntakeInv /\ [Next]_vars => IntakeInv'
<1> SUFFICES ASSUME IntakeInv, [Next]_vars PROVE IntakeInv'
  OBVIOUS
<1>0. /\ TypeOK /\ order \in [Orders -> Order] /\ task \in [Requests -> Task]
      /\ Idle \in Task /\ Idle.pc = "idle"
  BY IdleIsTask DEF IntakeInv, TypeOK
<1>1. ASSUME NEW t \in Requests, NEW p \in Procs, NEW a \in Accounts, NewOrderCheck(t, p, a)
      PROVE  IntakeInv'
  <2> DEFINE v == [Idle EXCEPT !.pc = "insert", !.proc = p, !.acct = a]
  <2>1. v \in Task /\ v.pc = "insert" /\ v.acct = a
    BY DEF Idle, Task, PC
  <2>2. task' = [task EXCEPT ![t] = v]
    BY <1>1 DEF NewOrderCheck
  <2> HIDE DEF v
  <2>3. task' \in [Requests -> Task]
    BY <1>0, <2>1, <2>2
  <2>4. TasksBound'
    BY <1>0, <1>1, <2>1, <2>2 DEF NewOrderCheck, IntakeInv, TasksBound, ChallengePC, Committed
  <2>5. QED
    BY <1>1, <2>3, <2>4 DEF NewOrderCheck, IntakeInv, TypeOK, FreshOrders
<1>2. ASSUME NEW t \in Requests, NewOrderCommit(t) PROVE IntakeInv'
  <2>1. PICK o \in Orders, v \in Order :
           /\ order[o].status = "none" /\ v.status = "pending" /\ v.acct \in Accounts
           /\ order' = [order EXCEPT ![o] = v]
           /\ window' = window \cup {o}
    BY <1>2, CommitWrites
  <2>2. task' \in [Requests -> Task]
    BY <1>0, <1>2 DEF NewOrderCommit, InsertOrder, Finish
  <2>3. TypeOK'
    BY <1>2, <2>1, <2>2 DEF NewOrderCommit, InsertOrder, IntakeInv, TypeOK
  <2>4. \A u \in Requests : task'[u] = task[u] \/ task'[u] = Idle
    BY <1>0, <1>2 DEF NewOrderCommit, InsertOrder, Finish
  <2>5. \A q \in Orders : order[q].status # "none" => order'[q].status # "none"
    BY <1>0, <2>1
  <2>6. TasksBound'
    BY <1>0, <2>4, <2>5 DEF IntakeInv, TasksBound, ChallengePC, Committed
  <2>7. \A q \in Orders : q # o => order'[q] = order[q]
    BY <1>0, <2>1
  <2>8. order'[o] = v
    BY <1>0, <2>1
  <2>9. FreshOrders'
    BY <1>2, <2>1, <2>7, <2>8 DEF NewOrderCommit, InsertOrder, IntakeInv, FreshOrders
  <2>10. QED
    BY <2>3, <2>6, <2>9 DEF IntakeInv
<1>3. ASSUME NEW t \in Requests, NewOrderDenied(t) PROVE IntakeInv'
  <2>1. task' \in [Requests -> Task] /\ TasksBound'
    BY <1>3, TaskFinishes DEF NewOrderDenied
  <2>2. QED
    BY <1>3, <2>1 DEF NewOrderDenied, IntakeInv, TypeOK, FreshOrders
<1>4. ASSUME NEW t \in Requests, NEW p \in Procs, NEW o \in Orders, NEW n \in Names,
             ChallengeRead(t, p, o, n)
      PROVE  IntakeInv'
  <2> DEFINE v == [Idle EXCEPT !.pc = "challenge", !.proc = p, !.order = o, !.name = n]
  <2>1. v \in Task /\ v.pc = "challenge" /\ v.order = o /\ v.name = n
    BY DEF Idle, Task, PC, ChallengePC, Committed
  <2>2. task' = [task EXCEPT ![t] = v]
    BY <1>4 DEF ChallengeRead
  <2>3. order[o].status # "none"
    BY <1>4 DEF ChallengeRead, IntakeInv, FreshOrders
  <2> HIDE DEF v
  <2>4. task' \in [Requests -> Task]
    BY <1>0, <2>1, <2>2
  <2>5. TasksBound'
    BY <1>0, <1>4, <2>1, <2>2, <2>3 DEF ChallengeRead, IntakeInv, TasksBound
  <2>6. QED
    BY <1>4, <2>4, <2>5 DEF ChallengeRead, IntakeInv, TypeOK, FreshOrders
<1>5. ASSUME NEW t \in Requests, ChallengeWrite(t) PROVE IntakeInv'
  <2>1. task[t].pc \in ChallengePC /\ "authz" \in ChallengePC
    BY <1>5 DEF ChallengeWrite, ChallengePC, Committed
  <2>2. task' \in [Requests -> Task] /\ TasksBound'
    BY <1>5, <2>1, TaskAdvances DEF ChallengeWrite
  <2>3. task[t].order \in Orders /\ task[t].name \in Names /\ order[task[t].order].status # "none"
    BY <2>1 DEF IntakeInv, TasksBound
  <2>4. challenged' \in [Orders -> SUBSET Names]
    BY <1>5, <2>3 DEF ChallengeWrite, IntakeInv, TypeOK
  <2>5. FreshOrders'
    BY <1>0, <1>5, <2>3 DEF ChallengeWrite, IntakeInv, TypeOK, FreshOrders
  <2>6. QED
    BY <1>5, <2>2, <2>4, <2>5 DEF ChallengeWrite, IntakeInv, TypeOK
<1>6. ASSUME NEW t \in Requests, AuthzWrite(t) PROVE IntakeInv'
  <2>1. task[t].pc \in ChallengePC /\ "assess" \in ChallengePC
    BY <1>6 DEF AuthzWrite, ChallengePC, Committed
  <2>2. task' \in [Requests -> Task] /\ TasksBound'
    BY <1>6, <2>1, TaskAdvances DEF AuthzWrite
  <2>3. task[t].name \in Names
    BY <2>1 DEF IntakeInv, TasksBound
  <2>4. authorized' \in [Orders -> SUBSET Names]
    BY <1>6, <2>3 DEF AuthzWrite, IntakeInv, TypeOK
  <2>5. QED
    BY <1>6, <2>2, <2>4 DEF AuthzWrite, IntakeInv, TypeOK, FreshOrders
<1>7. ASSUME NEW t \in Requests, MaybeReadyRead(t) PROVE IntakeInv'
  <2>1. task[t].pc \in ChallengePC /\ "advance" \in ChallengePC
    BY <1>7 DEF MaybeReadyRead, Complete, ChallengePC, Committed
  <2>2. (At(t, "advance") \/ Finish(t)) /\ order' = order
    BY <1>7 DEF MaybeReadyRead, Complete
  <2>3. task' \in [Requests -> Task] /\ TasksBound'
    BY <2>1, <2>2, TaskAdvances, TaskFinishes
  <2>4. QED
    BY <1>7, <2>3 DEF MaybeReadyRead, Complete, IntakeInv, TypeOK, FreshOrders
<1>8. ASSUME NEW t \in Requests, MaybeReadyWrite(t) PROVE IntakeInv'
  <2> DEFINE o == task[t].order
  <2>1. o \in Orders /\ order[o].status # "none"
    BY <1>8 DEF MaybeReadyWrite, Complete, IntakeInv, TasksBound, ChallengePC, Committed
  <2>2. PICK s \in OrderStatus : order' = [order EXCEPT ![o].status = s] /\ s # "none"
    BY <1>0, <1>8, <2>1 DEF MaybeReadyWrite, Complete, Order, OrderStatus
  <2> HIDE DEF o
  <2>3. order' \in [Orders -> Order]
    BY <1>0, <2>2 DEF Order
  <2>4. \A q \in Orders : /\ order'[q].status = "none" <=> order[q].status = "none"
                          /\ order'[q].names = order[q].names /\ order'[q].acct = order[q].acct
    BY <1>0, <2>1, <2>2 DEF Order
  <2>5. task' \in [Requests -> Task]
    BY <1>0, <1>8 DEF MaybeReadyWrite, Complete, Finish
  <2>6. \A u \in Requests : task'[u] = task[u] \/ task'[u] = Idle
    BY <1>0, <1>8 DEF MaybeReadyWrite, Complete, Finish
  <2>7. TasksBound'
    BY <1>0, <2>4, <2>6 DEF IntakeInv, TasksBound, ChallengePC, Committed
  <2>8. QED
    BY <1>8, <2>3, <2>4, <2>5, <2>7 DEF MaybeReadyWrite, Complete, IntakeInv, TypeOK, FreshOrders
<1>9. ASSUME NEW t \in Requests, RequestFails(t) PROVE IntakeInv'
  <2>1. task' \in [Requests -> Task] /\ TasksBound'
    BY <1>9, TaskFinishes DEF RequestFails
  <2>2. CutShort({t}) \subseteq Orders \X Names
    BY DEF CutShort, IntakeInv, TasksBound, ChallengePC
  <2>3. QED
    BY <1>9, <2>1, <2>2 DEF RequestFails, IntakeInv, TypeOK, FreshOrders
<1>10. ASSUME NEW o \in Orders, Finalize(o) \/ OrderExpires(o) PROVE IntakeInv'
  <2>1. PICK s \in OrderStatus \ {"none"}, e \in BOOLEAN :
           order' = [order EXCEPT ![o].status = s, ![o].expired = e]
    <3>1. /\ order[o] \in Order /\ order[o] = [order[o] EXCEPT !.status = order[o].status]
          /\ order[o] = [order[o] EXCEPT !.expired = order[o].expired]
      BY <1>0 DEF Order
    <3>2. CASE OrderExpires(o)
      <4>1. order' = [order EXCEPT ![o].status = order[o].status, ![o].expired = TRUE]
        BY <1>0, <3>1, <3>2 DEF OrderExpires, Order
      <4>2. order[o].status \in OrderStatus \ {"none"}
        BY <3>2 DEF OrderExpires, OrderStatus
      <4>3. QED
        BY <4>1, <4>2
    <3>3. CASE Finalize(o)
      <4>1. PICK s \in {"invalid", "processing"} : order' = [order EXCEPT ![o].status = s]
        BY <3>3 DEF Finalize
      <4>2. order' = [order EXCEPT ![o].status = s, ![o].expired = order[o].expired]
        BY <1>0, <4>1 DEF Order
      <4>3. s \in OrderStatus \ {"none"} /\ order[o].expired \in BOOLEAN
        BY <3>1 DEF Order, OrderStatus
      <4>4. QED
        BY <4>2, <4>3
    <3>4. QED
      BY <1>10, <3>2, <3>3
  <2>2. order[o].status # "none"
    BY <1>10 DEF Finalize, OrderExpires
  <2>3. order' \in [Orders -> Order]
    BY <1>0, <2>1 DEF Order
  <2>4. \A q \in Orders : /\ order'[q].status = "none" <=> order[q].status = "none"
                          /\ order'[q].names = order[q].names /\ order'[q].acct = order[q].acct
    BY <1>0, <2>1, <2>2 DEF Order
  <2>5. QED
    BY <1>10, <2>3, <2>4, OrdersChange DEF Finalize, OrderExpires
<1>11. ASSUME NEW o \in Orders, WindowMoves(o) PROVE IntakeInv'
  BY <1>11 DEF WindowMoves, IntakeInv, TypeOK, TasksBound, FreshOrders
<1>12. ASSUME NEW p \in Procs, Restart(p) PROVE IntakeInv'
  <2> DEFINE T == {t \in Requests : task[t].proc = p}
  <2>1. task' = [t \in Requests |-> IF t \in T THEN Idle ELSE task[t]]
    BY <1>12 DEF Restart
  <2>2. task' \in [Requests -> Task] /\ \A u \in Requests : task'[u] = task[u] \/ task'[u] = Idle
    BY <1>0, <2>1
  <2>3. TasksBound'
    BY <1>0, <1>12, <2>2 DEF Restart, IntakeInv, TasksBound, ChallengePC, Committed
  <2>4. CutShort(T) \subseteq Orders \X Names
    BY DEF CutShort, IntakeInv, TasksBound, ChallengePC
  <2>5. interrupted' = interrupted \cup CutShort(T)
    BY <1>12 DEF Restart
  <2>6. QED
    BY <1>12, <2>2, <2>3, <2>4, <2>5 DEF Restart, IntakeInv, TypeOK, FreshOrders
<1>13. ASSUME Sweep PROVE IntakeInv'
  <2>1. order' \in [Orders -> Order]
    BY <1>0, <1>13 DEF Sweep, Order, OrderStatus
  <2>2. \A q \in Orders : /\ order'[q].status = "none" <=> order[q].status = "none"
                          /\ order'[q].names = order[q].names /\ order'[q].acct = order[q].acct
    BY <1>0, <1>13 DEF Sweep, Order
  <2>3. QED
    BY <1>13, <2>1, <2>2, OrdersChange DEF Sweep
<1>14. ASSUME UNCHANGED vars PROVE IntakeInv'
  BY <1>14 DEF vars, IntakeInv, TypeOK, TasksBound, FreshOrders
<1>15. QED
  BY <1>1, <1>2, <1>3, <1>4, <1>5, <1>6, <1>7, <1>8, <1>9, <1>10, <1>11, <1>12, <1>13, <1>14
     DEF Next

\* Orders, authorizations and requests keep their types, and a request in
\* progress is about an order that exists.
THEOREM IntakeWellFormed == Spec => []IntakeInv
<1>1. QED
  BY InitIntake, StepIntake, PTL DEF Spec

-----------------------------------------------------------------------------
(* What a step can do to one order, to one request and to the tables.      *)

\* The identifiers of an order are fixed, and authorizations stay.
LEMMA NamesFixed ==
    ASSUME IntakeInv, [Next]_vars, NEW o \in Orders
    PROVE  /\ order[o].status # "none" => order'[o].names = order[o].names
           /\ authorized[o] \subseteq authorized'[o]
<1>0. /\ order \in [Orders -> Order] /\ authorized \in [Orders -> SUBSET Names]
  BY DEF IntakeInv, TypeOK
<1>1. ASSUME NEW t \in Requests, NewOrderCommit(t)
      PROVE  order[o].status # "none" => order'[o].names = order[o].names
  <2>1. PICK q \in Orders, v \in Order : order[q].status = "none" /\ order' = [order EXCEPT ![q] = v]
    BY <1>1, CommitWrites
  <2>2. QED
    BY <1>0, <2>1
<1>2. ASSUME NEW t \in Requests, MaybeReadyWrite(t) PROVE order'[o].names = order[o].names
  BY <1>0, <1>2 DEF MaybeReadyWrite, Complete, Order
<1>3. ASSUME NEW q \in Orders, Finalize(q) \/ OrderExpires(q) PROVE order'[o].names = order[o].names
  BY <1>0, <1>3 DEF Finalize, OrderExpires, Order
<1>4. ASSUME Sweep PROVE order'[o].names = order[o].names
  BY <1>0, <1>4 DEF Sweep, Order
<1>5. order[o].status # "none" => order'[o].names = order[o].names
  BY <1>1, <1>2, <1>3, <1>4
     DEF Next, vars, NewOrderCheck, NewOrderDenied, ChallengeRead, ChallengeWrite, AuthzWrite,
         MaybeReadyRead, Complete, RequestFails, WindowMoves, Restart
<1>6. ASSUME NEW t \in Requests, AuthzWrite(t) PROVE authorized[o] \subseteq authorized'[o]
  BY <1>0, <1>6 DEF AuthzWrite
<1>7. authorized[o] \subseteq authorized'[o]
  BY <1>6
     DEF Next, vars, NewOrderCheck, NewOrderCommit, InsertOrder, NewOrderDenied,
         ChallengeRead, ChallengeWrite, MaybeReadyRead, MaybeReadyWrite, Complete,
         RequestFails, WindowMoves, Restart, Finalize, OrderExpires, Sweep
<1>8. QED
  BY <1>5, <1>7

\* An order becomes 'ready' at the hands of a handler about to advance it.
LEMMA ReadyOrigin ==
    ASSUME IntakeInv, [Next]_vars, NEW o \in Orders, order'[o].status \in {"ready", "processing"}
    PROVE  /\ order[o].status # "none"
           /\ \/ order[o].status \in {"ready", "processing"}
              \/ \E t \in Requests : task[t].pc = "advance" /\ task[t].order = o
<1>0. order \in [Orders -> Order] /\ task \in [Requests -> Task]
  BY DEF IntakeInv, TypeOK
<1>1. ASSUME NEW t \in Requests, NewOrderCommit(t)
      PROVE  order[o].status \in {"ready", "processing"}
  <2>1. PICK q \in Orders, v \in Order : v.status = "pending" /\ order' = [order EXCEPT ![q] = v]
    BY <1>1, CommitWrites
  <2>2. QED
    BY <1>0, <2>1
<1>2. ASSUME NEW t \in Requests, MaybeReadyWrite(t)
      PROVE  \/ order[o].status \in {"ready", "processing"}
             \/ order[o].status = "pending" /\ task[t].pc = "advance" /\ task[t].order = o
  BY <1>0, <1>2 DEF MaybeReadyWrite, Complete, StillPending, Order
<1>3. ASSUME NEW q \in Orders, Finalize(q) \/ OrderExpires(q)
      PROVE  order[o].status \in {"ready", "processing"}
  BY <1>0, <1>3 DEF Finalize, OrderExpires, Order
<1>4. ASSUME Sweep PROVE order[o].status \in {"ready", "processing"}
  BY <1>0, <1>4 DEF Sweep, Order
<1>5. QED
  BY <1>1, <1>2, <1>3, <1>4
     DEF Next, vars, NewOrderCheck, NewOrderDenied, ChallengeRead, ChallengeWrite, AuthzWrite,
         MaybeReadyRead, Complete, RequestFails, WindowMoves, Restart

\* A handler is about to advance an order once it saw it fully authorized.
LEMMA AdvanceOrigin ==
    ASSUME IntakeInv, [Next]_vars, NEW t \in Requests, task'[t].pc = "advance"
    PROVE  /\ task[t].pc \in ChallengePC /\ task'[t].order = task[t].order
           /\ task[t].pc = "advance" \/ AllAuthorized(task[t].order)
<1>0. task \in [Requests -> Task] /\ Idle.pc = "idle"
  BY IdleIsTask DEF IntakeInv, TypeOK
<1> USE DEF At, Finish, ChallengePC, Committed
<1>1. ASSUME NEW u \in Requests, MaybeReadyRead(u)
      PROVE  /\ task[t].pc \in ChallengePC /\ task'[t].order = task[t].order
             /\ task[t].pc = "advance" \/ AllAuthorized(task[t].order)
  BY <1>0, <1>1 DEF MaybeReadyRead, Complete, Task
<1>2. ASSUME NEW u \in Requests,
             \/ \E p \in Procs, a \in Accounts : NewOrderCheck(u, p, a)
             \/ \E p \in Procs, o \in Orders, n \in Names : ChallengeRead(u, p, o, n)
      PROVE  task[t].pc = "advance" /\ task'[t].order = task[t].order
  BY <1>0, <1>2 DEF NewOrderCheck, ChallengeRead, Idle
<1>3. ASSUME NEW u \in Requests,
             \/ NewOrderCommit(u) \/ NewOrderDenied(u) \/ ChallengeWrite(u) \/ AuthzWrite(u)
             \/ MaybeReadyWrite(u) \/ RequestFails(u)
      PROVE  task[t].pc = "advance" /\ task'[t].order = task[t].order
  <2>1. Finish(u) \/ At(u, "authz") \/ At(u, "assess")
    BY <1>3 DEF NewOrderCommit, InsertOrder, NewOrderDenied, ChallengeWrite, AuthzWrite,
                MaybeReadyWrite, Complete, RequestFails
  <2>2. u # t
    BY <1>0, <2>1 DEF Task
  <2>3. QED
    BY <1>0, <2>1, <2>2
<1>4. ASSUME NEW p \in Procs, Restart(p)
      PROVE  task[t].pc = "advance" /\ task'[t].order = task[t].order
  BY <1>0, <1>4 DEF Restart
<1>5. ASSUME task' = task PROVE task[t].pc = "advance" /\ task'[t].order = task[t].order
  BY <1>5
<1>6. QED
  BY <1>1, <1>2, <1>3, <1>4, <1>5 DEF Next, vars, Finalize, OrderExpires, WindowMoves, Sweep

-----------------------------------------------------------------------------
(* Authorization.                                                          *)

\* A handler about to advance an order has every authorization behind it.
AdvancesAuthorized ==
    \A t \in Requests : task[t].pc = "advance" => AllAuthorized(task[t].order)

\* ReadyIsAuthorized for any number of identifiers and handlers: an order that
\* can be finalized has all its identifiers authorized.
THEOREM FinalizeNeedsAuthorization == Spec => []ReadyIsAuthorized
<1>1. Init => ReadyIsAuthorized /\ AdvancesAuthorized
  BY DEF Init, ReadyIsAuthorized, AdvancesAuthorized, Unused, Idle
<1>2. IntakeInv /\ ReadyIsAuthorized /\ AdvancesAuthorized /\ [Next]_vars
        => ReadyIsAuthorized' /\ AdvancesAuthorized'
  <2> SUFFICES ASSUME IntakeInv, ReadyIsAuthorized, AdvancesAuthorized, [Next]_vars
               PROVE  ReadyIsAuthorized' /\ AdvancesAuthorized'
    OBVIOUS
  <2>1. ASSUME NEW o \in Orders, order'[o].status \in {"ready", "processing"}
        PROVE  order'[o].names \subseteq authorized'[o]
    <3>1. order[o].names \subseteq authorized[o] /\ order[o].status # "none"
      BY <2>1, ReadyOrigin DEF ReadyIsAuthorized, AdvancesAuthorized, AllAuthorized
    <3>2. QED
      BY <3>1, NamesFixed
  <2>2. ASSUME NEW t \in Requests, task'[t].pc = "advance"
        PROVE  AllAuthorized(task[t].order)'
    <3> DEFINE o == task[t].order
    <3>1. task[t].pc \in ChallengePC /\ task'[t].order = o /\ AllAuthorized(o)
      BY <2>2, AdvanceOrigin DEF AdvancesAuthorized
    <3>2. o \in Orders /\ order[o].status # "none"
      BY <3>1 DEF IntakeInv, TasksBound
    <3>3. order'[o].names \subseteq authorized'[o]
      BY <3>1, <3>2, NamesFixed DEF AllAuthorized
    <3>4. QED
      BY <3>1, <3>3 DEF AllAuthorized
  <2>3. QED
    BY <2>1, <2>2, AdvanceOrigin DEF ReadyIsAuthorized, AdvancesAuthorized
<1>3. QED
  BY <1>1, <1>2, IntakeWellFormed, PTL DEF Spec

-----------------------------------------------------------------------------
(* Refinement.                                                             *)

StatusOf == [o \in Orders |-> order[o].status]
LifecycleStep == [Lifecycle!LifecycleNext]_(Lifecycle!lifecycleVars)

\* The status of one order moves along an edge of the abstract order.
LEMMA MoveIsLifecycle ==
    ASSUME NEW o \in Orders, NEW s,
           StatusOf' = [StatusOf EXCEPT ![o] = s],
           \/ StatusOf[o] = "none" /\ s = "pending"
           \/ StatusOf[o] = "pending" /\ s = "ready"
           \/ StatusOf[o] = "ready" /\ s = "processing"
           \/ StatusOf[o] \in {"pending", "ready"} /\ s = "invalid"
    PROVE  LifecycleStep
<1>1. Lifecycle!Create(o) \/ Lifecycle!Authorize(o) \/ Lifecycle!Begin(o) \/ Lifecycle!Reject(o)
  BY DEF StatusOf, Lifecycle!Create, Lifecycle!Authorize, Lifecycle!Begin, Lifecycle!Reject,
         Lifecycle!Move
<1>2. QED
  BY <1>1 DEF LifecycleStep, Lifecycle!LifecycleNext

\* The statuses stay.
LEMMA StutterIsLifecycle == StatusOf' = StatusOf => LifecycleStep
BY DEF StatusOf, LifecycleStep, Lifecycle!lifecycleVars

\* Every step of the intake is a step of the abstract order or none.
LEMMA StepIsLifecycle == IntakeInv /\ [Next]_vars => LifecycleStep
<1> SUFFICES ASSUME IntakeInv, [Next]_vars PROVE LifecycleStep
  OBVIOUS
<1>0. order \in [Orders -> Order]
  BY DEF IntakeInv, TypeOK
<1>1. ASSUME NEW t \in Requests, NewOrderCommit(t) PROVE LifecycleStep
  <2>1. PICK o \in Orders, v \in Order :
           order[o].status = "none" /\ v.status = "pending" /\ order' = [order EXCEPT ![o] = v]
    BY <1>1, CommitWrites
  <2>2. StatusOf' = [StatusOf EXCEPT ![o] = "pending"] /\ StatusOf[o] = "none"
    BY <1>0, <2>1 DEF StatusOf
  <2>3. QED
    BY <2>2, MoveIsLifecycle
<1>2. ASSUME NEW t \in Requests, MaybeReadyWrite(t) PROVE LifecycleStep
  <2> DEFINE o == task[t].order
  <2>1. o \in Orders
    BY <1>2 DEF MaybeReadyWrite, Complete, IntakeInv, TasksBound, ChallengePC, Committed
  <2>2. CASE StillPending(o)
    <3>1. StatusOf' = [StatusOf EXCEPT ![o] = "ready"] /\ StatusOf[o] = "pending"
      BY <1>0, <1>2, <2>1, <2>2 DEF MaybeReadyWrite, Complete, StatusOf, StillPending, Order
    <3>2. QED
      BY <2>1, <3>1, MoveIsLifecycle
  <2>3. CASE ~StillPending(o)
    <3>1. StatusOf' = StatusOf
      BY <1>0, <1>2, <2>1, <2>3 DEF MaybeReadyWrite, Complete, StatusOf, Order
    <3>2. QED
      BY <3>1, StutterIsLifecycle
  <2>4. QED
    BY <2>2, <2>3
<1>3. ASSUME NEW o \in Orders, Finalize(o) PROVE LifecycleStep
  <2>1. \/ /\ StatusOf[o] \in {"pending", "ready"}
           /\ StatusOf' = [StatusOf EXCEPT ![o] = "invalid"]
        \/ StatusOf[o] = "ready" /\ StatusOf' = [StatusOf EXCEPT ![o] = "processing"]
    <3>1. ASSUME NEW s, order' = [order EXCEPT ![o].status = s]
          PROVE  StatusOf' = [StatusOf EXCEPT ![o] = s]
      BY <1>0, <3>1 DEF StatusOf, Order
    <3>2. StatusOf[o] = order[o].status
      BY DEF StatusOf
    <3>3. QED
      BY <1>3, <3>1, <3>2, Zenon DEF Finalize
  <2>2. QED
    BY <2>1, MoveIsLifecycle
<1>4. ASSUME Sweep PROVE LifecycleStep
  <2>1. PICK S \in SUBSET Orders :
           /\ S = {o \in Orders : order[o].status \in {"pending", "ready"} /\ order[o].expired}
           /\ order' = [o \in Orders |-> IF o \in S THEN [order[o] EXCEPT !.status = "invalid"]
                                                    ELSE order[o]]
    BY <1>4 DEF Sweep
  <2>2. StatusOf' = [o \in Orders |-> IF o \in S THEN "invalid" ELSE StatusOf[o]]
    BY <1>0, <2>1 DEF StatusOf, Order
  <2>3. \A o \in S : StatusOf[o] \in {"pending", "ready"}
    BY <2>1 DEF StatusOf
  <2>4. Lifecycle!Expire(S)
    BY <2>2, <2>3 DEF Lifecycle!Expire, StatusOf
  <2>5. Lifecycle!LifecycleNext
    BY <2>4, Zenon DEF Lifecycle!LifecycleNext
  <2>6. QED
    BY <2>5 DEF LifecycleStep
<1>5. ASSUME NEW o \in Orders, OrderExpires(o) PROVE LifecycleStep
  <2>1. StatusOf' = StatusOf
    BY <1>0, <1>5 DEF OrderExpires, StatusOf, Order
  <2>2. QED
    BY <2>1, StutterIsLifecycle
<1>6. ASSUME order' = order PROVE LifecycleStep
  BY <1>6, StutterIsLifecycle DEF StatusOf
<1>7. QED
  BY <1>1, <1>2, <1>3, <1>4, <1>5, <1>6
     DEF Next, vars, NewOrderCheck, NewOrderDenied, ChallengeRead, ChallengeWrite, AuthzWrite,
         MaybeReadyRead, Complete, RequestFails, WindowMoves, Restart

\* OrderIntake implements OrderLifecycle: a late challenge never brings back
\* an order that expired or that a finalize took.
THEOREM IntakeImplementsLifecycle == Spec => IntakeKeepsLifecycle
<1>1. Init => Lifecycle!LifecycleInit
  BY DEF Init, Unused, Lifecycle!LifecycleInit
<1>2. QED
  BY <1>1, StepIsLifecycle, IntakeWellFormed, PTL
     DEF Spec, IntakeKeepsLifecycle, Lifecycle!LifecycleSpec, LifecycleStep

-----------------------------------------------------------------------------
(* Ceilings.                                                               *)

\* Windows are finite, and so are the parts of them a kid has.
LEMMA WindowFinite ==
    ASSUME IntakeInv, NEW S \in SUBSET window
    PROVE  IsFiniteSet(S) /\ Cardinality(S) \in Nat
<1>1. S \subseteq Orders
  BY DEF IntakeInv, TypeOK
<1>2. IsFiniteSet(S)
  BY <1>1, FS_Subset, IntakeAssumption
<1>3. QED
  BY <1>2, FS_CardinalityType

\* Every step keeps the ceilings.
LEMMA StepCeilings == IntakeInv /\ OrderCeilingsHold /\ [Next]_vars => OrderCeilingsHold'
<1> SUFFICES ASSUME IntakeInv, OrderCeilingsHold, [Next]_vars PROVE OrderCeilingsHold'
  OBVIOUS
<1>0. order \in [Orders -> Order] /\ window \subseteq Orders
  BY DEF IntakeInv, TypeOK
<1>1. ASSUME NEW t \in Requests, NewOrderCommit(t) PROVE OrderCeilingsHold'
  <2> DEFINE a == task[t].acct
  <2>1. PICK o \in Orders, v \in Order :
           /\ order[o].status = "none" /\ v.acct = a
           /\ order' = [order EXCEPT ![o] = v] /\ window' = window \cup {o}
    BY <1>1, CommitWrites
  <2>2. a \in Accounts /\ KidOf[a] \in Kids /\ WithinLimits(a)
    BY <1>1, IntakeAssumption DEF NewOrderCommit, InsertOrder, IntakeInv, TasksBound
  <2> HIDE DEF a
  <2>3. o \notin window
    BY <2>1 DEF IntakeInv, FreshOrders
  <2>4. order'[o].acct = a /\ \A q \in window : order'[q] = order[q]
    BY <1>0, <2>1, <2>3
  <2>5. ASSUME GlobalLimit > 0 PROVE Cardinality(window') <= GlobalLimit
    <3>1. Cardinality(window) < GlobalLimit
      BY <2>2, <2>5 DEF WithinLimits
    <3>2. Cardinality(window \cup {o}) = Cardinality(window) + 1
      BY <2>3, WindowFinite, FS_AddElement
    <3>3. Cardinality(window) \in Nat
      BY WindowFinite
    <3>4. QED
      BY <2>1, <3>1, <3>2, <3>3, IntakeAssumption
  <2>6. ASSUME NEW k \in Kids, KidLimit[k] > 0 PROVE Cardinality(OrdersOf(k)') <= KidLimit[k]
    <3>1. OrdersOf(k) \in SUBSET window
      BY DEF OrdersOf
    <3>2. /\ IsFiniteSet(OrdersOf(k)) /\ Cardinality(OrdersOf(k)) \in Nat
          /\ Cardinality(OrdersOf(k)) <= KidLimit[k] /\ KidLimit[k] \in Nat
      BY <2>6, <3>1, WindowFinite, IntakeAssumption DEF OrderCeilingsHold
    <3>3. CASE k = KidOf[a]
      <4>1. OrdersOf(k)' = OrdersOf(k) \cup {o} /\ o \notin OrdersOf(k)
        BY <2>1, <2>3, <2>4, <3>3 DEF OrdersOf
      <4>2. Cardinality(OrdersOf(k) \cup {o}) = Cardinality(OrdersOf(k)) + 1
        BY <3>2, <4>1, FS_AddElement
      <4>3. Cardinality(OrdersOf(k)) < KidLimit[k]
        BY <2>2, <2>6, <3>3 DEF WithinLimits
      <4>4. QED
        BY <3>2, <4>1, <4>2, <4>3
    <3>4. CASE k # KidOf[a]
      <4>1. OrdersOf(k)' = OrdersOf(k)
        BY <2>1, <2>3, <2>4, <3>4 DEF OrdersOf
      <4>2. QED
        BY <3>2, <4>1
    <3>5. QED
      BY <3>3, <3>4
  <2>7. QED
    BY <2>5, <2>6 DEF OrderCeilingsHold
<1>2. ASSUME window' \subseteq window, \A q \in window : order'[q].acct = order[q].acct
      PROVE  OrderCeilingsHold'
  <2>1. ASSUME GlobalLimit > 0 PROVE Cardinality(window') <= GlobalLimit
    <3>1. IsFiniteSet(window) /\ Cardinality(window) \in Nat
      BY WindowFinite
    <3>2. Cardinality(window') <= Cardinality(window) /\ Cardinality(window') \in Nat
      BY <1>2, <3>1, FS_Subset, FS_CardinalityType
    <3>3. QED
      BY <2>1, <3>1, <3>2, IntakeAssumption DEF OrderCeilingsHold
  <2>2. ASSUME NEW k \in Kids, KidLimit[k] > 0 PROVE Cardinality(OrdersOf(k)') <= KidLimit[k]
    <3>1. OrdersOf(k)' \subseteq OrdersOf(k) /\ OrdersOf(k) \in SUBSET window
      BY <1>2 DEF OrdersOf
    <3>2. IsFiniteSet(OrdersOf(k)) /\ Cardinality(OrdersOf(k)) \in Nat
      BY <3>1, WindowFinite
    <3>3. Cardinality(OrdersOf(k)') <= Cardinality(OrdersOf(k)) /\ Cardinality(OrdersOf(k)') \in Nat
      BY <3>1, <3>2, FS_Subset, FS_CardinalityType
    <3>4. QED
      BY <2>2, <3>2, <3>3, IntakeAssumption DEF OrderCeilingsHold
  <2>3. QED
    BY <2>1, <2>2 DEF OrderCeilingsHold
<1>3. ASSUME NEW t \in Requests, MaybeReadyWrite(t) PROVE OrderCeilingsHold'
  BY <1>0, <1>2, <1>3 DEF MaybeReadyWrite, Complete, Order
<1>4. ASSUME NEW o \in Orders, Finalize(o) \/ OrderExpires(o) PROVE OrderCeilingsHold'
  BY <1>0, <1>2, <1>4 DEF Finalize, OrderExpires, Order
<1>5. ASSUME Sweep PROVE OrderCeilingsHold'
  BY <1>0, <1>2, <1>5 DEF Sweep, Order
<1>6. ASSUME order' = order, window' \subseteq window PROVE OrderCeilingsHold'
  BY <1>2, <1>6
<1>7. QED
  BY <1>1, <1>3, <1>4, <1>5, <1>6
     DEF Next, vars, NewOrderCheck, NewOrderDenied, ChallengeRead, ChallengeWrite, AuthzWrite,
         MaybeReadyRead, Complete, RequestFails, WindowMoves, Restart

\* OrderCeilingsHold for every limit and any number of accounts and processes:
\* the count inside the transaction is enough.
THEOREM CeilingsAreKept == Spec => []OrderCeilingsHold
<1>1. Init => OrderCeilingsHold
  <2> SUFFICES ASSUME Init PROVE OrderCeilingsHold
    OBVIOUS
  <2>1. window = {} /\ \A k \in Kids : OrdersOf(k) = {}
    BY DEF Init, OrdersOf
  <2>2. Cardinality({}) = 0
    BY FS_EmptySet
  <2>3. QED
    BY <2>1, <2>2, IntakeAssumption DEF OrderCeilingsHold
<1>2. QED
  BY <1>1, StepCeilings, IntakeWellFormed, PTL DEF Spec

-----------------------------------------------------------------------------
(* Nobody leaves the transition to somebody else.                          *)

\* A handler that assesses the order has written its authorization.
Written ==
    \A t \in Requests : task[t].pc \in {"assess", "advance"} =>
        task[t].name \in authorized[task[t].order]

\* The handler is about to write this authorization.
Writes(t, o, n) == task[t].pc = "authz" /\ task[t].order = o /\ task[t].name = n

\* A challenge is ahead of its authorization only while its handler is
\* between the two writes, or ended there.
Lagging ==
    \A o \in Orders : \A n \in challenged[o] \ authorized[o] :
        \/ <<o, n>> \in interrupted
        \/ \E t \in Requests : Writes(t, o, n)

Reasons == Written /\ Lagging /\ PendingForAReason

\* A challenge handler is about an identifier of its order.
Posted ==
    \A t \in Requests : task[t].pc \in ChallengePC => task[t].name \in order[task[t].order].names

\* No step changes the identifiers of an order somebody posts for.
LEMMA StepPosted == IntakeInv /\ Posted /\ [Next]_vars => Posted'
<1> SUFFICES ASSUME IntakeInv, Posted, [Next]_vars, NEW t \in Requests, task'[t].pc \in ChallengePC
             PROVE  task'[t].name \in order'[task'[t].order].names
  BY DEF Posted
<1>0. /\ order \in [Orders -> Order] /\ task \in [Requests -> Task]
      /\ Idle.pc = "idle" /\ "idle" \notin ChallengePC
  BY IdleIsTask DEF IntakeInv, TypeOK, ChallengePC, Committed
<1>1. \A o \in Orders : order[o].status # "none" => order'[o].names = order[o].names
  BY NamesFixed
<1>2. ASSUME task[t].pc \in ChallengePC, task'[t].order = task[t].order, task'[t].name = task[t].name
      PROVE  task'[t].name \in order'[task'[t].order].names
  BY <1>1, <1>2 DEF Posted, IntakeInv, TasksBound
<1>3. ASSUME NEW u \in Requests, NEW p \in Procs, NEW o \in Orders, NEW n \in Names,
             ChallengeRead(u, p, o, n)
      PROVE  task'[t].name \in order'[task'[t].order].names
  <2> DEFINE v == [Idle EXCEPT !.pc = "challenge", !.proc = p, !.order = o, !.name = n]
  <2>1. v.order = o /\ v.name = n
    BY DEF Idle
  <2>2. task' = [task EXCEPT ![u] = v] /\ n \in order[o].names /\ order' = order
    BY <1>3 DEF ChallengeRead
  <2> HIDE DEF v
  <2>3. CASE t = u
    BY <1>0, <2>1, <2>2, <2>3
  <2>4. CASE t # u
    BY <1>0, <1>2, <2>2, <2>4
  <2>5. QED
    BY <2>3, <2>4
<1>4. ASSUME NEW u \in Requests, NEW p \in Procs, NEW a \in Accounts, NewOrderCheck(u, p, a)
      PROVE  task[t] = task'[t]
  <2> DEFINE v == [Idle EXCEPT !.pc = "insert", !.proc = p, !.acct = a]
  <2>1. v.pc = "insert" /\ "insert" \notin ChallengePC
    BY DEF Idle, ChallengePC, Committed
  <2>2. task' = [task EXCEPT ![u] = v]
    BY <1>4 DEF NewOrderCheck
  <2> HIDE DEF v
  <2>3. QED
    BY <1>0, <2>1, <2>2
<1>5. ASSUME NEW u \in Requests, Finish(u) PROVE task[t] = task'[t]
  BY <1>0, <1>5 DEF Finish
<1>6. ASSUME NEW u \in Requests, NEW pc, At(u, pc), task[u].pc \in ChallengePC
      PROVE  /\ task[t].pc \in ChallengePC
             /\ task'[t].order = task[t].order /\ task'[t].name = task[t].name
  BY <1>0, <1>6 DEF At, Task
<1>7. ASSUME NEW u \in Requests,
             ChallengeWrite(u) \/ AuthzWrite(u) \/ MaybeReadyRead(u) \/ MaybeReadyWrite(u)
      PROVE  /\ task[t].pc \in ChallengePC
             /\ task'[t].order = task[t].order /\ task'[t].name = task[t].name
  <2>1. /\ task[u].pc \in ChallengePC
        /\ At(u, "authz") \/ At(u, "assess") \/ At(u, "advance") \/ Finish(u)
    BY <1>7 DEF ChallengeWrite, AuthzWrite, MaybeReadyRead, MaybeReadyWrite, Complete, ChallengePC,
       Committed
  <2>2. QED
    BY <1>5, <1>6, <2>1
<1>8. ASSUME NEW p \in Procs, Restart(p) PROVE task[t] = task'[t]
  BY <1>0, <1>8 DEF Restart
<1>9. QED
  BY <1>2, <1>3, <1>4, <1>5, <1>7, <1>8 DEF Next, vars, NewOrderCommit, InsertOrder,
     NewOrderDenied, RequestFails, Sweep, Finalize, OrderExpires, WindowMoves

\* Handlers that have committed stay where they are, no challenge moves, and an
\* order that is 'pending' afterwards was so before, or is new.
LEMMA ReasonsStay ==
    ASSUME IntakeInv, Reasons,
           \A u \in Requests : task[u].pc \in Committed => task'[u] = task[u],
           \A u \in Requests : task'[u].pc \in Committed => task'[u] = task[u],
           challenged' = challenged, authorized' = authorized, interrupted' = interrupted,
           \A o \in Orders : order'[o].status = "pending" =>
               \/ /\ order[o].status = "pending" /\ order'[o].names = order[o].names
                  /\ order[o].expired => order'[o].expired
               \/ challenged[o] = {} /\ order'[o].names # {}
    PROVE  Reasons'
<1>1. "authz" \in Committed /\ {"assess", "advance"} \subseteq Committed
  BY DEF Committed
<1>2. Written' /\ Lagging'
  BY <1>1 DEF Reasons, Written, Lagging, Writes
<1>3. ASSUME NEW o \in Orders, order'[o].status = "pending", order'[o].names \subseteq challenged'[o]
      PROVE  \/ order'[o].expired
             \/ \E t \in Requests : task'[t].order = o /\ task'[t].pc \in Committed
             \/ \E n \in order'[o].names : <<o, n>> \in interrupted'
  <2>1. order[o].status = "pending" /\ order[o].names \subseteq challenged[o]
        /\ (order[o].expired => order'[o].expired) /\ order'[o].names = order[o].names
    BY <1>3
  <2>2. \/ order[o].expired
        \/ \E t \in Requests : task[t].order = o /\ task[t].pc \in Committed
        \/ \E n \in order[o].names : <<o, n>> \in interrupted
    BY <2>1 DEF Reasons, PendingForAReason
  <2>3. QED
    BY <2>1, <2>2
<1>4. QED
  BY <1>2, <1>3 DEF Reasons, PendingForAReason

\* A handler posts for an identifier of its order.
LEMMA NamesOfOrder ==
    ASSUME IntakeInv, Posted, NEW t \in Requests, task[t].pc \in Committed
    PROVE  task[t].name \in order[task[t].order].names
BY DEF Posted, Committed, ChallengePC

\* A handler that ends between its commits is remembered.
LEMMA ReasonsCutShort ==
    ASSUME IntakeInv, Posted, Reasons, NEW T \in SUBSET Requests,
           task' = [u \in Requests |-> IF u \in T THEN Idle ELSE task[u]],
           interrupted' = interrupted \cup CutShort(T),
           UNCHANGED <<order, challenged, authorized>>
    PROVE  Reasons'
<1>1. "authz" \in Committed /\ {"assess", "advance"} \subseteq Committed /\ "idle" \notin Committed
  BY DEF Committed
<1>2. ASSUME NEW u \in Requests, task[u].pc \in Committed
      PROVE  task'[u] = task[u] \/ <<task[u].order, task[u].name>> \in interrupted'
  BY <1>2 DEF CutShort
<1>3. Written'
  BY <1>1, IdleIsTask DEF Reasons, Written
<1>4. Lagging'
  <2> SUFFICES ASSUME NEW q \in Orders, NEW n \in challenged[q] \ authorized[q]
               PROVE  \/ <<q, n>> \in interrupted'
                      \/ \E u \in Requests : Writes(u, q, n)'
    BY DEF Lagging
  <2>1. CASE <<q, n>> \in interrupted
    BY <2>1
  <2>2. CASE \E u \in Requests : Writes(u, q, n)
    <3>1. PICK u \in Requests : Writes(u, q, n)
      BY <2>2
    <3>2. task[u].order = q /\ task[u].name = n /\ task[u].pc \in Committed
      BY <1>1, <3>1 DEF Writes
    <3>3. CASE task'[u] = task[u]
      BY <3>1, <3>3 DEF Writes
    <3>4. CASE <<task[u].order, task[u].name>> \in interrupted'
      BY <3>2, <3>4
    <3>5. QED
      BY <1>2, <3>2, <3>3, <3>4
  <2>3. QED
    BY <2>1, <2>2 DEF Reasons, Lagging
<1>5. PendingForAReason'
  <2> SUFFICES ASSUME NEW o \in Orders, order[o].status = "pending",
                      order[o].names \subseteq challenged[o], ~order[o].expired
               PROVE  \/ \E t \in Requests : task'[t].order = o /\ task'[t].pc \in Committed
                      \/ \E n \in order[o].names : <<o, n>> \in interrupted'
    BY DEF PendingForAReason
  <2>1. CASE \E n \in order[o].names : <<o, n>> \in interrupted
    BY <2>1
  <2>2. CASE \E t \in Requests : task[t].order = o /\ task[t].pc \in Committed
    <3>1. PICK t \in Requests : task[t].order = o /\ task[t].pc \in Committed
      BY <2>2
    <3>2. task[t].name \in order[o].names
      BY <3>1, NamesOfOrder
    <3>3. QED
      BY <1>2, <3>1, <3>2
  <2>3. QED
    BY <2>1, <2>2 DEF Reasons, PendingForAReason
<1>6. QED
  BY <1>3, <1>4, <1>5 DEF Reasons

\* Every step keeps the reasons.
LEMMA StepReasons == IntakeInv /\ Posted /\ Reasons /\ [Next]_vars => Reasons'
<1> SUFFICES ASSUME IntakeInv, Posted, Reasons, [Next]_vars PROVE Reasons'
  OBVIOUS
<1>0. /\ order \in [Orders -> Order] /\ task \in [Requests -> Task]
      /\ challenged \in [Orders -> SUBSET Names] /\ authorized \in [Orders -> SUBSET Names]
      /\ Idle.pc = "idle"
  BY IdleIsTask DEF IntakeInv, TypeOK
<1>1. ASSUME NEW t \in Requests, task[t].pc \notin Committed, task'[t].pc \notin Committed,
             \A u \in Requests \ {t} : task'[u] = task[u],
             UNCHANGED <<order, challenged, authorized, interrupted>>
      PROVE  Reasons'
  BY <1>1, ReasonsStay
<1>2. ASSUME NEW t \in Requests, NEW p \in Procs, NEW a \in Accounts, NewOrderCheck(t, p, a)
      PROVE  Reasons'
  <2>1. [Idle EXCEPT !.pc = "insert", !.proc = p, !.acct = a].pc = "insert"
    BY DEF Idle
  <2>2. QED
    BY <1>0, <1>1, <1>2, <2>1 DEF NewOrderCheck, Committed
<1>3. ASSUME NEW t \in Requests, NewOrderDenied(t) PROVE Reasons'
  BY <1>0, <1>1, <1>3 DEF NewOrderDenied, Finish, Committed
<1>4. ASSUME NEW t \in Requests, NEW p \in Procs, NEW o \in Orders, NEW n \in Names,
             ChallengeRead(t, p, o, n)
      PROVE  Reasons'
  <2>1. [Idle EXCEPT !.pc = "challenge", !.proc = p, !.order = o, !.name = n].pc = "challenge"
    BY DEF Idle
  <2>2. QED
    BY <1>0, <1>1, <1>4, <2>1 DEF ChallengeRead, Committed
<1>5. ASSUME NEW t \in Requests, NewOrderCommit(t) PROVE Reasons'
  <2>1. PICK o \in Orders, v \in Order :
           order[o].status = "none" /\ v.names # {} /\ order' = [order EXCEPT ![o] = v]
    BY <1>5, CommitWrites
  <2>2. challenged[o] = {}
    BY <2>1 DEF IntakeInv, FreshOrders
  <2>3. /\ \A u \in Requests : task[u].pc \in Committed => task'[u] = task[u]
        /\ \A u \in Requests : task'[u].pc \in Committed => task'[u] = task[u]
    BY <1>0, <1>5 DEF NewOrderCommit, InsertOrder, Finish, Committed
  <2>4. ASSUME NEW q \in Orders
        PROVE  order'[q] = order[q] \/ (challenged[q] = {} /\ order'[q].names # {})
    <3>1. q # o => order'[q] = order[q]
      BY <1>0, <2>1
    <3>2. order'[o] = v
      BY <1>0, <2>1
    <3>3. QED
      BY <2>1, <2>2, <3>1, <3>2
  <2>5. QED
    BY <1>5, <2>3, <2>4, ReasonsStay DEF NewOrderCommit, InsertOrder
<1>6. ASSUME NEW t \in Requests, ChallengeWrite(t) PROVE Reasons'
  <2> DEFINE o == task[t].order
  <2>1. o \in Orders /\ task[t].pc = "challenge"
    BY <1>6 DEF ChallengeWrite, IntakeInv, TasksBound, ChallengePC
  <2>2. /\ task'[t].pc = "authz" /\ task'[t].order = o /\ task'[t].name = task[t].name
        /\ \A u \in Requests \ {t} : task'[u] = task[u]
    BY <1>0, <1>6 DEF ChallengeWrite, At, Task
  <2>3. /\ challenged'[o] = challenged[o] \cup {task[t].name}
        /\ \A q \in Orders \ {o} : challenged'[q] = challenged[q]
        /\ order' = order /\ authorized' = authorized /\ interrupted' = interrupted
    BY <1>0, <1>6, <2>1 DEF ChallengeWrite
  <2> HIDE DEF o
  <2>4. Written' /\ Lagging'
    <3>1. Written'
      BY <2>2, <2>3 DEF Reasons, Written
    <3>2. ASSUME NEW q \in Orders, NEW n \in challenged'[q] \ authorized[q]
          PROVE  <<q, n>> \in interrupted \/ \E u \in Requests : Writes(u, q, n)'
      <4>1. CASE q = o /\ n = task[t].name
        BY <2>2, <4>1 DEF Writes
      <4>2. CASE ~(q = o /\ n = task[t].name)
        <5>1. n \in challenged[q] \ authorized[q]
          BY <2>3, <3>2, <4>2
        <5>2. <<q, n>> \in interrupted \/ \E u \in Requests : Writes(u, q, n)
          BY <5>1 DEF Reasons, Lagging
        <5>3. ASSUME NEW u \in Requests, Writes(u, q, n) PROVE Writes(u, q, n)'
          BY <2>1, <2>2, <5>3 DEF Writes
        <5>4. QED
          BY <5>2, <5>3
      <4>3. QED
        BY <4>1, <4>2
    <3>3. QED
      BY <2>3, <3>1, <3>2 DEF Lagging
  <2>5. PendingForAReason'
    <3> SUFFICES ASSUME NEW q \in Orders, order[q].status = "pending",
                        order[q].names \subseteq challenged'[q]
                 PROVE  \/ order[q].expired
                        \/ \E u \in Requests : task'[u].order = q /\ task'[u].pc \in Committed
                        \/ \E n \in order[q].names : <<q, n>> \in interrupted
      BY <2>3 DEF PendingForAReason
    <3>1. "authz" \in Committed
      BY DEF Committed
    <3>2. CASE q = o
      BY <2>2, <3>1, <3>2
    <3>3. CASE q # o
      <4>1. \/ order[q].expired
            \/ \E u \in Requests : task[u].order = q /\ task[u].pc \in Committed
            \/ \E n \in order[q].names : <<q, n>> \in interrupted
        BY <2>3, <3>3 DEF Reasons, PendingForAReason
      <4>2. \A u \in Requests : task[u].order = q => task'[u] = task[u]
        BY <2>2, <3>3 DEF o
      <4>3. QED
        BY <4>1, <4>2
    <3>4. QED
      BY <3>2, <3>3
  <2>6. QED
    BY <2>4, <2>5 DEF Reasons
<1>7. ASSUME NEW t \in Requests, AuthzWrite(t) PROVE Reasons'
  <2> DEFINE o == task[t].order
  <2>1. o \in Orders /\ task[t].pc = "authz"
    BY <1>7 DEF AuthzWrite, IntakeInv, TasksBound, ChallengePC, Committed
  <2>2. /\ task'[t].pc = "assess" /\ task'[t].order = o /\ task'[t].name = task[t].name
        /\ \A u \in Requests \ {t} : task'[u] = task[u]
    BY <1>0, <1>7 DEF AuthzWrite, At, Task
  <2>3. /\ authorized'[o] = authorized[o] \cup {task[t].name}
        /\ \A q \in Orders \ {o} : authorized'[q] = authorized[q]
        /\ order' = order /\ challenged' = challenged /\ interrupted' = interrupted
    BY <1>0, <1>7, <2>1 DEF AuthzWrite
  <2> HIDE DEF o
  <2>4. Written'
    <3>1. \A u \in Requests : task[u].pc \in {"assess", "advance"} => task[u].order \in Orders
      BY DEF IntakeInv, TasksBound, ChallengePC, Committed
    <3>2. QED
      BY <2>2, <2>3, <3>1 DEF Reasons, Written
  <2>5. Lagging'
    <3>1. ASSUME NEW q \in Orders, NEW n \in challenged[q] \ authorized'[q]
          PROVE  <<q, n>> \in interrupted \/ \E u \in Requests : Writes(u, q, n)'
      <4>1. n \notin authorized[q] /\ ~(q = o /\ n = task[t].name)
        BY <2>3, <3>1
      <4>2. ASSUME NEW u \in Requests, Writes(u, q, n) PROVE Writes(u, q, n)'
        BY <2>2, <4>1, <4>2 DEF Writes, o
      <4>3. QED
        BY <3>1, <4>1, <4>2 DEF Reasons, Lagging
    <3>2. QED
      BY <2>3, <3>1 DEF Lagging
  <2>6. PendingForAReason'
    BY <2>1, <2>2, <2>3 DEF Reasons, PendingForAReason, Committed, o
  <2>7. QED
    BY <2>4, <2>5, <2>6 DEF Reasons
<1>8. ASSUME NEW t \in Requests, MaybeReadyRead(t) PROVE Reasons'
  <2> DEFINE o == task[t].order
             m == task[t].name
  <2>1. o \in Orders /\ task[t].pc = "assess" /\ m \in authorized[o]
    BY <1>8 DEF MaybeReadyRead, IntakeInv, TasksBound, ChallengePC, Committed, Reasons, Written
  <2>2. /\ \A u \in Requests \ {t} : task'[u] = task[u]
        /\ UNCHANGED <<order, challenged, authorized>>
        /\ \/ /\ task'[t].pc = "advance" /\ task'[t].order = o /\ task'[t].name = m
              /\ interrupted' = interrupted
           \/ /\ ~(order[o].status = "pending" /\ ~order[o].expired /\ AllAuthorized(o))
              /\ task'[t].pc = "idle" /\ interrupted' = interrupted \ {<<o, m>>}
    BY <1>0, <1>8 DEF MaybeReadyRead, At, Complete, Finish, Task
  <2> HIDE DEF o, m
  <2>3. Written'
    <3>1. \A u \in Requests \ {t} : task'[u].pc \in {"assess", "advance"} =>
             task'[u].name \in authorized'[task'[u].order]
      BY <2>2 DEF Reasons, Written
    <3>2. task'[t].pc \in {"assess", "advance"} => task'[t].name \in authorized'[task'[t].order]
      BY <2>1, <2>2
    <3>3. QED
      BY <3>1, <3>2 DEF Written
  <2>4. ASSUME NEW q \in Orders, NEW n \in challenged[q] \ authorized[q]
        PROVE  <<q, n>> \in interrupted' \/ \E u \in Requests : Writes(u, q, n)'
    <3>1. ~(q = o /\ n = m)
      BY <2>1, <2>4
    <3>2. CASE <<q, n>> \in interrupted
      BY <2>2, <3>1, <3>2
    <3>3. ASSUME NEW u \in Requests, Writes(u, q, n) PROVE Writes(u, q, n)'
      BY <2>1, <2>2, <3>3 DEF Writes
    <3>4. QED
      BY <2>4, <3>2, <3>3 DEF Reasons, Lagging
  <2>5. Lagging'
    BY <2>2, <2>4 DEF Lagging
  <2>6. ASSUME NEW q \in Orders, order[q].status = "pending", order[q].names \subseteq challenged[q],
               ~order[q].expired
        PROVE  \/ \E u \in Requests : task'[u].order = q /\ task'[u].pc \in Committed
               \/ \E n \in order[q].names : <<q, n>> \in interrupted'
    <3>0. {"authz", "advance"} \subseteq Committed
      BY DEF Committed
    <3>1. CASE q = o /\ task'[t].pc = "advance" /\ task'[t].order = o
      BY <3>0, <3>1
    <3>2. CASE q = o /\ ~(order[o].status = "pending" /\ ~order[o].expired /\ AllAuthorized(o))
      <4>1. PICK n \in order[q].names : n \in challenged[q] \ authorized[q]
        BY <2>6, <3>2 DEF AllAuthorized
      <4>2. CASE \E u \in Requests : Writes(u, q, n)'
        BY <3>0, <4>2 DEF Writes
      <4>3. QED
        BY <2>4, <4>1, <4>2
    <3>3. CASE q # o
      <4>1. CASE \E u \in Requests : task[u].order = q /\ task[u].pc \in Committed
        <5>1. PICK u \in Requests : task[u].order = q /\ task[u].pc \in Committed
          BY <4>1
        <5>2. u # t
          BY <3>3, <5>1 DEF o
        <5>3. QED
          BY <2>2, <5>1, <5>2
      <4>2. CASE \E n \in order[q].names : <<q, n>> \in interrupted
        BY <2>2, <3>3, <4>2
      <4>3. QED
        BY <2>6, <4>1, <4>2 DEF Reasons, PendingForAReason
    <3>4. QED
      BY <2>2, <3>1, <3>2, <3>3
  <2>7. PendingForAReason'
    BY <2>2, <2>6 DEF PendingForAReason
  <2>8. QED
    BY <2>3, <2>5, <2>7 DEF Reasons
<1>9. ASSUME NEW t \in Requests, MaybeReadyWrite(t) PROVE Reasons'
  <2> DEFINE o == task[t].order
             m == task[t].name
  <2>1. o \in Orders /\ task[t].pc = "advance" /\ m \in authorized[o]
    BY <1>9 DEF MaybeReadyWrite, IntakeInv, TasksBound, ChallengePC, Committed, Reasons, Written
  <2>2. /\ \A u \in Requests \ {t} : task'[u] = task[u]
        /\ task'[t].pc = "idle"
        /\ UNCHANGED <<challenged, authorized>> /\ interrupted' = interrupted \ {<<o, m>>}
    BY <1>0, <1>9 DEF MaybeReadyWrite, Complete, Finish
  <2>3. order'[o].status # "pending" /\ \A q \in Orders \ {o} : order'[q] = order[q]
    BY <1>0, <1>9, <2>1 DEF MaybeReadyWrite, StillPending, Order
  <2> HIDE DEF o, m
  <2>4. Written'
    BY <2>2 DEF Reasons, Written
  <2>5. Lagging'
    <3>1. ASSUME NEW q \in Orders, NEW n \in challenged[q] \ authorized[q]
          PROVE  <<q, n>> \in interrupted' \/ \E u \in Requests : Writes(u, q, n)'
      <4>1. ~(q = o /\ n = m)
        BY <2>1, <3>1
      <4>2. CASE <<q, n>> \in interrupted
        BY <2>2, <4>1, <4>2
      <4>3. ASSUME NEW u \in Requests, Writes(u, q, n) PROVE Writes(u, q, n)'
        BY <2>1, <2>2, <4>3 DEF Writes
      <4>4. QED
        BY <3>1, <4>2, <4>3 DEF Reasons, Lagging
    <3>2. QED
      BY <2>2, <3>1 DEF Lagging
  <2>6. PendingForAReason'
    <3> SUFFICES ASSUME NEW q \in Orders, order'[q].status = "pending",
                        order'[q].names \subseteq challenged[q], ~order'[q].expired
                 PROVE  \/ \E u \in Requests : task'[u].order = q /\ task'[u].pc \in Committed
                        \/ \E n \in order'[q].names : <<q, n>> \in interrupted'
      BY <2>2 DEF PendingForAReason
    <3>1. q # o /\ order'[q] = order[q]
      BY <2>3
    <3>2. CASE \E u \in Requests : task[u].order = q /\ task[u].pc \in Committed
      <4>1. PICK u \in Requests : task[u].order = q /\ task[u].pc \in Committed
        BY <3>2
      <4>2. u # t
        BY <3>1, <4>1 DEF o
      <4>3. QED
        BY <2>2, <4>1, <4>2
    <3>3. CASE \E n \in order[q].names : <<q, n>> \in interrupted
      BY <2>2, <3>1, <3>3
    <3>4. QED
      BY <3>1, <3>2, <3>3 DEF Reasons, PendingForAReason
  <2>7. QED
    BY <2>4, <2>5, <2>6 DEF Reasons
<1>10. ASSUME NEW t \in Requests, RequestFails(t) PROVE Reasons'
  <2>1. task' = [u \in Requests |-> IF u \in {t} THEN Idle ELSE task[u]]
    BY <1>0, <1>10 DEF RequestFails, Finish
  <2>2. QED
    BY <1>10, <2>1, ReasonsCutShort DEF RequestFails
<1>11. ASSUME NEW p \in Procs, Restart(p) PROVE Reasons'
  <2>1. PICK T \in SUBSET Requests :
           /\ task' = [u \in Requests |-> IF u \in T THEN Idle ELSE task[u]]
           /\ interrupted' = interrupted \cup CutShort(T)
    BY <1>11 DEF Restart
  <2>2. QED
    BY <1>11, <2>1, ReasonsCutShort DEF Restart
<1>12. ASSUME NEW o \in Orders, Finalize(o) \/ OrderExpires(o) PROVE Reasons'
  <2>1. \A q \in Orders : order'[q].status = "pending" =>
           /\ order[q].status = "pending" /\ order'[q].names = order[q].names
           /\ order[q].expired => order'[q].expired
    <3>1. CASE Finalize(o)
      <4>1. order'[o].status # "pending" /\ \A q \in Orders \ {o} : order'[q] = order[q]
        BY <1>0, <3>1 DEF Finalize, Order
      <4>2. QED
        BY <4>1
    <3>2. CASE OrderExpires(o)
      <4>1. /\ order'[o].status = order[o].status /\ order'[o].names = order[o].names
            /\ order'[o].expired
        BY <1>0, <3>2 DEF OrderExpires, Order
      <4>2. \A q \in Orders \ {o} : order'[q] = order[q]
        BY <1>0, <3>2 DEF OrderExpires
      <4>3. QED
        BY <4>1, <4>2
    <3>3. QED
      BY <1>12, <3>1, <3>2
  <2>2. QED
    BY <1>12, <2>1, ReasonsStay DEF Finalize, OrderExpires
<1>13. ASSUME Sweep PROVE Reasons'
  <2>1. \A q \in Orders : order'[q].status = "pending" => order'[q] = order[q]
    BY <1>0, <1>13 DEF Sweep, Order
  <2>2. QED
    BY <1>13, <2>1, ReasonsStay DEF Sweep
<1>14. ASSUME UNCHANGED <<order, challenged, authorized, task, interrupted>> PROVE Reasons'
  BY <1>14, ReasonsStay
<1>15. QED
  BY <1>2, <1>3, <1>4, <1>5, <1>6, <1>7, <1>8, <1>9, <1>10, <1>11, <1>12, <1>13, <1>14
     DEF Next, vars, WindowMoves

\* PendingForAReason for any number of handlers: whichever of them overtake
\* each other, the last one to write makes the order 'ready', unless one ended
\* between its commits and none of the same identifier made up for it.
THEOREM LastChallengeAdvances == Spec => []PendingForAReason
<1>1. Init => Posted /\ Reasons
  BY IdleIsTask DEF Init, Posted, Reasons, Written, Lagging, PendingForAReason, Unused, ChallengePC,
     Committed
<1>2. Reasons => PendingForAReason
  BY DEF Reasons
<1>3. QED
  BY <1>1, <1>2, StepPosted, StepReasons, IntakeWellFormed, PTL DEF Spec

=============================================================================
