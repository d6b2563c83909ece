---------------------------- MODULE OrderIntake ----------------------------
(***************************************************************************)
(* Orders before finalize: newOrder under its ceilings, the challenges and *)
(* authorizations that make an order 'ready', and expiry.  A step is one   *)
(* SQLite transaction or a read of the store; the event loop of a process  *)
(* runs one of these handlers at a time, and two processes interleave.  A  *)
(* rolling window is the set of orders that are still in it.               *)
(***************************************************************************)
EXTENDS Naturals, FiniteSets

CONSTANTS
    Procs,
    Orders,         \* order ids to draw from
    Names,          \* identifier entries of an order, each with its authorization
    Accounts,
    Kids,
    KidOf,          \* the EAB kid of each account
    Requests,       \* slots for concurrent requests
    None,
    KidLimit,       \* orders per window of each kid, overrides applied; 0: off
    GlobalLimit     \* orders per window of all kids; 0: off

ASSUME IntakeAssumption ==
    /\ IsFiniteSet(Orders)
    /\ KidOf \in [Accounts -> Kids]
    /\ None \notin Procs \cup Orders \cup Names \cup Accounts
    /\ KidLimit \in [Kids -> Nat]
    /\ GlobalLimit \in Nat

VARIABLES
    order,       \* status, account, identifiers and whether it is past expiry
    challenged,  \* identifiers of each order whose challenge row is 'valid'
    authorized,  \* identifiers of each order whose authorization row is 'valid'
    window,      \* orders inside the rate-limit window
    task,        \* requests past their first await
    interrupted  \* history: <<order, identifier>> of the challenge handlers that
                 \* ended between their commits, with none that made up for it

vars == <<order, challenged, authorized, window, task, interrupted>>

-----------------------------------------------------------------------------
OrderStatus == {"none", "pending", "ready", "processing", "invalid"}

Order == [status : OrderStatus, acct : Accounts \cup {None},
          names : SUBSET Names, expired : BOOLEAN]

Unused == [status |-> "none", acct |-> None, names |-> {}, expired |-> FALSE]

\* A challenge handler before its first commit, and after it.
Committed == {"authz", "assess", "advance"}
ChallengePC == {"challenge"} \cup Committed
PC == {"idle", "insert"} \cup ChallengePC

Task == [pc : PC, proc : Procs \cup {None}, acct : Accounts \cup {None},
         order : Orders \cup {None}, name : Names \cup {None}]

Idle == [pc |-> "idle", proc |-> None, acct |-> None, order |-> None, name |-> None]

TypeOK ==
    /\ order \in [Orders -> Order]
    /\ challenged \in [Orders -> SUBSET Names]
    /\ authorized \in [Orders -> SUBSET Names]
    /\ window \in SUBSET Orders
    /\ task \in [Requests -> Task]
    /\ interrupted \in SUBSET (Orders \X Names)

Init ==
    /\ order = [o \in Orders |-> Unused]
    /\ challenged = [o \in Orders |-> {}]
    /\ authorized = [o \in Orders |-> {}]
    /\ window = {}
    /\ task = [t \in Requests |-> Idle]
    /\ interrupted = {}

LoopFree(p) == ~ \E t \in Requests : task[t].proc = p /\ task[t].pc # "idle"

At(t, pc) == task' = [task EXCEPT ![t].pc = pc]
Finish(t) == task' = [task EXCEPT ![t] = Idle]

-----------------------------------------------------------------------------
(* newOrder.                                                               *)

OrdersOf(k) == {o \in window : KidOf[order[o].acct] = k}

\* The orders of all accounts of the kid, and of everybody.
WithinLimits(a) ==
    /\ KidLimit[KidOf[a]] > 0 => Cardinality(OrdersOf(KidOf[a])) < KidLimit[KidOf[a]]
    /\ GlobalLimit > 0 => Cardinality(window) < GlobalLimit

\* _check_rate_limit, which is advisory, and the checks of the identifiers.
\* (It skips an override when the default limit is off; the commit does not.)
NewOrderCheck(t, p, a) ==
    /\ task[t].pc = "idle" /\ LoopFree(p)
    /\ WithinLimits(a)
    /\ task' = [task EXCEPT ![t] = [Idle EXCEPT !.pc = "insert", !.proc = p, !.acct = a]]
    /\ UNCHANGED <<order, challenged, authorized, window, interrupted>>

\* The order with its authorizations and challenges.
InsertOrder(t) ==
    /\ \E o \in Orders, N \in SUBSET Names :
         /\ order[o].status = "none"
         /\ N # {}
         /\ order' = [order EXCEPT ![o] = [status |-> "pending", acct |-> task[t].acct,
                                           names |-> N, expired |-> FALSE]]
         /\ window' = window \cup {o}
    /\ Finish(t)
    /\ UNCHANGED <<challenged, authorized, interrupted>>

\* Fault: the check of the route is taken for good.
NewOrderCommitUnchecked(t) == task[t].pc = "insert" /\ InsertOrder(t)

\* create_order_with_authz: the counts and the inserts in one transaction.
NewOrderCommit(t) ==
    /\ task[t].pc = "insert"
    /\ WithinLimits(task[t].acct)
    /\ InsertOrder(t)

\* OrderRateLimitExceeded.
NewOrderDenied(t) ==
    /\ task[t].pc = "insert"
    /\ ~WithinLimits(task[t].acct)
    /\ Finish(t)
    /\ UNCHANGED <<order, challenged, authorized, window, interrupted>>

-----------------------------------------------------------------------------
(* post_challenge.                                                         *)

\* A challenge that is 'valid' already is answered as it is.  The status and
\* the expiry of the order are not looked at.
ChallengeRead(t, p, o, n) ==
    /\ task[t].pc = "idle" /\ LoopFree(p)
    /\ n \in order[o].names \ challenged[o]
    /\ task' = [task EXCEPT ![t] = [Idle EXCEPT !.pc = "challenge", !.proc = p,
                                                !.order = o, !.name = n]]
    /\ UNCHANGED <<order, challenged, authorized, window, interrupted>>

ChallengeWrite(t) ==
    /\ task[t].pc = "challenge"
    /\ challenged' = [challenged EXCEPT ![task[t].order] = @ \cup {task[t].name}]
    /\ At(t, "authz")
    /\ UNCHANGED <<order, authorized, window, interrupted>>

\* Fault: the order is left to another handler that is at work on it.
AuthzWriteDefers(t) ==
    LET o == task[t].order
    IN /\ task[t].pc = "authz"
       /\ authorized' = [authorized EXCEPT ![o] = @ \cup {task[t].name}]
       /\ IF \E u \in Requests \ {t} : task[u].order = o THEN Finish(t) ELSE At(t, "assess")
       /\ UNCHANGED <<order, challenged, window, interrupted>>

AuthzWrite(t) ==
    /\ task[t].pc = "authz"
    /\ authorized' = [authorized EXCEPT ![task[t].order] = @ \cup {task[t].name}]
    /\ At(t, "assess")
    /\ UNCHANGED <<order, challenged, window, interrupted>>

\* Fault: only the posted authorization is looked at.
AnyAuthorized(o) == authorized[o] # {}

AllAuthorized(o) == order[o].names \subseteq authorized[o]

\* The handler has taken all its steps: what an earlier one of this identifier
\* left undone is done.
Complete(t) ==
    /\ interrupted' = interrupted \ {<<task[t].order, task[t].name>>}
    /\ Finish(t)

\* _maybe_ready_order up to its write.
MaybeReadyRead(t) ==
    LET o == task[t].order
    IN /\ task[t].pc = "assess"
       /\ IF order[o].status = "pending" /\ ~order[o].expired /\ AllAuthorized(o)
            THEN At(t, "advance") /\ UNCHANGED interrupted
            ELSE Complete(t)
       /\ UNCHANGED <<order, challenged, authorized, window>>

\* Fault: the order is made 'ready' whatever it is by now.
StillAdvances(o) == TRUE

\* The WHERE clause of transition_pending_to_ready.
StillPending(o) == order[o].status = "pending"

MaybeReadyWrite(t) ==
    LET o == task[t].order
    IN /\ task[t].pc = "advance"
       /\ order' = [order EXCEPT ![o].status = IF StillPending(o) THEN "ready" ELSE @]
       /\ Complete(t)
       /\ UNCHANGED <<challenged, authorized, window>>

-----------------------------------------------------------------------------
(* Expiry, finalize, failures and time.                                    *)

\* sweep_expired_orders.
Sweep ==
    LET due == {o \in Orders : order[o].status \in {"pending", "ready"} /\ order[o].expired}
    IN /\ due # {}
       /\ order' = [o \in Orders |-> IF o \in due THEN [order[o] EXCEPT !.status = "invalid"]
                                                  ELSE order[o]]
       /\ UNCHANGED <<challenged, authorized, window, task, interrupted>>

\* finalize: an expired order becomes invalid, a 'ready' one is taken.
Finalize(o) ==
    /\ \/ /\ order[o].status \in {"pending", "ready"} /\ order[o].expired
          /\ order' = [order EXCEPT ![o].status = "invalid"]
       \/ /\ order[o].status = "ready" /\ ~order[o].expired
          /\ order' = [order EXCEPT ![o].status = "processing"]
    /\ UNCHANGED <<challenged, authorized, window, task, interrupted>>

OrderExpires(o) ==
    /\ order[o].status \in {"pending", "ready"} /\ ~order[o].expired
    /\ order' = [order EXCEPT ![o].expired = TRUE]
    /\ UNCHANGED <<challenged, authorized, window, task, interrupted>>

WindowMoves(o) ==
    /\ o \in window
    /\ window' = window \ {o}
    /\ UNCHANGED <<order, challenged, authorized, task, interrupted>>

\* What the end of the handlers T leaves half done.  One that ends before its
\* first commit leaves nothing: the client posts the challenge again.
CutShort(T) ==
    {<<task[t].order, task[t].name>> : t \in {u \in T : task[u].pc \in Committed}}

\* A store call raises and the handler ends.
RequestFails(t) ==
    /\ task[t].pc # "idle"
    /\ interrupted' = interrupted \cup CutShort({t})
    /\ Finish(t)
    /\ UNCHANGED <<order, challenged, authorized, window>>

\* The process dies and a new one starts.
Restart(p) ==
    LET T == {t \in Requests : task[t].proc = p}
    IN /\ T # {}
       /\ interrupted' = interrupted \cup CutShort(T)
       /\ task' = [t \in Requests |-> IF t \in T THEN Idle ELSE task[t]]
       /\ UNCHANGED <<order, challenged, authorized, window>>

Next ==
    \/ \E t \in Requests :
         \/ \E p \in Procs, a \in Accounts : NewOrderCheck(t, p, a)
         \/ NewOrderCommit(t) \/ NewOrderDenied(t)
         \/ \E p \in Procs, o \in Orders, n \in Names : ChallengeRead(t, p, o, n)
         \/ ChallengeWrite(t) \/ AuthzWrite(t) \/ MaybeReadyRead(t) \/ MaybeReadyWrite(t)
         \/ RequestFails(t)
    \/ \E o \in Orders : Finalize(o) \/ OrderExpires(o) \/ WindowMoves(o)
    \/ \E p \in Procs : Restart(p)
    \/ Sweep

Spec == Init /\ [][Next]_vars

-----------------------------------------------------------------------------
(* Properties.                                                             *)

\* A burst of newOrders that all pass the advisory check of the route never
\* puts more orders in a window than the ceiling of their kid, over all its
\* accounts, and the ceiling of the RA.
OrderCeilingsHold ==
    /\ \A k \in Kids : KidLimit[k] > 0 => Cardinality(OrdersOf(k)) <= KidLimit[k]
    /\ GlobalLimit > 0 => Cardinality(window) <= GlobalLimit

\* No order can be finalized before each of its identifiers is authorized,
\* whichever handlers validated them and in which order they were overtaken.
ReadyIsAuthorized ==
    \A o \in Orders : order[o].status \in {"ready", "processing"} =>
        order[o].names \subseteq authorized[o]

\* Concurrent validations do not leave the transition to each other: an order
\* with all challenges valid is 'pending' only if it has expired, a handler that
\* has committed its challenge is still at work on it, or one of its identifiers
\* had a handler that ended between its first commit and its last.  The retry of
\* that handler cannot complete it: the replay of a valid challenge returns at
\* once, and the order stays 'pending' until it expires.
PendingForAReason ==
    \A o \in Orders :
        order[o].status = "pending" /\ order[o].names \subseteq challenged[o] =>
            \/ order[o].expired
            \/ \E t \in Requests : task[t].order = o /\ task[t].pc \in Committed
            \/ \E n \in order[o].names : <<o, n>> \in interrupted

\* The intake of orders keeps the promise of OrderLifecycle: no late challenge
\* brings back an order that expired or that a finalize has taken.
Lifecycle == INSTANCE OrderLifecycle
                WITH status <- [o \in Orders |-> order[o].status],
                     cert <- [o \in Orders |-> None],
                     Certs <- {}
IntakeKeepsLifecycle == Lifecycle!LifecycleSpec

=============================================================================
