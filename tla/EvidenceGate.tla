---------------------------- MODULE EvidenceGate ----------------------------
(***************************************************************************)
(* CrlEvidenceGate: confirmations share one retrieval per certificate, on  *)
(* a pool of their own, up to an admission ceiling.  A step is one turn of *)
(* the event loop or one event of a worker thread.  The hard part is that  *)
(* the done-callback of a future runs a turn after the future has settled, *)
(* when the key may already map to a successor.                            *)
(***************************************************************************)
EXTENDS Naturals, FiniteSets

CONSTANTS
    Keys,           \* certificate row ids
    Callers,        \* confirm requests
    Futures,        \* identities of retrievals; a finished one is reused
    None,
    MaxWorkers,
    MaxPending

ASSUME GateAssumption ==
    /\ IsFiniteSet(Keys) /\ None \notin Keys
    /\ IsFiniteSet(Futures) /\ None \notin Futures
    /\ MaxWorkers \in Nat \ {0}
    /\ MaxPending \in Nat

VARIABLES
    inflight,   \* the _inflight dictionary; None where a key is absent
    future,     \* state and key of each retrieval
    waiting,    \* the retrieval each caller awaits
    closed

vars == <<inflight, future, waiting, closed>>

\* "returned": the worker thread is free, and the event loop has not been
\* told yet.  "settled": done() holds, and its _clear callback has not run.
\* A "free" identity is not in use.
LiveState == {"queued", "running", "returned"}

Init ==
    /\ inflight = [k \in Keys |-> None]
    /\ future = [f \in Futures |-> [state |-> "free", key |-> None]]
    /\ waiting = [c \in Callers |-> None]
    /\ closed = FALSE

Occupied == {k \in Keys : inflight[k] # None}

Live(f) == future[f].state \in LiveState

\* A settled future is not a flight to join; one whose worker has returned
\* still is, until the event loop learns of it.
Joinable(k) == inflight[k] # None /\ Live(inflight[k])

\* The map without an entry of k that has settled.
Popped(k) == Occupied \ {k}

-----------------------------------------------------------------------------
(* run(), up to its await.                                                 *)

Join(c, k) ==
    /\ ~closed
    /\ waiting[c] = None
    /\ Joinable(k)
    /\ waiting' = [waiting EXCEPT ![c] = inflight[k]]
    /\ UNCHANGED <<inflight, future, closed>>

\* The caller is the first: submit, and map the key to the new future.
Submit(c, k, f) ==
    /\ ~closed
    /\ waiting[c] = None
    /\ ~Joinable(k)
    /\ Cardinality(Popped(k)) < MaxPending
    /\ future[f].state = "free"
    /\ \A d \in Callers : waiting[d] # f
    /\ future' = [future EXCEPT ![f] = [state |-> "queued", key |-> k]]
    /\ inflight' = [inflight EXCEPT ![k] = f]
    /\ waiting' = [waiting EXCEPT ![c] = f]
    /\ UNCHANGED closed

\* CrlEvidenceGateBusy, the other outcome, changes nothing: a settled entry
\* that was popped has left room for its successor.

-----------------------------------------------------------------------------
(* The executor and the event loop.                                        *)

Start(f) ==
    /\ future[f].state = "queued"
    /\ Cardinality({g \in Futures : future[g].state = "running"}) < MaxWorkers
    /\ future' = [future EXCEPT ![f].state = "running"]
    /\ UNCHANGED <<inflight, waiting, closed>>

Return(f) ==
    /\ future[f].state = "running"
    /\ future' = [future EXCEPT ![f].state = "returned"]
    /\ UNCHANGED <<inflight, waiting, closed>>

Settle(f) ==
    /\ future[f].state = "returned"
    /\ future' = [future EXCEPT ![f].state = "settled"]
    /\ UNCHANGED <<inflight, waiting, closed>>

\* Fault: the callback removes whatever its key maps to.
ClearUnconditionally(f) ==
    /\ future[f].state = "settled"
    /\ inflight' = [inflight EXCEPT ![future[f].key] = None]
    /\ future' = [future EXCEPT ![f] = [state |-> "free", key |-> None]]
    /\ UNCHANGED <<waiting, closed>>

\* Fault: the callback never removes anything.
ClearNothing(f) ==
    /\ future[f].state = "settled"
    /\ future' = [future EXCEPT ![f] = [state |-> "free", key |-> None]]
    /\ UNCHANGED <<inflight, waiting, closed>>

\* _clear removes the entry only if it still is this future.
Clear(f) ==
    LET k == future[f].key
    IN /\ future[f].state = "settled"
       /\ inflight' = [inflight EXCEPT ![k] = IF @ = f THEN None ELSE @]
       /\ future' = [future EXCEPT ![f] = [state |-> "free", key |-> None]]
       /\ UNCHANGED <<waiting, closed>>

\* The awaiting caller resumes with the outcome.
Resume(c) ==
    /\ waiting[c] # None
    /\ ~Live(waiting[c])
    /\ waiting' = [waiting EXCEPT ![c] = None]
    /\ UNCHANGED <<inflight, future, closed>>

\* The client disconnects; shield() leaves the retrieval running.
Disconnect(c) ==
    /\ waiting[c] # None
    /\ Live(waiting[c])
    /\ waiting' = [waiting EXCEPT ![c] = None]
    /\ UNCHANGED <<inflight, future, closed>>

\* close() cancels what has not started.
Close ==
    /\ ~closed
    /\ closed' = TRUE
    /\ future' = [f \in Futures |->
                    IF future[f].state = "queued"
                      THEN [future[f] EXCEPT !.state = "returned"] ELSE future[f]]
    /\ UNCHANGED <<inflight, waiting>>

Next ==
    \/ \E c \in Callers, k \in Keys : Join(c, k)
    \/ \E c \in Callers, k \in Keys, f \in Futures : Submit(c, k, f)
    \/ \E f \in Futures : Start(f) \/ Return(f) \/ Settle(f) \/ Clear(f)
    \/ \E c \in Callers : Resume(c) \/ Disconnect(c)
    \/ Close

Spec == Init /\ [][Next]_vars

\* Pool threads and the event loop make progress; a retrieval ends because
\* fetch_crl_evidence has a total deadline.
FairSpec ==
    /\ Spec
    /\ \A f \in Futures :
         /\ SF_vars(Start(f))
         /\ WF_vars(Return(f)) /\ WF_vars(Settle(f)) /\ WF_vars(Clear(f))
    /\ \A c \in Callers : WF_vars(Resume(c))

-----------------------------------------------------------------------------
\* One retrieval per certificate: a burst of confirmations of one serial, with
\* disconnects and late done-callbacks, never has two fetches alive.
SingleFlight ==
    \A f, g \in Futures :
        Live(f) /\ Live(g) /\ future[f].key = future[g].key => f = g

\* The admission ceiling counts every retrieval that holds or awaits a thread,
\* so the queue of the executor never outgrows max_pending.
AdmissionBound == Cardinality({f \in Futures : Live(f)}) <= MaxPending

\* Capacity comes back: a retrieval that has ended leaves the map, whatever
\* the order of its callback and of later callers, so that a gate with nothing
\* to do never sheds a request for good.
CapacityReturns ==
    \A k \in Keys : inflight[k] # None ~> (inflight[k] = None \/ Live(inflight[k]))

=============================================================================
