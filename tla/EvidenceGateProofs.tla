------------------------- MODULE EvidenceGateProofs -------------------------
(* CrlEvidenceGate, for any number of certificates, callers, worker        *)
(* threads and places.  One fact carries all of it: the _inflight map      *)
(* leads from the key of a live retrieval to that retrieval, so that live  *)
(* retrievals have different keys and are counted by the map.  A late      *)
(* done-callback keeps it because it removes its own entry only.           *)
EXTENDS EvidenceGate, FiniteSetTheorems, FunctionTheorems, TLAPS

State == {"free", "queued", "running", "returned", "settled"}

TypeInv ==
    /\ inflight \in [Keys -> Futures \cup {None}]
    /\ future \in [Futures -> [state : State, key : Keys \cup {None}]]
    /\ waiting \in [Callers -> Futures \cup {None}]
    /\ closed \in BOOLEAN

LiveMapped ==
    \A f \in Futures : Live(f) => future[f].key \in Keys /\ inflight[future[f].key] = f

WithinCapacity == Cardinality(Occupied) <= MaxPending

GateInv == TypeInv /\ LiveMapped /\ WithinCapacity

\* The map is finite.
LEMMA OccupiedFinite == IsFiniteSet(Occupied) /\ Cardinality(Occupied) \in Nat
<1>1. Occupied \in SUBSET Keys
  BY DEF Occupied
<1>2. QED
  BY <1>1, GateAssumption, FS_Subset, FS_CardinalityType

\* A step that maps no further key stays within the capacity.
LEMMA CapacityKept ==
    ASSUME WithinCapacity, Occupied' \subseteq Occupied
    PROVE  WithinCapacity'
<1>1. Occupied' \in SUBSET Occupied
  OBVIOUS
<1>2. Cardinality(Occupied') <= Cardinality(Occupied) /\ IsFiniteSet(Occupied')
  BY <1>1, OccupiedFinite, FS_Subset
<1>3. Cardinality(Occupied') \in Nat
  BY <1>2, FS_CardinalityType
<1>4. QED
  BY <1>2, <1>3, OccupiedFinite, GateAssumption DEF WithinCapacity

\* A retrieval that moves on keeps its key, and is live only if it was.
LEMMA FutureMoves ==
    ASSUME GateInv, NEW f \in Futures, NEW s \in State, Live(f),
           future' = [future EXCEPT ![f].state = s], UNCHANGED <<inflight, waiting, closed>>
    PROVE  GateInv'
<1>1. TypeInv'
  BY DEF GateInv, TypeInv
<1>2. \A g \in Futures : future'[g].key = future[g].key /\ (Live(g)' => Live(g))
  BY DEF GateInv, TypeInv, Live
<1>3. LiveMapped'
  BY <1>2 DEF GateInv, LiveMapped
<1>4. WithinCapacity'
  BY DEF GateInv, WithinCapacity, Occupied
<1>5. QED
  BY <1>1, <1>3, <1>4 DEF GateInv

\* The first caller of a key: a settled entry makes room for its successor.
LEMMA SubmitKeeps ==
    ASSUME GateInv, NEW c \in Callers, NEW k \in Keys, NEW f \in Futures, Submit(c, k, f)
    PROVE  GateInv'
<1>1. TypeInv'
  BY DEF GateInv, TypeInv, State, Submit
<1>2. /\ future'[f] = [state |-> "queued", key |-> k] /\ inflight'[k] = f
      /\ \A g \in Futures : g # f => future'[g] = future[g]
      /\ \A j \in Keys : j # k => inflight'[j] = inflight[j]
  BY DEF GateInv, TypeInv, Submit
<1>3. \A g \in Futures : Live(g) => g # f /\ future[g].key # k
  <2>1. SUFFICES ASSUME NEW g \in Futures, Live(g)
                 PROVE  g # f /\ future[g].key # k
    OBVIOUS
  <2>2. g # f
    BY <2>1 DEF Submit, Live, LiveState
  <2>3. future[g].key \in Keys /\ inflight[future[g].key] = g
    BY <2>1 DEF GateInv, LiveMapped
  <2>4. g # None
    BY GateAssumption
  <2>5. Joinable(future[g].key)
    BY <2>1, <2>3, <2>4 DEF Joinable
  <2>6. QED
    BY <2>2, <2>5 DEF Submit
<1>4. LiveMapped'
  BY <1>2, <1>3 DEF GateInv, LiveMapped, Live
<1>5. WithinCapacity'
  <2>1. Occupied' \subseteq Popped(k) \cup {k}
    BY <1>2 DEF Occupied, Popped
  <2>2. IsFiniteSet(Popped(k)) /\ Cardinality(Popped(k)) \in Nat
    BY OccupiedFinite, FS_RemoveElement, FS_CardinalityType DEF Popped
  <2>3. /\ IsFiniteSet(Popped(k) \cup {k})
        /\ Cardinality(Popped(k) \cup {k}) = Cardinality(Popped(k)) + 1
    BY <2>2, FS_AddElement DEF Popped
  <2>4. Occupied' \in SUBSET (Popped(k) \cup {k})
    BY <2>1
  <2>5. IsFiniteSet(Occupied') /\ Cardinality(Occupied') <= Cardinality(Popped(k)) + 1
    BY <2>3, <2>4, FS_Subset
  <2>6. Cardinality(Occupied') \in Nat
    BY <2>5, FS_CardinalityType
  <2>7. Cardinality(Popped(k)) < MaxPending
    BY DEF Submit
  <2>8. QED
    BY <2>2, <2>5, <2>6, <2>7, GateAssumption DEF WithinCapacity
<1>6. QED
  BY <1>1, <1>4, <1>5 DEF GateInv

\* The done-callback, however late: a successor's entry is not its own.
LEMMA ClearKeeps ==
    ASSUME GateInv, NEW f \in Futures, Clear(f)
    PROVE  GateInv'
<1>1. TypeInv'
  BY DEF GateInv, TypeInv, State, Clear
<1>2. /\ future'[f] = [state |-> "free", key |-> None]
      /\ \A g \in Futures : g # f => future'[g] = future[g]
      /\ \A k \in Keys : inflight'[k] = inflight[k] \/ (inflight[k] = f /\ inflight'[k] = None)
  BY DEF GateInv, TypeInv, Clear
<1>3. LiveMapped'
  BY <1>2 DEF GateInv, LiveMapped, Live, LiveState
<1>4. WithinCapacity'
  BY <1>2, CapacityKept DEF GateInv, Occupied
<1>5. QED
  BY <1>1, <1>3, <1>4 DEF GateInv

\* Every turn of the event loop and event of a worker keeps the invariant.
LEMMA GateInvNext == GateInv /\ [Next]_vars => GateInv'
<1> SUFFICES ASSUME GateInv, [Next]_vars PROVE GateInv'
  OBVIOUS
<1>1. ASSUME UNCHANGED <<inflight, future, closed>>, waiting' \in [Callers -> Futures \cup {None}]
      PROVE  GateInv'
  BY <1>1 DEF GateInv, TypeInv, LiveMapped, Live, WithinCapacity, Occupied
<1>2. ASSUME NEW c \in Callers, NEW k \in Keys, Join(c, k) PROVE GateInv'
  BY <1>1, <1>2 DEF Join, GateInv, TypeInv
<1>3. ASSUME NEW c \in Callers, NEW k \in Keys, NEW f \in Futures, Submit(c, k, f) PROVE GateInv'
  BY <1>3, SubmitKeeps
<1>4. ASSUME NEW f \in Futures, Start(f) \/ Return(f) \/ Settle(f) PROVE GateInv'
  <2>1. /\ Live(f) /\ UNCHANGED <<inflight, waiting, closed>>
        /\ \E s \in State : future' = [future EXCEPT ![f].state = s]
    BY <1>4 DEF Start, Return, Settle, Live, LiveState, State
  <2>2. QED
    BY <2>1, FutureMoves
<1>5. ASSUME NEW f \in Futures, Clear(f) PROVE GateInv'
  BY <1>5, ClearKeeps
<1>6. ASSUME NEW c \in Callers, Resume(c) \/ Disconnect(c) PROVE GateInv'
  BY <1>1, <1>6 DEF Resume, Disconnect, GateInv, TypeInv
<1>7. ASSUME Close PROVE GateInv'
  <2>1. TypeInv'
    BY <1>7 DEF GateInv, TypeInv, State, Close
  <2>2. \A f \in Futures : future'[f].key = future[f].key /\ (Live(f)' => Live(f))
    BY <1>7 DEF GateInv, TypeInv, Close, Live, LiveState
  <2>3. LiveMapped'
    BY <1>7, <2>2 DEF GateInv, LiveMapped, Close
  <2>4. WithinCapacity'
    BY <1>7 DEF GateInv, WithinCapacity, Occupied, Close
  <2>5. QED
    BY <2>1, <2>3, <2>4 DEF GateInv
<1>8. CASE UNCHANGED vars
  BY <1>1, <1>8 DEF vars, GateInv, TypeInv
<1>9. QED
  BY <1>2, <1>3, <1>4, <1>5, <1>6, <1>7, <1>8 DEF Next

\* The gate invariant holds in every reachable state.
LEMMA GateInvariant == Spec => []GateInv
<1>1. Init => GateInv
  <2> SUFFICES ASSUME Init PROVE GateInv
    OBVIOUS
  <2>1. TypeInv /\ LiveMapped
    BY DEF Init, TypeInv, State, LiveMapped, Live, LiveState
  <2>2. Occupied = {}
    BY DEF Init, Occupied
  <2>3. WithinCapacity
    BY <2>2, FS_EmptySet, GateAssumption DEF WithinCapacity
  <2>4. QED
    BY <2>1, <2>3 DEF GateInv
<1>2. QED
  BY <1>1, GateInvNext, PTL DEF Spec

-----------------------------------------------------------------------------
\* A certificate never has two retrievals alive, whatever the order in which
\* callers arrive and disconnect, workers return and done-callbacks run.
THEOREM OneFlightPerCertificate == Spec => []SingleFlight
<1>1. GateInv => SingleFlight
  BY DEF GateInv, LiveMapped, SingleFlight
<1>2. QED
  BY <1>1, GateInvariant, PTL

\* The retrievals that hold or await a thread are never more than max_pending:
\* the size of _inflight, which run() compares, bounds them although settled
\* entries leave it late.
THEOREM AdmissionIsBounded == Spec => []AdmissionBound
<1>1. GateInv => AdmissionBound
  <2> SUFFICES ASSUME GateInv PROVE AdmissionBound
    OBVIOUS
  <2> DEFINE L == {f \in Futures : Live(f)}
             keyOf == [f \in L |-> future[f].key]
  <2>1. keyOf \in [L -> Occupied]
    BY GateAssumption DEF GateInv, LiveMapped, Occupied
  <2>2. \A f, g \in L : keyOf[f] = keyOf[g] => f = g
    BY DEF GateInv, LiveMapped
  <2>3. keyOf \in Injection(L, Occupied)
    BY <2>1, <2>2, Fun_IsInj
  <2> HIDE DEF keyOf
  <2>4. IsFiniteSet(L) /\ Cardinality(L) <= Cardinality(Occupied)
    BY <2>3, OccupiedFinite, FS_Injection
  <2>5. Cardinality(L) \in Nat
    BY <2>4, FS_CardinalityType
  <2>6. QED
    BY <2>4, <2>5, OccupiedFinite, GateAssumption DEF GateInv, WithinCapacity, AdmissionBound
<1>2. QED
  BY <1>1, GateInvariant, PTL

=============================================================================
