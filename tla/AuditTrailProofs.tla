-------------------------- MODULE AuditTrailProofs --------------------------
(* The SIEM emitter's books.  A row of this process is in at most one      *)
(* place: in the hand of the thread that wrote it, admitted, in the queue  *)
(* (once), being sent, or giving its slot back; that is what makes the     *)
(* counters add up.                                                        *)
EXTENDS AuditTrail, FiniteSetTheorems, SequenceTheorems, TLAPS

\* The rows are a sequence of records that name the process of their insert.
RowsInv ==
    /\ \E A : rows \in Seq(A)
    /\ \A i \in 1..Len(rows) : "run" \in DOMAIN rows[i]

Emitters ==
    [open : BOOLEAN, admitted : SUBSET Nat, queue : Seq(Nat), sending : SUBSET Nat,
     releasing : SUBSET Nat, inflight : Int, dropped : Nat, delivered : Nat, failures : Nat]

EmitterType ==
    /\ emitter \in Emitters
    /\ IsFiniteSet(emitter.admitted) /\ IsFiniteSet(emitter.sending)
    /\ IsFiniteSet(emitter.releasing) /\ IsFiniteSet(inHand)
    /\ arrived \in Nat

\* No row is in two places.
OnePlace ==
    /\ inHand \cup emitter.admitted \cup emitter.sending \cup emitter.releasing \subseteq ThisRun
    /\ inHand \cap (emitter.admitted \cup emitter.sending \cup emitter.releasing) = {}
    /\ emitter.admitted \cap (emitter.sending \cup emitter.releasing) = {}
    /\ emitter.sending \cap emitter.releasing = {}
    /\ \A m \in 1..Len(emitter.queue) :
         /\ emitter.queue[m] \in ThisRun
         /\ emitter.queue[m] \notin inHand \cup emitter.admitted
         /\ emitter.queue[m] \notin emitter.sending \cup emitter.releasing
    /\ \A m, n \in 1..Len(emitter.queue) : m # n => emitter.queue[m] # emitter.queue[n]

ExportInv == RowsInv /\ EmitterType /\ OnePlace /\ ExportsAccounted

\* The rows of this process are finitely many positions of the table.
LEMMA ThisRunFinite ==
    ASSUME RowsInv
    PROVE  /\ Len(rows) \in Nat /\ DOMAIN rows = 1..Len(rows)
           /\ ThisRun \subseteq 1..Len(rows)
           /\ IsFiniteSet(ThisRun) /\ Cardinality(ThisRun) \in Nat
<1>1. Len(rows) \in Nat /\ DOMAIN rows = 1..Len(rows)
  BY LenProperties DEF RowsInv
<1>2. ThisRun \in SUBSET (1..Len(rows))
  BY <1>1 DEF ThisRun
<1>3. IsFiniteSet(1..Len(rows))
  BY <1>1, FS_Interval
<1>4. IsFiniteSet(ThisRun)
  BY <1>2, <1>3, FS_Subset
<1>5. QED
  BY <1>1, <1>2, <1>4, FS_CardinalityType

\* An update of the tally or of the place of a row leaves its process alone.
LEMMA RowUpdated ==
    ASSUME RowsInv, UNCHANGED run, NEW n, NEW v,
           \/ rows' = [rows EXCEPT ![n].count = v]
           \/ rows' = [rows EXCEPT ![n].kept = v]
    PROVE  RowsInv' /\ ThisRun' = ThisRun
<1>1. Len(rows) \in Nat /\ DOMAIN rows = 1..Len(rows)
  BY ThisRunFinite
<1>2. /\ DOMAIN rows' = 1..Len(rows)
      /\ \A i \in 1..Len(rows) : DOMAIN rows'[i] = DOMAIN rows[i] /\ rows'[i].run = rows[i].run
  <2>1. CASE rows' = [rows EXCEPT ![n].count = v]
    BY <1>1, <2>1 DEF RowsInv
  <2>2. CASE rows' = [rows EXCEPT ![n].kept = v]
    BY <1>1, <2>2 DEF RowsInv
  <2>3. QED
    BY <2>1, <2>2
<1>3. rows' \in Seq({rows'[i] : i \in 1..Len(rows)})
  <2> DEFINE A == {rows'[i] : i \in 1..Len(rows)}
  <2>1. rows' \in [1..Len(rows) -> A]
    <3>1. rows' = [i \in 1..Len(rows) |-> rows'[i]]
      <4>1. CASE rows' = [rows EXCEPT ![n].count = v]
        BY <1>1, <4>1
      <4>2. CASE rows' = [rows EXCEPT ![n].kept = v]
        BY <1>1, <4>2
      <4>3. QED
        BY <4>1, <4>2
    <3>2. QED
      BY <3>1
  <2>2. QED
    BY <1>1, <2>1, SeqDef
<1>4. Len(rows') = Len(rows)
  BY <1>1, <1>2, <1>3, LenProperties
<1>5. RowsInv'
  BY <1>2, <1>3, <1>4 DEF RowsInv
<1>6. ThisRun' = ThisRun
  BY <1>1, <1>2 DEF ThisRun
<1>7. QED
  BY <1>5, <1>6

\* A step that leaves the emitter, the rows in hand and the rows' processes
\* alone keeps the books as they are.
LEMMA BooksUntouched ==
    ASSUME ExportInv, RowsInv', ThisRun' = ThisRun, UNCHANGED <<emitter, inHand, arrived>>
    PROVE  ExportInv'
<1>1. EmitterType' /\ OnePlace'
  BY DEF ExportInv, EmitterType, OnePlace
<1>2. ExportsAccounted'
  BY DEF ExportInv, ExportsAccounted
<1>3. QED
  BY <1>1, <1>2 DEF ExportInv

\* The emitter's numbers, and the sets of rows it holds.
LEMMA EmitterFacts ==
    ASSUME ExportInv
    PROVE  /\ emitter.open \in BOOLEAN /\ emitter.queue \in Seq(Nat)
           /\ emitter.admitted \in SUBSET Nat /\ emitter.sending \in SUBSET Nat
           /\ emitter.releasing \in SUBSET Nat /\ emitter.inflight \in Int
           /\ emitter.dropped \in Nat /\ emitter.delivered \in Nat /\ emitter.failures \in Nat
           /\ Len(emitter.queue) \in Nat /\ Probes \in Nat /\ arrived \in Nat
           /\ IsFiniteSet(inHand) /\ Cardinality(inHand) \in Nat
           /\ IsFiniteSet(emitter.admitted) /\ Cardinality(emitter.admitted) \in Nat
           /\ IsFiniteSet(emitter.sending) /\ Cardinality(emitter.sending) \in Nat
           /\ IsFiniteSet(emitter.releasing) /\ Cardinality(emitter.releasing) \in Nat
           /\ Cardinality(ThisRun) \in Nat /\ ThisRun \subseteq Nat
<1>1. /\ emitter.open \in BOOLEAN /\ emitter.queue \in Seq(Nat)
      /\ emitter.admitted \in SUBSET Nat /\ emitter.sending \in SUBSET Nat
      /\ emitter.releasing \in SUBSET Nat /\ emitter.inflight \in Int
      /\ emitter.dropped \in Nat /\ emitter.delivered \in Nat /\ emitter.failures \in Nat
  BY DEF ExportInv, EmitterType, Emitters
<1>2. /\ IsFiniteSet(inHand) /\ IsFiniteSet(emitter.admitted) /\ IsFiniteSet(emitter.sending)
      /\ IsFiniteSet(emitter.releasing) /\ arrived \in Nat /\ Probes \in Nat
  BY DEF ExportInv, EmitterType, Probes
<1>3. Len(emitter.queue) \in Nat
  BY <1>1, LenProperties
<1>4. /\ Cardinality(inHand) \in Nat /\ Cardinality(emitter.admitted) \in Nat
      /\ Cardinality(emitter.sending) \in Nat /\ Cardinality(emitter.releasing) \in Nat
  BY <1>2, FS_CardinalityType
<1>5. Cardinality(ThisRun) \in Nat /\ ThisRun \subseteq Nat
  BY ThisRunFinite DEF ExportInv
<1>6. QED
  BY <1>1, <1>2, <1>3, <1>4, <1>5

\* The rows with the emitter and not yet counted.
OnTheWay == Cardinality(emitter.admitted) + Len(emitter.queue) + Cardinality(emitter.sending)

\* Everything the emitter has counted, and what it has yet to count.
Counted ==
    Cardinality(inHand) + OnTheWay + emitter.dropped + emitter.failures + emitter.delivered

\* The slots that are taken.
SlotsMatch ==
    emitter.inflight = OnTheWay + Cardinality(emitter.releasing) /\ emitter.inflight <= QueueMax

\* The numbers alone.
LEMMA Counters ==
    ASSUME ExportInv
    PROVE  /\ Cardinality(inHand) \in Int /\ emitter.inflight \in Int /\ emitter.dropped \in Int
           /\ emitter.failures \in Int /\ emitter.delivered \in Int /\ OnTheWay \in Int
           /\ Counted \in Int
<1>1. Cardinality(inHand) \in Int /\ emitter.dropped \in Int /\ emitter.failures \in Int
  BY EmitterFacts
<1>2. emitter.delivered \in Int /\ emitter.inflight \in Int
  BY EmitterFacts
<1>3. OnTheWay \in Int
  <2>1. /\ Cardinality(emitter.admitted) \in Nat /\ Len(emitter.queue) \in Nat
        /\ Cardinality(emitter.sending) \in Nat
    BY EmitterFacts
  <2>2. QED
    BY <2>1 DEF OnTheWay
<1>4. QED
  BY <1>1, <1>2, <1>3 DEF Counted

\* What the open emitter's books say.
LEMMA OpenBooks ==
    ASSUME ExportInv, emitter.open
    PROVE  /\ SlotsMatch /\ emitter.delivered <= arrived + Probes
           /\ Counted <= Cardinality(ThisRun) + Probes
BY DEF ExportInv, ExportsAccounted, SlotsMatch, Counted, OnTheWay

\* The books balance after a step that counts no row twice.
LEMMA BooksBalance ==
    ASSUME ExportInv, ThisRun' = ThisRun, emitter'.open => emitter.open,
           emitter.open => SlotsMatch',
           emitter.open => emitter'.delivered <= arrived' + Probes,
           Counted' <= Counted, Counted' \in Int
    PROVE  ExportsAccounted'
<1>1. SUFFICES ASSUME emitter'.open
               PROVE  /\ SlotsMatch' /\ emitter'.delivered <= arrived' + Probes
                      /\ Counted' <= Cardinality(ThisRun) + Probes
  BY DEF ExportsAccounted, Counted, SlotsMatch, OnTheWay
<1>2. Counted <= Cardinality(ThisRun) + Probes
  BY <1>1, OpenBooks
<1>3. Counted \in Int /\ Cardinality(ThisRun) \in Nat /\ Probes \in Nat
  BY Counters, EmitterFacts
<1>4. Counted' <= Cardinality(ThisRun) + Probes
  BY <1>2, <1>3
<1>5. QED
  BY <1>1, <1>4

\* A new row goes to the hand of its writer, and nowhere else.
LEMMA InsertKeeps ==
    ASSUME ExportInv, NEW key, NEW prev, NEW evictions, Insert(key, prev, evictions),
           UNCHANGED <<emitter, arrived, run>>
    PROVE  ExportInv'
<1> DEFINE n == Len(rows) + 1
           r == [key |-> key, run |-> run, count |-> 1, prev |-> prev,
                 evictions |-> evictions, kept |-> TRUE]
<1>1. /\ Len(rows) \in Nat /\ DOMAIN rows = 1..Len(rows) /\ ThisRun \subseteq 1..Len(rows)
      /\ IsFiniteSet(ThisRun) /\ Cardinality(ThisRun) \in Nat
  BY ThisRunFinite DEF ExportInv
<1>2. rows' = Append(rows, r) /\ inHand' = inHand \cup {n} /\ r.run = run /\ "run" \in DOMAIN r
  BY DEF Insert
<1> HIDE DEF r
<1>3. /\ \E A : rows' \in Seq(A)
      /\ Len(rows') = n
      /\ \A i \in 1..Len(rows) : rows'[i] = rows[i]
      /\ rows'[n] = r
  <2>1. PICK A : rows \in Seq(A)
    BY DEF ExportInv, RowsInv
  <2>2. rows \in Seq(A \cup {r})
    BY <2>1, SeqMonotonic
  <2>3. QED
    BY <1>2, <2>2
<1>4. DOMAIN rows' = 1..n
  BY <1>3, LenProperties
<1>5. RowsInv'
  BY <1>1, <1>2, <1>3 DEF ExportInv, RowsInv
<1>6. ThisRun' = ThisRun \cup {n} /\ n \notin ThisRun
  BY <1>1, <1>2, <1>3, <1>4 DEF ThisRun
<1> HIDE DEF n
<1>7. n \notin inHand /\ IsFiniteSet(inHand)
  BY <1>6 DEF ExportInv, OnePlace, EmitterType
<1>8. /\ IsFiniteSet(inHand') /\ Cardinality(inHand') = Cardinality(inHand) + 1
      /\ Cardinality(ThisRun') = Cardinality(ThisRun) + 1 /\ Cardinality(inHand) \in Nat
  BY <1>1, <1>2, <1>6, <1>7, FS_AddElement, FS_CardinalityType
<1>9. EmitterType'
  BY <1>8 DEF ExportInv, EmitterType
<1>10. OnePlace'
  BY <1>2, <1>6 DEF ExportInv, OnePlace
<1>11. ExportsAccounted'
  <2>1. OnTheWay' = OnTheWay /\ SlotsMatch' = SlotsMatch /\ Counted' = Counted + 1
    <3>1. OnTheWay' = OnTheWay /\ SlotsMatch' = SlotsMatch
      BY DEF OnTheWay, SlotsMatch
    <3>2. QED
      BY <1>8, <3>1, Counters DEF Counted
  <2>2. ASSUME emitter.open
        PROVE  /\ SlotsMatch /\ emitter.delivered <= arrived + Probes
               /\ Counted' <= Cardinality(ThisRun') + Probes
    <3>1. /\ SlotsMatch /\ emitter.delivered <= arrived + Probes
          /\ Counted <= Cardinality(ThisRun) + Probes
      BY <2>2, OpenBooks
    <3>2. Probes \in Nat /\ Counted \in Int
      BY Counters, EmitterFacts
    <3>3. QED
      BY <1>1, <1>8, <2>1, <3>1, <3>2
  <2>3. QED
    BY <2>1, <2>2 DEF ExportsAccounted, SlotsMatch, OnTheWay, Counted
<1>12. QED
  BY <1>5, <1>9, <1>10, <1>11 DEF ExportInv

\* _submit_bounded: a slot of the queue, a counted drop, or nothing after
\* close.
LEMMA ExportKeeps ==
    ASSUME ExportInv, NEW i, Export(i)
    PROVE  ExportInv'
<1>1. /\ i \in inHand /\ inHand' = inHand \ {i} /\ i \in Nat /\ i \in ThisRun
      /\ rows' = rows /\ run' = run /\ arrived' = arrived
  BY EmitterFacts DEF Export, ExportInv, OnePlace
<1>2. RowsInv' /\ ThisRun' = ThisRun
  BY <1>1 DEF ExportInv, RowsInv, ThisRun
<1>3. IsFiniteSet(inHand') /\ Cardinality(inHand') = Cardinality(inHand) - 1
  BY <1>1, EmitterFacts, FS_RemoveElement
<1>4. CASE emitter' = emitter /\ ~emitter.open
  <2>1. EmitterType' /\ OnePlace'
    BY <1>1, <1>2, <1>3, <1>4 DEF ExportInv, EmitterType, OnePlace
  <2>2. ExportsAccounted'
    BY <1>4 DEF ExportsAccounted
  <2>3. QED
    BY <1>2, <2>1, <2>2 DEF ExportInv
<1>5. CASE emitter' = [emitter EXCEPT !.dropped = @ + 1] /\ emitter.open
  <2>1. /\ emitter'.open = emitter.open /\ emitter'.queue = emitter.queue
        /\ emitter'.admitted = emitter.admitted /\ emitter'.sending = emitter.sending
        /\ emitter'.releasing = emitter.releasing /\ emitter'.inflight = emitter.inflight
        /\ emitter'.dropped = emitter.dropped + 1 /\ emitter'.delivered = emitter.delivered
        /\ emitter'.failures = emitter.failures
    BY <1>5 DEF ExportInv, EmitterType, Emitters
  <2>2. EmitterType'
    BY <1>1, <1>3, <1>5, <2>1 DEF ExportInv, EmitterType, Emitters
  <2>3. OnePlace'
    BY <1>1, <1>2, <2>1 DEF ExportInv, OnePlace
  <2>4. OnTheWay' = OnTheWay
    BY <2>1 DEF OnTheWay
  <2>5. Counted' = Counted /\ Counted' \in Int
    BY <1>3, <2>1, <2>4, Counters DEF Counted
  <2>6. SlotsMatch' /\ emitter'.delivered <= arrived' + Probes
    BY <1>1, <1>5, <2>1, <2>4, OpenBooks DEF SlotsMatch
  <2>7. ExportsAccounted'
    BY <1>2, <1>5, <2>5, <2>6, Counters, BooksBalance
  <2>8. QED
    BY <1>2, <2>2, <2>3, <2>7 DEF ExportInv
<1>6. CASE /\ emitter' = [emitter EXCEPT !.inflight = @ + 1, !.admitted = @ \cup {i}]
           /\ emitter.open /\ ~(emitter.inflight >= QueueMax)
  <2>1. /\ emitter'.open = emitter.open /\ emitter'.queue = emitter.queue
        /\ emitter'.admitted = emitter.admitted \cup {i} /\ emitter'.sending = emitter.sending
        /\ emitter'.releasing = emitter.releasing /\ emitter'.inflight = emitter.inflight + 1
        /\ emitter'.dropped = emitter.dropped /\ emitter'.delivered = emitter.delivered
        /\ emitter'.failures = emitter.failures
    BY <1>6 DEF ExportInv, EmitterType, Emitters
  <2>2. emitter.admitted \cup {i} \in SUBSET Nat /\ emitter.inflight + 1 \in Int
    BY <1>1, EmitterFacts
  <2>3. /\ i \notin emitter.admitted /\ IsFiniteSet(emitter'.admitted)
        /\ Cardinality(emitter'.admitted) = Cardinality(emitter.admitted) + 1
    <3>1. i \notin emitter.admitted
      BY <1>1 DEF ExportInv, OnePlace
    <3>2. IsFiniteSet(emitter.admitted)
      BY EmitterFacts
    <3>3. QED
      BY <2>1, <3>1, <3>2, FS_AddElement
  <2>4. emitter' \in Emitters
    BY <1>6, <2>2 DEF ExportInv, EmitterType, Emitters
  <2>5. EmitterType'
    BY <1>1, <1>3, <2>1, <2>3, <2>4 DEF ExportInv, EmitterType
  <2>6. OnePlace'
    BY <1>1, <1>2, <2>1 DEF ExportInv, OnePlace
  <2>7. OnTheWay' = OnTheWay + 1
    <3>1. /\ Cardinality(emitter.sending) \in Nat /\ Cardinality(emitter.admitted) \in Nat
          /\ Len(emitter.queue) \in Nat
      BY EmitterFacts
    <3>2. QED
      BY <2>1, <2>3, <3>1 DEF OnTheWay
  <2>8. Counted' = Counted /\ Counted' \in Int
    BY <1>3, <2>1, <2>7, Counters DEF Counted
  <2>9. SlotsMatch' /\ emitter'.delivered <= arrived' + Probes
    <3>1. SlotsMatch /\ emitter.delivered <= arrived + Probes
      BY <1>6, OpenBooks
    <3>2. emitter'.inflight <= QueueMax
      <4>1. emitter.inflight \in Int /\ QueueMax \in Nat
        BY EmitterFacts, AuditTrailAssumption
      <4>2. QED
        BY <1>6, <2>1, <4>1
    <3>3. Cardinality(emitter.releasing) \in Nat /\ OnTheWay \in Int
      BY EmitterFacts, Counters
    <3>4. QED
      BY <1>1, <2>1, <2>7, <3>1, <3>2, <3>3 DEF SlotsMatch
  <2>10. ExportsAccounted'
    BY <1>2, <1>6, <2>8, <2>9, Counters, BooksBalance
  <2>11. QED
    BY <1>2, <2>5, <2>6, <2>10 DEF ExportInv
<1>7. QED
  BY <1>4, <1>5, <1>6, EmitterFacts DEF Export

\* The pool takes an admitted row, or has been shut down under it.
LEMMA SubmitKeeps ==
    ASSUME ExportInv, NEW i, Submit(i)
    PROVE  ExportInv'
<1> DEFINE q == emitter.queue
           a == Append(q, i)
<1>1. /\ i \in emitter.admitted /\ i \in Nat /\ i \in ThisRun
      /\ UNCHANGED <<rows, inHand, run, arrived>>
  BY EmitterFacts DEF Submit, ExportInv, OnePlace
<1>2. RowsInv' /\ ThisRun' = ThisRun
  BY <1>1 DEF ExportInv, RowsInv, ThisRun
<1>3. /\ IsFiniteSet(emitter.admitted \ {i}) /\ emitter.admitted \ {i} \in SUBSET Nat
      /\ Cardinality(emitter.admitted \ {i}) = Cardinality(emitter.admitted) - 1
  BY <1>1, EmitterFacts, FS_RemoveElement
<1>4. CASE /\ emitter' = [emitter EXCEPT !.admitted = @ \ {i}, !.queue = Append(@, i)]
           /\ emitter.open
  <2>1. /\ emitter'.open = emitter.open /\ emitter'.queue = a
        /\ emitter'.admitted = emitter.admitted \ {i} /\ emitter'.sending = emitter.sending
        /\ emitter'.releasing = emitter.releasing /\ emitter'.inflight = emitter.inflight
        /\ emitter'.dropped = emitter.dropped /\ emitter'.delivered = emitter.delivered
        /\ emitter'.failures = emitter.failures
    BY <1>4 DEF ExportInv, EmitterType, Emitters
  <2>2. /\ a \in Seq(Nat) /\ Len(a) = Len(q) + 1 /\ a[Len(q) + 1] = i
        /\ \A m \in 1..Len(q) : a[m] = q[m]
        /\ Len(q) \in Nat
    BY <1>1, EmitterFacts
  <2>3. emitter' = [emitter EXCEPT !.admitted = emitter.admitted \ {i}, !.queue = a]
    BY <1>4
  <2> HIDE DEF a
  <2>4. emitter' \in Emitters
    BY <1>3, <2>2, <2>3 DEF ExportInv, EmitterType, Emitters
  <2>5. EmitterType'
    BY <1>1, <1>3, <2>1, <2>4 DEF ExportInv, EmitterType
  <2>6. OnePlace'
    <3>1. /\ \A m \in 1..Len(q) : /\ q[m] \in ThisRun /\ q[m] \notin inHand \cup emitter.admitted
                                  /\ q[m] \notin emitter.sending \cup emitter.releasing
          /\ \A m, n \in 1..Len(q) : m # n => q[m] # q[n]
          /\ i \notin inHand /\ i \notin emitter.sending \cup emitter.releasing
      BY <1>1 DEF ExportInv, OnePlace
    <3>2. \A m \in 1..Len(a) : m \in 1..Len(q) \/ m = Len(q) + 1
      BY <2>2
    <3>3. \A m \in 1..Len(a) : /\ a[m] \in ThisRun /\ a[m] \notin inHand \cup (emitter.admitted \ {i})
                               /\ a[m] \notin emitter.sending \cup emitter.releasing
      BY <1>1, <2>2, <3>1, <3>2
    <3>4. \A m, n \in 1..Len(a) : m # n => a[m] # a[n]
      <4>1. \A m \in 1..Len(q) : q[m] # i
        BY <1>1, <3>1
      <4>2. QED
        BY <2>2, <3>1, <3>2, <4>1
    <3>5. /\ inHand \cup emitter'.admitted \cup emitter'.sending \cup emitter'.releasing
               \subseteq ThisRun
          /\ inHand \cap (emitter'.admitted \cup emitter'.sending \cup emitter'.releasing) = {}
          /\ emitter'.admitted \cap (emitter'.sending \cup emitter'.releasing) = {}
          /\ emitter'.sending \cap emitter'.releasing = {}
      BY <2>1 DEF ExportInv, OnePlace
    <3>6. QED
      BY <1>1, <1>2, <2>1, <3>3, <3>4, <3>5 DEF OnePlace
  <2>7. OnTheWay' = OnTheWay
    <3>1. Cardinality(emitter.sending) \in Nat /\ Cardinality(emitter.admitted) \in Nat
      BY EmitterFacts
    <3>2. QED
      BY <1>3, <2>1, <2>2, <3>1 DEF OnTheWay
  <2>8. Counted' = Counted /\ Counted' \in Int
    BY <1>1, <2>1, <2>7, Counters DEF Counted
  <2>9. SlotsMatch' /\ emitter'.delivered <= arrived' + Probes
    BY <1>1, <1>4, <2>1, <2>7, OpenBooks DEF SlotsMatch
  <2>10. ExportsAccounted'
    BY <1>2, <1>4, <2>8, <2>9, Counters, BooksBalance
  <2>11. QED
    BY <1>2, <2>5, <2>6, <2>10 DEF ExportInv
<1>5. CASE /\ ~emitter.open
           /\ \E n \in {0, 1} : emitter' = [emitter EXCEPT !.admitted = @ \ {i}, !.inflight = @ - n]
  <2>1. PICK n \in {0, 1} : emitter' = [emitter EXCEPT !.admitted = @ \ {i}, !.inflight = @ - n]
    BY <1>5
  <2>2. /\ emitter'.open = emitter.open /\ emitter'.queue = emitter.queue
        /\ emitter'.admitted = emitter.admitted \ {i} /\ emitter'.sending = emitter.sending
        /\ emitter'.releasing = emitter.releasing
    BY <2>1 DEF ExportInv, EmitterType, Emitters
  <2>3. emitter' \in Emitters
    <3>1. emitter.inflight - n \in Int
      BY EmitterFacts
    <3>2. QED
      BY <1>3, <2>1, <3>1 DEF ExportInv, EmitterType, Emitters
  <2>4. EmitterType'
    BY <1>1, <1>3, <2>2, <2>3 DEF ExportInv, EmitterType
  <2>5. OnePlace'
    BY <1>1, <1>2, <2>2 DEF ExportInv, OnePlace
  <2>6. ExportsAccounted'
    BY <1>5, <2>2 DEF ExportsAccounted
  <2>7. QED
    BY <1>2, <2>4, <2>5, <2>6 DEF ExportInv
<1>6. QED
  BY <1>4, <1>5 DEF Submit

\* A worker takes the oldest event: the row moves, the slot stays taken.
LEMMA DequeueKeeps ==
    ASSUME ExportInv, Dequeue
    PROVE  ExportInv'
<1> DEFINE q == emitter.queue
           h == Head(q)
           t == Tail(q)
<1>1. /\ q # << >> /\ q \in Seq(Nat) /\ UNCHANGED <<rows, inHand, run, arrived>>
      /\ emitter' = [emitter EXCEPT !.sending = emitter.sending \cup {h}, !.queue = t]
  BY EmitterFacts DEF Dequeue
<1>2. RowsInv' /\ ThisRun' = ThisRun
  BY <1>1 DEF ExportInv, RowsInv, ThisRun
<1>3. /\ h \in Nat /\ t \in Seq(Nat) /\ Len(t) = Len(q) - 1 /\ Len(q) \in Nat \ {0}
      /\ \A m \in 1..Len(t) : t[m] = q[m + 1]
  BY <1>1, HeadTailProperties, EmptySeq
<1>4. h = q[1]
  BY <1>1
<1> HIDE DEF h, t
<1>5. /\ emitter'.open = emitter.open /\ emitter'.queue = t
      /\ emitter'.admitted = emitter.admitted /\ emitter'.sending = emitter.sending \cup {h}
      /\ emitter'.releasing = emitter.releasing /\ emitter'.inflight = emitter.inflight
      /\ emitter'.dropped = emitter.dropped /\ emitter'.delivered = emitter.delivered
      /\ emitter'.failures = emitter.failures
  BY <1>1 DEF ExportInv, EmitterType, Emitters
<1>6. /\ \A m \in 1..Len(q) : /\ q[m] \in ThisRun /\ q[m] \notin inHand \cup emitter.admitted
                              /\ q[m] \notin emitter.sending \cup emitter.releasing
      /\ \A m, n \in 1..Len(q) : m # n => q[m] # q[n]
  BY DEF ExportInv, OnePlace
<1>7. /\ h \in ThisRun /\ h \notin inHand \cup emitter.admitted
      /\ h \notin emitter.sending \cup emitter.releasing
  BY <1>3, <1>4, <1>6
<1>8. /\ IsFiniteSet(emitter'.sending)
      /\ Cardinality(emitter'.sending) = Cardinality(emitter.sending) + 1
  <2>1. IsFiniteSet(emitter.sending)
    BY EmitterFacts
  <2>2. QED
    BY <1>5, <1>7, <2>1, FS_AddElement
<1>9. EmitterType'
  <2>1. emitter.sending \cup {h} \in SUBSET Nat
    BY <1>3, EmitterFacts
  <2>2. emitter' \in Emitters
    BY <1>1, <1>3, <2>1 DEF ExportInv, EmitterType, Emitters
  <2>3. QED
    BY <1>1, <1>5, <1>8, <2>2 DEF ExportInv, EmitterType
<1>10. OnePlace'
  <2>1. \A m \in 1..Len(t) : m + 1 \in 1..Len(q) /\ m + 1 # 1
    BY <1>3
  <2>2. \A m \in 1..Len(t) : /\ t[m] \in ThisRun /\ t[m] \notin inHand \cup emitter.admitted
                             /\ t[m] \notin emitter.sending \cup emitter.releasing /\ t[m] # h
    <3>1. 1 \in 1..Len(q)
      BY <1>3
    <3>2. QED
      BY <1>3, <1>4, <1>6, <2>1, <3>1
  <2>3. \A m, n \in 1..Len(t) : m # n => t[m] # t[n]
    <3>1. \A m, n \in 1..Len(t) : m # n => m + 1 # n + 1
      BY <1>3
    <3>2. QED
      BY <1>3, <1>6, <2>1, <3>1
  <2>4. /\ inHand \cup emitter'.admitted \cup emitter'.sending \cup emitter'.releasing
             \subseteq ThisRun
        /\ inHand \cap (emitter'.admitted \cup emitter'.sending \cup emitter'.releasing) = {}
        /\ emitter'.admitted \cap (emitter'.sending \cup emitter'.releasing) = {}
        /\ emitter'.sending \cap emitter'.releasing = {}
    BY <1>5, <1>7 DEF ExportInv, OnePlace
  <2>5. QED
    BY <1>1, <1>2, <1>5, <2>2, <2>3, <2>4 DEF OnePlace
<1>11. ExportsAccounted'
  <2>1. OnTheWay' = OnTheWay
    <3>1. Cardinality(emitter.sending) \in Nat /\ Cardinality(emitter.admitted) \in Nat
      BY EmitterFacts
    <3>2. QED
      BY <1>3, <1>5, <1>8, <3>1 DEF OnTheWay
  <2>2. Counted' = Counted /\ Counted' \in Int
    BY <1>1, <1>5, <2>1, Counters DEF Counted
  <2>3. emitter.open => SlotsMatch' /\ emitter'.delivered <= arrived' + Probes
    BY <1>1, <1>5, <2>1, OpenBooks DEF SlotsMatch
  <2>4. QED
    BY <1>2, <1>5, <2>2, <2>3, Counters, BooksBalance
<1>12. QED
  BY <1>2, <1>9, <1>10, <1>11 DEF ExportInv

\* The end of a delivery, acknowledged or not, counts the row once and leaves
\* its slot taken.
LEMMA SendKeeps ==
    ASSUME ExportInv, NEW i, Deliver(i) \/ SendFails(i)
    PROVE  ExportInv'
<1>1. /\ i \in emitter.sending /\ UNCHANGED <<rows, inHand, run>>
      /\ arrived' \in {arrived, arrived + 1}
      /\ \/ /\ emitter' = [emitter EXCEPT !.sending = emitter.sending \ {i},
                             !.releasing = emitter.releasing \cup {i},
                             !.delivered = emitter.delivered + 1, !.failures = 0]
            /\ arrived' = arrived + 1
         \/ emitter' = [emitter EXCEPT !.sending = emitter.sending \ {i},
                          !.releasing = emitter.releasing \cup {i},
                          !.failures = emitter.failures + 1]
  BY DEF Deliver, SendFails
<1>2. RowsInv' /\ ThisRun' = ThisRun
  BY <1>1 DEF ExportInv, RowsInv, ThisRun
<1>3. /\ emitter.sending \ {i} \in SUBSET Nat /\ emitter.releasing \cup {i} \in SUBSET Nat
      /\ emitter.delivered + 1 \in Nat /\ emitter.failures + 1 \in Nat /\ 0 \in Nat
      /\ arrived' \in Nat
  <2>1. /\ emitter.sending \in SUBSET Nat /\ emitter.releasing \in SUBSET Nat
        /\ emitter.delivered \in Nat /\ emitter.failures \in Nat /\ arrived \in Nat
    BY EmitterFacts
  <2>2. QED
    BY <1>1, <2>1
<1>4. emitter' \in Emitters
  BY <1>1, <1>3 DEF ExportInv, EmitterType, Emitters
<1>5. /\ emitter'.open = emitter.open /\ emitter'.queue = emitter.queue
      /\ emitter'.admitted = emitter.admitted /\ emitter'.sending = emitter.sending \ {i}
      /\ emitter'.releasing = emitter.releasing \cup {i}
      /\ emitter'.inflight = emitter.inflight /\ emitter'.dropped = emitter.dropped
      /\ \/ /\ emitter'.delivered = emitter.delivered + 1 /\ emitter'.failures = 0
            /\ arrived' = arrived + 1
         \/ emitter'.delivered = emitter.delivered /\ emitter'.failures = emitter.failures + 1
  BY <1>1 DEF ExportInv, EmitterType, Emitters
<1>6. /\ IsFiniteSet(emitter'.sending) /\ IsFiniteSet(emitter'.releasing)
      /\ Cardinality(emitter'.sending) = Cardinality(emitter.sending) - 1
      /\ Cardinality(emitter'.releasing) = Cardinality(emitter.releasing) + 1
  <2>1. IsFiniteSet(emitter.sending) /\ IsFiniteSet(emitter.releasing)
    BY EmitterFacts
  <2>2. i \notin emitter.releasing
    BY <1>1 DEF ExportInv, OnePlace
  <2>3. /\ IsFiniteSet(emitter.sending \ {i})
        /\ Cardinality(emitter.sending \ {i}) = Cardinality(emitter.sending) - 1
    BY <1>1, <2>1, FS_RemoveElement
  <2>4. /\ IsFiniteSet(emitter.releasing \cup {i})
        /\ Cardinality(emitter.releasing \cup {i}) = Cardinality(emitter.releasing) + 1
    BY <2>1, <2>2, FS_AddElement
  <2>5. QED
    BY <1>5, <2>3, <2>4
<1>7. EmitterType'
  BY <1>1, <1>3, <1>4, <1>5, <1>6 DEF ExportInv, EmitterType
<1>8. OnePlace'
  BY <1>1, <1>2, <1>5 DEF ExportInv, OnePlace
<1>9. ExportsAccounted'
  <2>1. OnTheWay' = OnTheWay - 1
    <3>1. /\ Cardinality(emitter.sending) \in Nat /\ Cardinality(emitter.admitted) \in Nat
          /\ Len(emitter.queue) \in Nat
      BY EmitterFacts
    <3>2. QED
      BY <1>5, <1>6, <3>1 DEF OnTheWay
  <2>2. Counted' <= Counted /\ Counted' \in Int
    <3>1. emitter.failures >= 0 /\ Cardinality(inHand') = Cardinality(inHand)
      BY <1>1, EmitterFacts
    <3>2. CASE emitter'.delivered = emitter.delivered + 1 /\ emitter'.failures = 0
      BY <1>5, <2>1, <3>1, <3>2, Counters DEF Counted
    <3>3. CASE emitter'.delivered = emitter.delivered /\ emitter'.failures = emitter.failures + 1
      BY <1>5, <2>1, <3>1, <3>3, Counters DEF Counted
    <3>4. QED
      BY <1>5, <3>2, <3>3
  <2>3. ASSUME emitter.open
        PROVE  SlotsMatch' /\ emitter'.delivered <= arrived' + Probes
    <3>1. SlotsMatch /\ emitter.delivered <= arrived + Probes
      BY <2>3, OpenBooks
    <3>2. /\ Cardinality(emitter.releasing) \in Nat /\ OnTheWay \in Int
          /\ emitter.delivered \in Nat /\ arrived \in Nat /\ Probes \in Nat
      BY EmitterFacts, Counters
    <3>3. SlotsMatch'
      BY <1>5, <1>6, <2>1, <3>1, <3>2 DEF SlotsMatch
    <3>4. emitter'.delivered <= arrived' + Probes
      BY <1>1, <1>5, <3>1, <3>2
    <3>5. QED
      BY <3>3, <3>4
  <2>4. QED
    BY <1>2, <1>5, <2>2, <2>3, BooksBalance
<1>10. QED
  BY <1>2, <1>7, <1>8, <1>9 DEF ExportInv

\* The slot is given back, whatever became of the row.
LEMMA ReleaseKeeps ==
    ASSUME ExportInv, NEW i, Release(i)
    PROVE  ExportInv'
<1>1. /\ i \in emitter.releasing /\ UNCHANGED <<rows, inHand, run, arrived>>
      /\ emitter' = [emitter EXCEPT !.releasing = emitter.releasing \ {i},
                                    !.inflight = emitter.inflight - 1]
  BY DEF Release
<1>2. RowsInv' /\ ThisRun' = ThisRun
  BY <1>1 DEF ExportInv, RowsInv, ThisRun
<1>3. /\ emitter'.open = emitter.open /\ emitter'.queue = emitter.queue
      /\ emitter'.admitted = emitter.admitted /\ emitter'.sending = emitter.sending
      /\ emitter'.releasing = emitter.releasing \ {i}
      /\ emitter'.inflight = emitter.inflight - 1 /\ emitter'.dropped = emitter.dropped
      /\ emitter'.delivered = emitter.delivered /\ emitter'.failures = emitter.failures
  BY <1>1 DEF ExportInv, EmitterType, Emitters
<1>4. /\ IsFiniteSet(emitter'.releasing)
      /\ Cardinality(emitter'.releasing) = Cardinality(emitter.releasing) - 1
  <2>1. IsFiniteSet(emitter.releasing)
    BY EmitterFacts
  <2>2. QED
    BY <1>1, <1>3, <2>1, FS_RemoveElement
<1>5. EmitterType'
  <2>1. emitter.releasing \ {i} \in SUBSET Nat /\ emitter.inflight - 1 \in Int
    BY EmitterFacts
  <2>2. emitter' \in Emitters
    BY <1>1, <2>1 DEF ExportInv, EmitterType, Emitters
  <2>3. QED
    BY <1>1, <1>3, <1>4, <2>2 DEF ExportInv, EmitterType
<1>6. OnePlace'
  BY <1>1, <1>2, <1>3 DEF ExportInv, OnePlace
<1>7. OnTheWay' = OnTheWay
  BY <1>3 DEF OnTheWay
<1>8. Counted' = Counted /\ Counted' \in Int
  BY <1>1, <1>3, <1>7, Counters DEF Counted
<1>9. ASSUME emitter.open
      PROVE  SlotsMatch' /\ emitter'.delivered <= arrived' + Probes
  <2>1. SlotsMatch /\ emitter.delivered <= arrived + Probes
    BY <1>9, OpenBooks
  <2>2. /\ Cardinality(emitter.releasing) \in Nat /\ OnTheWay \in Int
        /\ emitter.inflight \in Int /\ QueueMax \in Nat
    BY EmitterFacts, Counters, AuditTrailAssumption
  <2>3. QED
    BY <1>1, <1>3, <1>4, <1>7, <2>1, <2>2 DEF SlotsMatch
<1>10. ExportsAccounted'
  BY <1>2, <1>3, <1>8, <1>9, Counters, BooksBalance
<1>11. QED
  BY <1>2, <1>5, <1>6, <1>10 DEF ExportInv

\* A process starts with nothing counted but the probe.
LEMMA FreshBooks ==
    RowsInv /\ inHand = {} /\ emitter = FreshEmitter /\ arrived = 0 => ExportInv
<1> SUFFICES ASSUME RowsInv, inHand = {}, emitter = FreshEmitter, arrived = 0
             PROVE  ExportInv
  OBVIOUS
<1>1. Probes \in Nat /\ QueueMax \in Nat
  BY AuditTrailAssumption DEF Probes
<1>2. /\ emitter.open = TRUE /\ emitter.queue = << >> /\ emitter.sending = {}
      /\ emitter.admitted = {} /\ emitter.releasing = {}
      /\ emitter.inflight = 0 /\ emitter.dropped = 0 /\ emitter.delivered = Probes
      /\ emitter.failures = 0
  BY DEF FreshEmitter
<1>3. IsFiniteSet({}) /\ Cardinality({}) = 0
  BY FS_EmptySet
<1>4. emitter \in Emitters
  BY <1>1 DEF Emitters, FreshEmitter
<1>5. EmitterType
  BY <1>2, <1>3, <1>4 DEF EmitterType
<1>6. OnePlace
  BY <1>2 DEF OnePlace
<1>7. Cardinality(ThisRun) \in Nat
  BY ThisRunFinite
<1>8. ExportsAccounted
  BY <1>1, <1>2, <1>3, <1>7 DEF ExportsAccounted
<1>9. QED
  BY <1>5, <1>6, <1>8 DEF ExportInv

\* Shutdown cancels what is queued; a restart begins new books.
LEMMA CloseRestartKeeps ==
    ASSUME ExportInv, Close \/ Restart
    PROVE  ExportInv'
<1>1. CASE Close
  <2>1. /\ emitter' = [emitter EXCEPT !.open = FALSE, !.queue = << >>]
        /\ UNCHANGED <<rows, inHand, run, arrived>>
    BY <1>1 DEF Close
  <2>2. /\ emitter'.open = FALSE /\ emitter'.queue = << >> /\ emitter'.sending = emitter.sending
        /\ emitter'.admitted = emitter.admitted /\ emitter'.releasing = emitter.releasing
    BY <2>1 DEF ExportInv, EmitterType, Emitters
  <2>3. RowsInv' /\ ThisRun' = ThisRun
    BY <2>1 DEF ExportInv, RowsInv, ThisRun
  <2>4. EmitterType'
    <3>1. << >> \in Seq(Nat) /\ FALSE \in BOOLEAN
      BY EmptySeq
    <3>2. emitter' \in Emitters
      BY <2>1, <3>1 DEF ExportInv, EmitterType, Emitters
    <3>3. QED
      BY <2>1, <2>2, <3>2 DEF ExportInv, EmitterType
  <2>5. OnePlace'
    BY <2>1, <2>2, <2>3 DEF ExportInv, OnePlace
  <2>6. ExportsAccounted'
    BY <2>2 DEF ExportsAccounted
  <2>7. QED
    BY <2>3, <2>4, <2>5, <2>6 DEF ExportInv
<1>2. CASE Restart
  <2>1. /\ inHand' = {} /\ emitter' = FreshEmitter /\ arrived' = 0 /\ rows' = rows
    BY <1>2 DEF Restart
  <2>2. RowsInv'
    BY <2>1 DEF ExportInv, RowsInv
  <2>3. (RowsInv /\ inHand = {} /\ emitter = FreshEmitter /\ arrived = 0)'
    BY <2>1, <2>2 DEF FreshEmitter, Probes
  <2>4. QED
    BY <2>3, FreshBooks, PTL
<1>3. QED
  BY <1>1, <1>2

\* Every step of the coalescer, the operator, the emitter and the process.
LEMMA ExportInvNext ==
    ASSUME ExportInv, [Next]_vars
    PROVE  ExportInv'
<1>1. ASSUME NEW k \in Keys, Fold(k)
      PROVE  ExportInv'
  BY <1>1, RowUpdated, BooksUntouched DEF Fold, ExportInv
<1>2. ASSUME NEW k \in Keys, FoldRaises(k) \/ OpenRaises(k)
      PROVE  ExportInv'
  <2>1. UNCHANGED <<rows, run, emitter, inHand, arrived>>
    BY <1>2 DEF FoldRaises, OpenRaises
  <2>2. RowsInv' /\ ThisRun' = ThisRun
    BY <2>1 DEF ExportInv, RowsInv, ThisRun
  <2>3. QED
    BY <2>1, <2>2, BooksUntouched
<1>3. ASSUME NEW k \in Keys, Open(k)
      PROVE  ExportInv'
  BY <1>3, InsertKeeps DEF Open
<1>4. ASSUME NEW i \in DOMAIN rows, Archive(i)
      PROVE  ExportInv'
  BY <1>4, RowUpdated, BooksUntouched DEF Archive, ExportInv
<1>5. ASSUME NEW i \in DOMAIN rows,
             Export(i) \/ Submit(i) \/ Deliver(i) \/ SendFails(i) \/ Release(i)
      PROVE  ExportInv'
  BY <1>5, ExportKeeps, SubmitKeeps, SendKeeps, ReleaseKeeps
<1>6. CASE Lapse \/ UNCHANGED vars
  <2>1. UNCHANGED <<rows, run, emitter, inHand, arrived>>
    BY <1>6 DEF Lapse, vars
  <2>2. RowsInv' /\ ThisRun' = ThisRun
    BY <2>1 DEF ExportInv, RowsInv, ThisRun
  <2>3. QED
    BY <2>1, <2>2, BooksUntouched
<1>7. CASE RecordPlain
  BY <1>7, InsertKeeps DEF RecordPlain
<1>8. CASE Dequeue \/ Close \/ Restart
  BY <1>8, DequeueKeeps, CloseRestartKeeps
<1>9. QED
  BY <1>1, <1>2, <1>3, <1>4, <1>5, <1>6, <1>7, <1>8 DEF Next

\* The books are in order from the start.
LEMMA ExportInvInit == Init => ExportInv
<1>1. SUFFICES ASSUME Init PROVE ExportInv
  OBVIOUS
<1>2. rows = << >>
  BY <1>1 DEF Init
<1>3. << >> \in Seq({}) /\ Len(<< >>) = 0
  BY EmptySeq
<1>4. RowsInv
  BY <1>2, <1>3 DEF RowsInv
<1>5. QED
  BY <1>1, <1>4, FreshBooks DEF Init

\* Whatever the queue's limit, the number of worker threads and of processes:
\* between any two sections under the emitter's lock, while it is open, no slot
\* of its queue is leaked or taken beyond the limit, no row is counted twice,
\* and what it counts as delivered has arrived.
THEOREM ExportBooksBalance == Spec => []ExportsAccounted
<1>1. ExportInv => ExportsAccounted
  BY DEF ExportInv
<1>2. QED
  BY <1>1, ExportInvInit, ExportInvNext, PTL DEF Spec

-----------------------------------------------------------------------------
(* The coalescer.  A window in the index stands for the latest row of its  *)
(* key, and its tally is ahead of that row's by no more than the denials   *)
(* whose own write failed.                                                 *)

Row == [key : Keys \cup {NoKey}, run : Nat, count : Nat, prev : Nat, evictions : Nat,
        kept : BOOLEAN]
Window == [key : Keys, row : Nat, count : Nat, lapsed : BOOLEAN, touch : Nat]

TrailType ==
    /\ rows \in Seq(Row)
    /\ windows \in SUBSET Window /\ IsFiniteSet(windows)
    /\ calls \in Nat /\ evicted \in Nat /\ run \in Nat
    /\ recorded \in [Keys -> Nat] /\ raised \in [Keys -> Nat]

\* Row j is the last of its key and process.
Latest(j) == \A m \in DOMAIN rows : m > j => ~SameKey(j, m)

\* A key has one window, and the window the key's latest row.
WindowsMatch ==
    /\ \A v, w \in windows : v.key = w.key => v = w
    /\ \A w \in windows :
         /\ w.row \in DOMAIN rows /\ rows[w.row].key = w.key /\ rows[w.row].run = run
         /\ rows[w.row].count <= w.count
         /\ Latest(w.row)

RunsPast == \A i \in DOMAIN rows : rows[i].run <= run

TrailInv == TrailType /\ WindowsMatch /\ RunsPast

\* A row has the fields of one.
LEMMA RowTyped ==
    ASSUME TrailType, NEW i \in DOMAIN rows
    PROVE  /\ rows[i] \in Row /\ rows[i].key \in Keys \cup {NoKey} /\ rows[i].run \in Nat
           /\ rows[i].count \in Nat /\ rows[i].prev \in Nat /\ rows[i].evictions \in Nat
           /\ i \in Nat
<1>1. rows \in Seq(Row) /\ DOMAIN rows = 1..Len(rows) /\ Len(rows) \in Nat
  BY LenProperties DEF TrailType
<1>2. rows[i] \in Row
  BY <1>1, ElementOfSeq
<1>3. QED
  BY <1>1, <1>2 DEF Row

\* A window that is found is the key's.
LEMMA WindowFound ==
    ASSUME NEW k, HasWindow(k)
    PROVE  WindowOf(k) \in windows /\ WindowOf(k).key = k
  BY DEF HasWindow, WindowOf

\* Making room takes windows away, and counts each.
LEMMA RoomIsMade ==
    ASSUME TrailType, NEW ws \in SUBSET windows
    PROVE  /\ MadeRoom(ws) \subseteq ws
           /\ EvictedAfter(ws) \in Nat /\ EvictedAfter(ws) >= evicted
           /\ MadeRoom(ws) # ws => EvictedAfter(ws) > 0
<1>1. MadeRoom(ws) \in SUBSET ws
  BY DEF MadeRoom, Unlapsed
<1>2. IsFiniteSet(ws)
  BY FS_Subset DEF TrailType
<1>3. /\ IsFiniteSet(MadeRoom(ws)) /\ Cardinality(MadeRoom(ws)) <= Cardinality(ws)
      /\ Cardinality(ws) = Cardinality(MadeRoom(ws)) => ws = MadeRoom(ws)
  BY <1>1, <1>2, FS_Subset
<1>4. Cardinality(ws) \in Nat /\ Cardinality(MadeRoom(ws)) \in Nat /\ evicted \in Nat
  BY <1>2, <1>3, FS_CardinalityType DEF TrailType
<1>5. QED
  BY <1>1, <1>3, <1>4 DEF EvictedAfter

\* What the table becomes when a row is inserted.
LEMMA RowInserted ==
    ASSUME TrailType, NEW key \in Keys \cup {NoKey}, NEW prev \in Nat, NEW evictions \in Nat,
           Insert(key, prev, evictions)
    PROVE  LET n == Len(rows) + 1
           IN /\ rows' \in Seq(Row) /\ Len(rows) \in Nat
              /\ DOMAIN rows = 1..Len(rows) /\ DOMAIN rows' = 1..n
              /\ n \notin DOMAIN rows /\ DOMAIN rows' = DOMAIN rows \cup {n}
              /\ \A i \in DOMAIN rows : rows'[i] = rows[i] /\ i < n
              /\ rows'[n].key = key /\ rows'[n].run = run /\ rows'[n].count = 1
              /\ rows'[n].prev = prev /\ rows'[n].evictions = evictions /\ rows'[n].kept = TRUE
<1> DEFINE n == Len(rows) + 1
           r == [key |-> key, run |-> run, count |-> 1, prev |-> prev,
                 evictions |-> evictions, kept |-> TRUE]
<1>1. rows \in Seq(Row) /\ Len(rows) \in Nat /\ DOMAIN rows = 1..Len(rows)
  BY LenProperties DEF TrailType
<1>2. r \in Row
  BY DEF Row, TrailType
<1>3. rows' = Append(rows, r)
  BY DEF Insert
<1>4. /\ r.key = key /\ r.run = run /\ r.count = 1
      /\ r.prev = prev /\ r.evictions = evictions /\ r.kept = TRUE
  OBVIOUS
<1> HIDE DEF r
<1>5. /\ rows' \in Seq(Row) /\ Len(rows') = n /\ rows'[n] = r
      /\ \A i \in 1..Len(rows) : rows'[i] = rows[i]
  BY <1>1, <1>2, <1>3
<1>6. DOMAIN rows' = 1..n
  BY <1>5, LenProperties
<1>7. n \notin DOMAIN rows /\ DOMAIN rows' = DOMAIN rows \cup {n} /\ \A i \in DOMAIN rows : i < n
  BY <1>1, <1>6
<1>8. QED
  BY <1>1, <1>4, <1>5, <1>6, <1>7

\* What the table becomes when a row is tallied or archived.
LEMMA RowChanged ==
    ASSUME TrailType, NEW n \in DOMAIN rows, NEW c \in Nat,
           \/ rows' = [rows EXCEPT ![n].count = c]
           \/ rows' = [rows EXCEPT ![n].kept = FALSE] /\ c = rows[n].count
    PROVE  /\ rows' \in Seq(Row) /\ DOMAIN rows' = DOMAIN rows
           /\ \A i \in DOMAIN rows :
                /\ rows'[i].key = rows[i].key /\ rows'[i].run = rows[i].run
                /\ rows'[i].prev = rows[i].prev /\ rows'[i].evictions = rows[i].evictions
                /\ rows'[i].kept = rows[i].kept \/ rows'[i].kept = FALSE
                /\ rows'[i].count = IF i = n THEN c ELSE rows[i].count
<1>1. rows \in Seq(Row) /\ DOMAIN rows = 1..Len(rows) /\ Len(rows) \in Nat
  BY LenProperties DEF TrailType
<1>2. rows[n] \in Row
  BY <1>1, ElementOfSeq
<1>3. CASE rows' = [rows EXCEPT ![n].count = c]
  <2> DEFINE r == [rows[n] EXCEPT !.count = c]
  <2>1. /\ r \in Row /\ r.key = rows[n].key /\ r.run = rows[n].run /\ r.prev = rows[n].prev
        /\ r.evictions = rows[n].evictions /\ r.kept = rows[n].kept /\ r.count = c
    BY <1>2 DEF Row
  <2>2. rows' = [rows EXCEPT ![n] = r]
    BY <1>3
  <2> HIDE DEF r
  <2>3. rows' \in Seq(Row) /\ \A j \in 1..Len(rows) : rows'[j] = IF j = n THEN r ELSE rows[j]
    BY <1>1, <2>1, <2>2, ExceptSeq
  <2>4. DOMAIN rows' = DOMAIN rows
    BY <2>2
  <2>5. QED
    BY <1>1, <2>1, <2>3, <2>4
<1>4. CASE rows' = [rows EXCEPT ![n].kept = FALSE] /\ c = rows[n].count
  <2> DEFINE r == [rows[n] EXCEPT !.kept = FALSE]
  <2>1. /\ r \in Row /\ r.key = rows[n].key /\ r.run = rows[n].run /\ r.prev = rows[n].prev
        /\ r.evictions = rows[n].evictions /\ r.kept = FALSE /\ r.count = c
    BY <1>2, <1>4 DEF Row
  <2>2. rows' = [rows EXCEPT ![n] = r]
    BY <1>4
  <2> HIDE DEF r
  <2>3. rows' \in Seq(Row) /\ \A j \in 1..Len(rows) : rows'[j] = IF j = n THEN r ELSE rows[j]
    BY <1>1, <2>1, <2>2, ExceptSeq
  <2>4. DOMAIN rows' = DOMAIN rows
    BY <2>2
  <2>5. QED
    BY <1>1, <2>1, <2>3, <2>4
<1>5. QED
  BY <1>3, <1>4

\* A window that is folded into counts one more and is the last one touched.
LEMMA WindowTouched ==
    ASSUME TrailInv, NEW k \in Keys, Called, HasWindow(k)
    PROVE  LET w == WindowOf(k)
               t == Touched(w)
               ws == Without(windows, k) \cup {t}
           IN /\ w \in windows /\ w.key = k /\ w.row \in DOMAIN rows /\ w.count \in Nat
              /\ calls' \in Nat
              /\ t \in Window /\ t.key = k /\ t.row = w.row /\ t.count = w.count + 1
              /\ ws \in SUBSET Window /\ IsFiniteSet(ws)
              /\ \A v \in ws : (v \in windows /\ v.key # k) \/ v = t
<1> DEFINE w == WindowOf(k)
           t == Touched(w)
<1>1. w \in windows /\ w.key = k
  BY WindowFound
<1>2. w \in Window /\ calls' \in Nat /\ w.row \in DOMAIN rows /\ w.count \in Nat
  BY <1>1 DEF TrailInv, TrailType, Called, WindowsMatch, Window
<1>3. t \in Window /\ t.key = k /\ t.row = w.row /\ t.count = w.count + 1
  <2>1. PICK c \in Nat, m \in Nat : c = w.count + 1 /\ m = calls'
    BY <1>2
  <2>2. t = [w EXCEPT !.count = c, !.touch = m]
    BY <2>1 DEF Touched
  <2> HIDE DEF w, t
  <2>3. t \in Window /\ t.key = w.key /\ t.row = w.row /\ t.count = c
    BY <1>2, <2>2 DEF Window
  <2>4. QED
    BY <1>1, <2>1, <2>3
<1> HIDE DEF t
<1>4. Without(windows, k) \in SUBSET windows
  BY DEF Without
<1>5. IsFiniteSet(Without(windows, k) \cup {t})
  BY <1>4, FS_Subset, FS_AddElement DEF TrailInv, TrailType
<1>6. QED
  BY <1>1, <1>2, <1>3, <1>4, <1>5 DEF Without, t, TrailInv, TrailType

\* A fold, written or not.
LEMMA FoldTrail ==
    ASSUME TrailInv, NEW k \in Keys, Fold(k) \/ FoldRaises(k)
    PROVE  TrailInv'
<1> DEFINE w == WindowOf(k)
           t == Touched(w)
<1>1. /\ w \in windows /\ w.key = k /\ w.row \in DOMAIN rows /\ w.count \in Nat
      /\ calls' \in Nat
      /\ t \in Window /\ t.key = k /\ t.row = w.row /\ t.count = w.count + 1
      /\ windows' \in SUBSET Window /\ IsFiniteSet(windows')
      /\ \A v \in windows' : (v \in windows /\ v.key # k) \/ v = t
  BY WindowTouched DEF Fold, FoldRaises, Folds
<1> HIDE DEF t, w
<1>2. /\ evicted' = evicted /\ run' = run
      /\ recorded' \in [Keys -> Nat] /\ raised' \in [Keys -> Nat]
  <2>1. /\ evicted' = evicted /\ run' = run
        /\ recorded' = recorded \/ recorded' = [recorded EXCEPT ![k] = @ + 1]
        /\ raised' = raised \/ raised' = [raised EXCEPT ![k] = @ + 1]
    BY DEF Fold, FoldRaises
  <2>2. recorded \in [Keys -> Nat] /\ raised \in [Keys -> Nat]
    BY DEF TrailInv, TrailType
  <2>3. QED
    BY <2>1, <2>2
<1>3. /\ rows' \in Seq(Row) /\ DOMAIN rows' = DOMAIN rows
      /\ \A i \in DOMAIN rows :
           /\ rows'[i].key = rows[i].key /\ rows'[i].run = rows[i].run
           /\ rows'[i].count = rows[i].count \/ (i = w.row /\ rows'[i].count = w.count + 1)
  <2>1. CASE Fold(k)
    <3>1. rows' = [rows EXCEPT ![w.row].count = w.count + 1] /\ w.count + 1 \in Nat
      BY <1>1, <2>1 DEF Fold, w
    <3>2. PICK m \in DOMAIN rows, c \in Nat : m = w.row /\ c = w.count + 1
      BY <1>1, <3>1
    <3>3. rows' = [rows EXCEPT ![m].count = c]
      BY <3>1, <3>2
    <3>4. /\ rows' \in Seq(Row) /\ DOMAIN rows' = DOMAIN rows
          /\ \A i \in DOMAIN rows :
               /\ rows'[i].key = rows[i].key /\ rows'[i].run = rows[i].run
               /\ rows'[i].count = IF i = m THEN c ELSE rows[i].count
      BY <3>3, RowChanged DEF TrailInv
    <3>5. QED
      BY <3>2, <3>4
  <2>2. CASE FoldRaises(k)
    BY <2>2 DEF FoldRaises, TrailInv, TrailType
  <2>3. QED
    BY <2>1, <2>2
<1>4. TrailType'
  BY <1>1, <1>2, <1>3 DEF TrailInv, TrailType
<1>5. RunsPast'
  BY <1>2, <1>3 DEF TrailInv, RunsPast
<1>6. WindowsMatch'
  <2>1. \A u, v \in windows' : u.key = v.key => u = v
    BY <1>1 DEF TrailInv, WindowsMatch
  <2>2. ASSUME NEW v \in windows'
        PROVE  /\ v.row \in DOMAIN rows' /\ rows'[v.row].key = v.key /\ rows'[v.row].run = run'
               /\ Latest(v.row)'
    <3>1. PICK u \in windows : u.key = v.key /\ u.row = v.row
      BY <1>1, <2>2
    <3>2. /\ u.row \in DOMAIN rows /\ rows[u.row].key = u.key /\ rows[u.row].run = run
          /\ Latest(u.row)
      BY <3>1 DEF TrailInv, WindowsMatch
    <3>3. Latest(v.row)'
      BY <1>3, <3>1, <3>2 DEF Latest, SameKey
    <3>4. QED
      BY <1>2, <1>3, <3>1, <3>2, <3>3
  <2>3. ASSUME NEW v \in windows'
        PROVE  rows'[v.row].count <= v.count
    <3>1. w.row \in DOMAIN rows /\ rows[w.row].count <= w.count /\ rows[w.row].key = k
      BY <1>1 DEF TrailInv, WindowsMatch
    <3>2. rows[w.row].count \in Nat
      BY <3>1, RowTyped DEF TrailInv
    <3>3. CASE v = t
      BY <1>1, <1>3, <3>1, <3>2, <3>3
    <3>4. CASE v \in windows /\ v.key # k
      <4>1. v.row \in DOMAIN rows /\ rows[v.row].count <= v.count /\ rows[v.row].key = v.key
        BY <3>4 DEF TrailInv, WindowsMatch
      <4>2. v.row # w.row
        BY <3>1, <3>4, <4>1
      <4>3. QED
        BY <1>3, <4>1, <4>2
    <3>5. QED
      BY <1>1, <3>3, <3>4
  <2>4. QED
    BY <2>1, <2>2, <2>3 DEF WindowsMatch
<1>7. QED
  BY <1>4, <1>5, <1>6 DEF TrailInv

\* The index a denial that opens a row works on, and the tally it hands on.
LEMMA OpensFrom ==
    ASSUME TrailInv, NEW k \in Keys
    PROVE  /\ Indexed(k) \in SUBSET windows /\ HandOff(k) \in Nat
           /\ MadeRoom(Indexed(k)) \in SUBSET windows
           /\ EvictedAfter(Indexed(k)) \in Nat /\ EvictedAfter(Indexed(k)) >= evicted
<1>1. Indexed(k) \in SUBSET windows
  BY DEF Indexed, Without
<1>2. HandOff(k) \in Nat
  BY WindowFound DEF HandOff, TrailInv, TrailType, Window
<1>3. QED
  BY <1>1, <1>2, RoomIsMade DEF TrailInv

\* A new row of a key takes over from whatever window the key had.
LEMMA OpenTrail ==
    ASSUME TrailInv, NEW k \in Keys, Open(k)
    PROVE  TrailInv'
<1> DEFINE ws == Without(MadeRoom(Indexed(k)), k)
<1>1. PICK n : n = Len(rows) + 1
  OBVIOUS
<1>2. PICK f : f = [key |-> k, row |-> n, count |-> 1, lapsed |-> FALSE, touch |-> calls']
  OBVIOUS
<1>3. /\ Insert(k, HandOff(k), evicted') /\ evicted' = EvictedAfter(Indexed(k))
      /\ windows' = ws \cup {f} /\ run' = run /\ calls' = calls + 1
      /\ recorded' = [recorded EXCEPT ![k] = @ + 1] /\ raised' = raised
  BY <1>1, <1>2 DEF Open, Called
<1>4. evicted' \in Nat /\ HandOff(k) \in Nat /\ calls' \in Nat
  BY <1>3, OpensFrom DEF TrailInv, TrailType
<1>5. /\ rows' \in Seq(Row) /\ Len(rows) \in Nat
      /\ DOMAIN rows = 1..Len(rows) /\ DOMAIN rows' = 1..n
      /\ n \notin DOMAIN rows /\ DOMAIN rows' = DOMAIN rows \cup {n}
      /\ \A i \in DOMAIN rows : rows'[i] = rows[i] /\ i < n
      /\ rows'[n].key = k /\ rows'[n].run = run /\ rows'[n].count = 1
  BY <1>1, <1>3, <1>4, RowInserted DEF TrailInv
<1>6. f \in Window /\ f.key = k /\ f.row = n /\ f.count = 1
  BY <1>2, <1>4, <1>5, <1>1 DEF Window
<1>7. ws \in SUBSET windows /\ \A v \in ws : v.key # k
  BY OpensFrom DEF Without
<1> HIDE DEF ws
<1>8. windows' \in SUBSET Window /\ IsFiniteSet(windows')
  <2>1. windows \in SUBSET Window /\ IsFiniteSet(windows)
    BY DEF TrailInv, TrailType
  <2>2. IsFiniteSet(ws)
    BY <1>7, <2>1, FS_Subset
  <2>3. IsFiniteSet(ws \cup {f})
    BY <2>2, FS_AddElement
  <2>4. QED
    BY <1>3, <1>6, <1>7, <2>1, <2>3
<1>9. recorded' \in [Keys -> Nat]
  BY <1>3 DEF TrailInv, TrailType
<1>10. TrailType'
  BY <1>3, <1>4, <1>5, <1>8, <1>9 DEF TrailInv, TrailType
<1>11. RunsPast'
  <2>1. \A i \in DOMAIN rows : rows[i].run <= run
    BY DEF TrailInv, RunsPast
  <2>2. run <= run
    BY DEF TrailInv, TrailType
  <2>3. \A i \in DOMAIN rows' : rows'[i].run <= run
    BY <1>5, <2>1, <2>2
  <2>4. QED
    BY <1>3, <2>3 DEF RunsPast
<1>12. WindowsMatch'
  <2>1. \A u, v \in windows' : u.key = v.key => u = v
    BY <1>3, <1>6, <1>7 DEF TrailInv, WindowsMatch
  <2>2. ASSUME NEW v \in ws
        PROVE  /\ v.row \in DOMAIN rows' /\ rows'[v.row].key = v.key /\ rows'[v.row].run = run'
               /\ rows'[v.row].count <= v.count /\ Latest(v.row)'
    <3>1. /\ v.row \in DOMAIN rows /\ rows[v.row].key = v.key /\ rows[v.row].run = run
          /\ rows[v.row].count <= v.count /\ Latest(v.row) /\ v.key # k
      BY <1>7, <2>2 DEF TrailInv, WindowsMatch
    <3>2. Latest(v.row)'
      BY <1>5, <3>1 DEF Latest, SameKey
    <3>3. QED
      BY <1>3, <1>5, <3>1, <3>2
  <2>3. /\ f.row \in DOMAIN rows' /\ rows'[f.row].key = f.key /\ rows'[f.row].run = run'
        /\ rows'[f.row].count <= f.count
    <3>1. n \in DOMAIN rows'
      BY <1>5
    <3>2. rows'[n].key = k /\ rows'[n].run = run' /\ rows'[n].count = 1
      BY <1>3, <1>5
    <3>3. QED
      BY <1>6, <3>1, <3>2
  <2>4. Latest(f.row)'
    <3>1. \A m \in DOMAIN rows' : ~(m > n)
      BY <1>5, <1>1
    <3>2. QED
      BY <1>6, <3>1 DEF Latest
  <2>5. QED
    BY <1>3, <2>1, <2>2, <2>3, <2>4 DEF WindowsMatch
<1>13. QED
  BY <1>10, <1>11, <1>12 DEF TrailInv

\* Windows that leave the index, or lapse, leave a matching index behind.
LEMMA FewerWindows ==
    ASSUME TrailInv, UNCHANGED <<rows, run, recorded>>, evicted' \in Nat, calls' \in Nat,
           raised' \in [Keys -> Nat], windows' \in SUBSET Window, IsFiniteSet(windows'),
           \A v \in windows' :
               \E u \in windows : v.key = u.key /\ v.row = u.row /\ v.count = u.count,
           \A u, v \in windows' : u.key = v.key => u = v
    PROVE  TrailInv'
<1>1. TrailType'
  BY DEF TrailInv, TrailType
<1>2. RunsPast'
  BY DEF TrailInv, RunsPast
<1>3. ASSUME NEW v \in windows'
      PROVE  /\ v.row \in DOMAIN rows' /\ rows'[v.row].key = v.key /\ rows'[v.row].run = run'
             /\ rows'[v.row].count <= v.count /\ Latest(v.row)'
  <2>1. PICK u \in windows : v.key = u.key /\ v.row = u.row /\ v.count = u.count
    BY <1>3
  <2>2. /\ u.row \in DOMAIN rows /\ rows[u.row].key = u.key /\ rows[u.row].run = run
        /\ rows[u.row].count <= u.count /\ Latest(u.row)
    BY <2>1 DEF TrailInv, WindowsMatch
  <2>3. Latest(v.row)'
    BY <2>1, <2>2 DEF Latest, SameKey
  <2>4. QED
    BY <2>1, <2>2, <2>3
<1>4. WindowsMatch'
  BY <1>3 DEF WindowsMatch
<1>5. QED
  BY <1>1, <1>2, <1>4 DEF TrailInv

\* Room was made in vain.
LEMMA OpenRaisesTrail ==
    ASSUME TrailInv, NEW k \in Keys, OpenRaises(k)
    PROVE  TrailInv'
<1>1. /\ evicted' = EvictedAfter(Indexed(k)) /\ windows' = MadeRoom(Indexed(k))
      /\ calls' = calls + 1 /\ raised' = [raised EXCEPT ![k] = @ + 1]
      /\ UNCHANGED <<rows, run, recorded>>
  BY DEF OpenRaises, Called
<1>2. windows' \in SUBSET windows /\ evicted' \in Nat
  BY <1>1, OpensFrom
<1>3. /\ calls \in Nat /\ raised \in [Keys -> Nat] /\ windows \in SUBSET Window
      /\ IsFiniteSet(windows)
  BY DEF TrailInv, TrailType
<1>4. calls' \in Nat /\ raised' \in [Keys -> Nat]
  BY <1>1, <1>3
<1>5. IsFiniteSet(windows')
  BY <1>2, <1>3, FS_Subset
<1>6. \A u, v \in windows' : u.key = v.key => u = v
  BY <1>2 DEF TrailInv, WindowsMatch
<1>7. QED
  BY <1>1, <1>2, <1>3, <1>4, <1>5, <1>6, FewerWindows

\* Time passes over a window.
LEMMA LapseTrail ==
    ASSUME TrailInv, Lapse
    PROVE  TrailInv'
<1>1. PICK w \in windows :
          /\ windows' = (windows \ {w}) \cup {[w EXCEPT !.lapsed = TRUE]}
          /\ UNCHANGED <<rows, calls, evicted, run, recorded, raised>>
  BY DEF Lapse, Unlapsed
<1>2. PICK t : t = [w EXCEPT !.lapsed = TRUE]
  OBVIOUS
<1>3. /\ windows \in SUBSET Window /\ IsFiniteSet(windows) /\ evicted \in Nat /\ calls \in Nat
      /\ raised \in [Keys -> Nat]
  BY DEF TrailInv, TrailType
<1>4. t \in Window /\ t.key = w.key /\ t.row = w.row /\ t.count = w.count
  BY <1>2, <1>3 DEF Window
<1>5. windows' = (windows \ {w}) \cup {t}
  BY <1>1, <1>2
<1>6. IsFiniteSet(windows \ {w})
  BY <1>3, FS_RemoveElement
<1>7. IsFiniteSet(windows')
  BY <1>5, <1>6, FS_AddElement
<1>8. \A u, v \in windows' : u.key = v.key => u = v
  BY <1>4, <1>5 DEF TrailInv, WindowsMatch
<1>9. \A v \in windows' : \E u \in windows : v.key = u.key /\ v.row = u.row /\ v.count = u.count
  BY <1>4, <1>5
<1>10. windows' \in SUBSET Window
  BY <1>3, <1>4, <1>5
<1>11. QED
  BY <1>1, <1>3, <1>7, <1>8, <1>9, <1>10, FewerWindows

\* A row that is not coalesced is nobody's successor.
LEMMA RecordPlainTrail ==
    ASSUME TrailInv, RecordPlain
    PROVE  TrailInv'
<1>1. PICK n : n = Len(rows) + 1
  OBVIOUS
<1>2. /\ Insert(NoKey, 0, 0)
      /\ UNCHANGED <<windows, calls, evicted, emitter, run, recorded, raised>>
  BY DEF RecordPlain
<1>3. /\ rows' \in Seq(Row)
      /\ n \notin DOMAIN rows /\ DOMAIN rows' = DOMAIN rows \cup {n}
      /\ \A i \in DOMAIN rows : rows'[i] = rows[i] /\ i < n
      /\ rows'[n].key = NoKey /\ rows'[n].run = run
  BY <1>1, <1>2, RowInserted DEF TrailInv
<1>4. TrailType'
  BY <1>2, <1>3 DEF TrailInv, TrailType
<1>5. RunsPast'
  <2>1. \A i \in DOMAIN rows : rows[i].run <= run
    BY DEF TrailInv, RunsPast
  <2>2. run <= run
    BY DEF TrailInv, TrailType
  <2>3. \A i \in DOMAIN rows' : rows'[i].run <= run
    BY <1>3, <2>1, <2>2
  <2>4. QED
    BY <1>2, <2>3 DEF RunsPast
<1>6. WindowsMatch'
  <2>1. ASSUME NEW v \in windows'
        PROVE  /\ v.row \in DOMAIN rows' /\ rows'[v.row].key = v.key /\ rows'[v.row].run = run'
               /\ rows'[v.row].count <= v.count /\ Latest(v.row)'
    <3>1. /\ v.row \in DOMAIN rows /\ rows[v.row].key = v.key /\ rows[v.row].run = run
          /\ rows[v.row].count <= v.count /\ Latest(v.row) /\ v.key \in Keys
      BY <1>2, <2>1 DEF TrailInv, TrailType, WindowsMatch, Window
    <3>2. v.key # NoKey
      BY <3>1, AuditTrailAssumption
    <3>3. Latest(v.row)'
      BY <1>3, <3>1, <3>2 DEF Latest, SameKey
    <3>4. QED
      BY <1>2, <1>3, <3>1, <3>3
  <2>2. \A u, v \in windows' : u.key = v.key => u = v
    BY <1>2 DEF TrailInv, WindowsMatch
  <2>3. QED
    BY <2>1, <2>2 DEF WindowsMatch
<1>7. QED
  BY <1>4, <1>5, <1>6 DEF TrailInv

\* Archiving a row moves nothing else.
LEMMA ArchiveTrail ==
    ASSUME TrailInv, NEW n \in DOMAIN rows, Archive(n)
    PROVE  TrailInv'
<1>1. /\ rows' = [rows EXCEPT ![n].kept = FALSE]
      /\ UNCHANGED <<windows, calls, evicted, run, recorded, raised>>
  BY DEF Archive
<1>2. PICK c \in Nat : c = rows[n].count
  BY RowTyped DEF TrailInv
<1>3. /\ rows' \in Seq(Row) /\ DOMAIN rows' = DOMAIN rows
      /\ \A i \in DOMAIN rows :
           /\ rows'[i].key = rows[i].key /\ rows'[i].run = rows[i].run
           /\ rows'[i].count = rows[i].count
  <2>1. /\ rows' \in Seq(Row) /\ DOMAIN rows' = DOMAIN rows
        /\ \A i \in DOMAIN rows :
             /\ rows'[i].key = rows[i].key /\ rows'[i].run = rows[i].run
             /\ rows'[i].count = IF i = n THEN c ELSE rows[i].count
    BY <1>1, <1>2, RowChanged DEF TrailInv
  <2>2. QED
    BY <1>2, <2>1
<1>4. TrailType' /\ RunsPast'
  BY <1>1, <1>3 DEF TrailInv, TrailType, RunsPast
<1>5. WindowsMatch'
  BY <1>1, <1>3 DEF TrailInv, WindowsMatch, Latest, SameKey
<1>6. QED
  BY <1>4, <1>5 DEF TrailInv

\* With no windows left there is nothing to match.
LEMMA ClearedTrail ==
    ASSUME TrailInv, Close \/ Restart
    PROVE  TrailInv'
<1>1. /\ windows' = {} /\ evicted' \in Nat /\ (run' = run \/ run' = run + 1)
      /\ UNCHANGED <<rows, calls, recorded, raised>>
  BY DEF Close, Restart, TrailInv, TrailType
<1>2. TrailType'
  BY <1>1, FS_EmptySet DEF TrailInv, TrailType
<1>3. RunsPast'
  <2>1. \A i \in DOMAIN rows : rows[i].run \in Nat /\ rows[i].run <= run
    BY RowTyped DEF TrailInv, RunsPast
  <2>2. run \in Nat
    BY DEF TrailInv, TrailType
  <2>3. \A i \in DOMAIN rows : rows[i].run <= run'
    BY <1>1, <2>1, <2>2
  <2>4. QED
    BY <1>1, <2>3 DEF RunsPast
<1>4. WindowsMatch'
  BY <1>1 DEF WindowsMatch
<1>5. QED
  BY <1>2, <1>3, <1>4 DEF TrailInv

\* Every step keeps the index true to the table.
LEMMA TrailInvNext ==
    ASSUME TrailInv, [Next]_vars
    PROVE  TrailInv'
<1>1. ASSUME UNCHANGED <<rows, windows, calls, evicted, run, recorded, raised>>
      PROVE  TrailInv'
  BY <1>1 DEF TrailInv, TrailType, WindowsMatch, RunsPast, Latest, SameKey
<1>2. ASSUME NEW k \in Keys, Fold(k) \/ FoldRaises(k) \/ Open(k) \/ OpenRaises(k)
      PROVE  TrailInv'
  BY <1>2, FoldTrail, OpenTrail, OpenRaisesTrail
<1>3. ASSUME NEW i \in DOMAIN rows, Archive(i)
      PROVE  TrailInv'
  BY <1>3, ArchiveTrail
<1>4. ASSUME NEW i \in DOMAIN rows,
             Export(i) \/ Submit(i) \/ Deliver(i) \/ SendFails(i) \/ Release(i)
      PROVE  TrailInv'
  BY <1>1, <1>4 DEF Export, Submit, Deliver, SendFails, Release
<1>5. CASE Dequeue \/ UNCHANGED vars
  BY <1>1, <1>5 DEF Dequeue, vars
<1>6. CASE Lapse \/ RecordPlain \/ Close \/ Restart
  BY <1>6, LapseTrail, RecordPlainTrail, ClearedTrail
<1>7. QED
  BY <1>2, <1>3, <1>4, <1>5, <1>6 DEF Next

\* It is true from the start.
LEMMA TrailInvInit == Init => TrailInv
<1>1. SUFFICES ASSUME Init PROVE TrailInv
  OBVIOUS
<1>2. rows = << >> /\ windows = {} /\ calls = 0 /\ evicted = 0 /\ run = 1
  BY <1>1 DEF Init
<1>3. rows \in Seq(Row) /\ DOMAIN rows = {}
  BY <1>2, EmptySeq
<1>4. recorded \in [Keys -> Nat] /\ raised \in [Keys -> Nat]
  BY <1>1 DEF Init
<1>5. TrailType
  BY <1>2, <1>3, <1>4, FS_EmptySet DEF TrailType
<1>6. WindowsMatch /\ RunsPast
  BY <1>2, <1>3 DEF WindowsMatch, RunsPast
<1>7. QED
  BY <1>5, <1>6 DEF TrailInv

-----------------------------------------------------------------------------
(* No denial is lost from the table, and none is counted twice.            *)

\* The denials of k that a table tells of.
Told(rs, k) == UNION {{i} \X (1..rs[i].count) : i \in {j \in DOMAIN rs : rs[j].key = k}}

\* A window's tally is ahead of its row by raised denials only.
TallyInv ==
    /\ \A k \in Keys : IsFiniteSet(OnRecord(k))
    /\ DenialsConserved
    /\ \A w \in windows :
         Cardinality(OnRecord(w.key)) + w.count
             <= recorded[w.key] + raised[w.key] + rows[w.row].count

\* A denial told of is a number some row of the key reaches.
LEMMA ToldMember ==
    ASSUME NEW rs, NEW k, NEW p
    PROVE  p \in Told(rs, k) <=>
               \E i \in DOMAIN rs : rs[i].key = k /\ \E n \in 1..rs[i].count : p = <<i, n>>
  BY DEF Told

\* OnRecord, before and after a step.
LEMMA ToldNow ==
    \A k : OnRecord(k) = Told(rows, k) /\ (OnRecord(k))' = Told(rows', k)
  BY DEF OnRecord, Told, RowsOf

\* Tables that agree on the rows of a key tell of the same denials.
LEMMA ToldSame ==
    ASSUME NEW rs, NEW ts, NEW k, DOMAIN rs \subseteq DOMAIN ts,
           \A i \in DOMAIN rs :
               ts[i].key = rs[i].key /\ (rs[i].key = k => ts[i].count = rs[i].count),
           \A i \in DOMAIN ts \ DOMAIN rs : ts[i].key # k
    PROVE  Told(ts, k) = Told(rs, k)
<1>1. ASSUME NEW p PROVE p \in Told(ts, k) <=> p \in Told(rs, k)
  BY ToldMember
<1>2. QED
  BY <1>1

\* A new row tells of one denial, of its own key.
LEMMA ToldMore ==
    ASSUME NEW rs, NEW ts, NEW n, NEW k, n \notin DOMAIN rs, DOMAIN ts = DOMAIN rs \cup {n},
           \A i \in DOMAIN rs : ts[i] = rs[i], ts[n].count = 1, ts[n].key = k
    PROVE  /\ Told(ts, k) = Told(rs, k) \cup {<<n, 1>>}
           /\ <<n, 1>> \notin Told(rs, k)
<1>1. <<n, 1>> \notin Told(rs, k)
  BY ToldMember
<1>2. ASSUME NEW p
      PROVE  p \in Told(ts, k) <=> p \in Told(rs, k) \/ p = <<n, 1>>
  <2>1. p \in Told(ts, k) <=>
          \/ \E i \in DOMAIN rs : rs[i].key = k /\ \E m \in 1..rs[i].count : p = <<i, m>>
          \/ \E m \in 1..1 : p = <<n, m>>
    BY ToldMember
  <2>2. (\E m \in 1..1 : p = <<n, m>>) <=> p = <<n, 1>>
    BY SMT
  <2>3. QED
    BY <2>1, <2>2, ToldMember
<1>3. QED
  BY <1>1, <1>2

\* A row that is tallied up to c tells of what it told and the rest up to c.
LEMMA ToldUp ==
    ASSUME NEW rs, NEW ts, NEW n \in DOMAIN rs, NEW c \in Nat, rs[n].count \in Nat,
           rs[n].count <= c, DOMAIN ts = DOMAIN rs,
           \A i \in DOMAIN rs : /\ ts[i].key = rs[i].key
                                /\ ts[i].count = IF i = n THEN c ELSE rs[i].count,
           NEW k, rs[n].key = k, IsFiniteSet(Told(rs, k))
    PROVE  /\ IsFiniteSet(Told(ts, k))
           /\ Cardinality(Told(ts, k)) = Cardinality(Told(rs, k)) + c - rs[n].count
<1> DEFINE b == rs[n].count
           up == {n} \X ((b + 1)..c)
<1>1. \A m : m \in 1..c <=> m \in 1..b \/ m \in (b + 1)..c
  OBVIOUS
<1>2. \A p : p \in up <=> \E m \in (b + 1)..c : p = <<n, m>>
  OBVIOUS
<1>3. ASSUME NEW p
      PROVE  p \in Told(ts, k) <=> p \in Told(rs, k) \/ p \in up
  <2>1. p \in Told(ts, k) =>
            (\E i \in DOMAIN rs : i # n /\ rs[i].key = k /\ \E m \in 1..rs[i].count : p = <<i, m>>)
            \/ \E m \in 1..c : p = <<n, m>>
    BY ToldMember
  <2>2. (\E m \in 1..c : p = <<n, m>>) => p \in Told(rs, k) \/ p \in up
    BY <1>1, <1>2, ToldMember
  <2>3. p \in Told(rs, k) => p \in Told(ts, k)
    <3>1. ASSUME NEW i \in DOMAIN rs, rs[i].key = k, NEW m \in 1..rs[i].count, p = <<i, m>>
          PROVE  p \in Told(ts, k)
      <4>1. m \in 1..ts[i].count
        BY <1>1, <3>1
      <4>2. QED
        BY <3>1, <4>1, ToldMember
    <3>2. QED
      BY <3>1, ToldMember
  <2>4. p \in up => p \in Told(ts, k)
    BY <1>1, <1>2, ToldMember
  <2>5. QED
    BY <2>1, <2>2, <2>3, <2>4, ToldMember
<1>4. Told(rs, k) \cap up = {}
  <2>1. \A m \in 1..b : m \notin (b + 1)..c
    OBVIOUS
  <2>2. QED
    BY <1>2, <2>1, ToldMember
<1>5. IsFiniteSet(up) /\ Cardinality(up) = c - b
  <2>1. IsFiniteSet({n}) /\ Cardinality({n}) = 1
    BY FS_Singleton
  <2>2. IsFiniteSet((b + 1)..c) /\ Cardinality((b + 1)..c) = c - b
    <3>1. b + 1 \in Int /\ c \in Int
      OBVIOUS
    <3>2. /\ IsFiniteSet((b + 1)..c)
          /\ Cardinality((b + 1)..c) = IF b + 1 > c THEN 0 ELSE c - (b + 1) + 1
      BY <3>1, FS_Interval
    <3>3. QED
      BY <3>2
  <2>3. IsFiniteSet(up) /\ Cardinality(up) = Cardinality({n}) * Cardinality((b + 1)..c)
    BY <2>1, <2>2, FS_Product
  <2>4. \A x \in Int : 1 * x = x
    OBVIOUS
  <2>5. c - b \in Int
    OBVIOUS
  <2>6. QED
    BY <2>1, <2>2, <2>3, <2>4, <2>5
<1>6. Told(ts, k) = Told(rs, k) \cup up
  BY <1>3
<1> HIDE DEF up
<1>7. /\ IsFiniteSet(Told(rs, k) \cup up)
      /\ Cardinality(Told(rs, k) \cup up)
           = Cardinality(Told(rs, k)) + Cardinality(up) - Cardinality({})
  <2>1. IsFiniteSet(Told(rs, k)) /\ IsFiniteSet(up)
    BY <1>5
  <2>2. /\ IsFiniteSet(Told(rs, k) \cup up)
        /\ Cardinality(Told(rs, k) \cup up)
             = Cardinality(Told(rs, k)) + Cardinality(up) - Cardinality(Told(rs, k) \cap up)
    BY <2>1, FS_Union
  <2>3. QED
    BY <1>4, <2>2
<1>8. Cardinality({}) = 0 /\ Cardinality(Told(rs, k)) \in Nat
  BY FS_EmptySet, FS_CardinalityType
<1>9. QED
  BY <1>5, <1>6, <1>7, <1>8

\* The numbers behind the tallies.
LEMMA TallyNumbers ==
    ASSUME TrailInv, TallyInv, NEW k \in Keys
    PROVE  /\ IsFiniteSet(OnRecord(k)) /\ Cardinality(OnRecord(k)) \in Nat
           /\ recorded[k] \in Nat /\ raised[k] \in Nat
           /\ recorded[k] <= Cardinality(OnRecord(k))
           /\ Cardinality(OnRecord(k)) <= recorded[k] + raised[k]
<1>1. IsFiniteSet(OnRecord(k)) /\ Cardinality(OnRecord(k)) \in Nat
  BY FS_CardinalityType DEF TallyInv
<1>2. recorded[k] \in Nat /\ raised[k] \in Nat
  BY DEF TrailInv, TrailType
<1>3. QED
  BY <1>1, <1>2 DEF TallyInv, DenialsConserved

\* A step that tells of no other denials and records none keeps the tallies.
LEMMA TallyKept ==
    ASSUME TrailInv, TallyInv, recorded' = recorded, raised' \in [Keys -> Nat],
           \A k \in Keys : (OnRecord(k))' = OnRecord(k) /\ raised[k] <= raised'[k],
           \A v \in windows' :
             /\ rows'[v.row].count = rows[v.row].count
             /\ \E u \in windows : v.key = u.key /\ v.row = u.row /\ v.count = u.count
    PROVE  TallyInv'
<1>1. \A k \in Keys : IsFiniteSet((OnRecord(k))')
  BY DEF TallyInv
<1>2. DenialsConserved'
  <2>1. ASSUME NEW k \in Keys
        PROVE  Cardinality(OnRecord(k)) \in recorded[k]..(recorded[k] + raised'[k])
    BY <2>1, TallyNumbers
  <2>2. QED
    BY <2>1 DEF DenialsConserved
<1>3. ASSUME NEW v \in windows'
      PROVE  Cardinality((OnRecord(v.key))') + v.count
                 <= recorded'[v.key] + raised'[v.key] + rows'[v.row].count
  <2>1. PICK u \in windows : v.key = u.key /\ v.row = u.row /\ v.count = u.count
    BY <1>3
  <2>2. u.key \in Keys /\ u.count \in Nat /\ u.row \in DOMAIN rows
    BY <2>1 DEF TrailInv, TrailType, Window, WindowsMatch
  <2>3. Cardinality(OnRecord(u.key)) + u.count
            <= recorded[u.key] + raised[u.key] + rows[u.row].count
    BY <2>1 DEF TallyInv
  <2>4. rows[u.row].count \in Nat /\ raised'[u.key] \in Nat /\ raised[u.key] <= raised'[u.key]
    BY <2>2, RowTyped DEF TrailInv
  <2>5. /\ Cardinality(OnRecord(u.key)) \in Nat /\ recorded[u.key] \in Nat /\ raised[u.key] \in Nat
    BY <2>2, TallyNumbers
  <2>6. Cardinality(OnRecord(u.key)) + u.count
            <= recorded[u.key] + raised'[u.key] + rows[u.row].count
    BY <2>2, <2>3, <2>4, <2>5
  <2>7. QED
    BY <1>3, <2>1, <2>2, <2>6
<1>4. QED
  BY <1>1, <1>2, <1>3 DEF TallyInv

\* One more denial of k, recorded by a row or raised: the books of the other
\* keys are not touched.
LEMMA TallyOne ==
    ASSUME TrailInv, TallyInv, NEW k \in Keys, NEW a \in Nat, NEW b \in Nat,
           recorded' = [recorded EXCEPT ![k] = @ + a], raised' = [raised EXCEPT ![k] = @ + b],
           \A j \in Keys \ {k} : (OnRecord(j))' = OnRecord(j),
           IsFiniteSet((OnRecord(k))'),
           Cardinality((OnRecord(k))') \in (recorded[k] + a)..(recorded[k] + a + raised[k] + b),
           \A v \in windows' : v.key # k => v \in windows /\ rows'[v.row].count = rows[v.row].count,
           \A v \in windows' : v.key = k =>
               Cardinality((OnRecord(k))') + v.count
                   <= (recorded[k] + a) + (raised[k] + b) + rows'[v.row].count
    PROVE  TallyInv'
<1>1. /\ recorded'[k] = recorded[k] + a /\ raised'[k] = raised[k] + b
      /\ \A j \in Keys \ {k} : recorded'[j] = recorded[j] /\ raised'[j] = raised[j]
  BY DEF TrailInv, TrailType
<1>2. \A j \in Keys : IsFiniteSet((OnRecord(j))')
  BY DEF TallyInv
<1>3. DenialsConserved'
  <2>1. \A j \in Keys \ {k} :
            Cardinality((OnRecord(j))') \in recorded'[j]..(recorded'[j] + raised'[j])
    BY <1>1 DEF TallyInv, DenialsConserved
  <2>2. recorded[k] \in Nat /\ raised[k] \in Nat
    BY TallyNumbers
  <2>3. Cardinality((OnRecord(k))') \in recorded'[k]..(recorded'[k] + raised'[k])
    BY <1>1, <2>2
  <2>4. QED
    BY <2>1, <2>3 DEF DenialsConserved
<1>4. ASSUME NEW v \in windows'
      PROVE  Cardinality((OnRecord(v.key))') + v.count
                 <= recorded'[v.key] + raised'[v.key] + rows'[v.row].count
  <2>1. CASE v.key = k
    BY <1>1, <2>1
  <2>2. CASE v.key # k
    <3>1. v \in windows /\ v.key \in Keys
      BY <2>2 DEF TrailInv, TrailType, Window
    <3>2. QED
      BY <1>1, <2>2, <3>1 DEF TallyInv
  <2>3. QED
    BY <2>1, <2>2
<1>5. QED
  BY <1>2, <1>3, <1>4 DEF TallyInv

\* A fold writes the whole tally of its window: the denial itself, and those
\* before it whose write failed.
LEMMA FoldTally ==
    ASSUME TrailInv, TallyInv, NEW k \in Keys, Fold(k)
    PROVE  TallyInv'
<1>1. PICK w, t : w = WindowOf(k) /\ t = Touched(w)
  OBVIOUS
<1>2. /\ w \in windows /\ w.key = k /\ w.row \in DOMAIN rows /\ w.count \in Nat
      /\ t.key = k /\ t.row = w.row /\ t.count = w.count + 1
      /\ \A v \in windows' : (v \in windows /\ v.key # k) \/ v = t
  BY <1>1, WindowTouched DEF Fold, Folds
<1>3. PICK n \in DOMAIN rows, c \in Nat : n = w.row /\ c = w.count + 1
  BY <1>2
<1>4. /\ rows' = [rows EXCEPT ![n].count = c]
      /\ recorded' = [recorded EXCEPT ![k] = @ + 1] /\ raised' = raised
  BY <1>1, <1>3 DEF Fold
<1>5. /\ DOMAIN rows' = DOMAIN rows
      /\ \A i \in DOMAIN rows : /\ rows'[i].key = rows[i].key
                                /\ rows'[i].count = IF i = n THEN c ELSE rows[i].count
  BY <1>4, RowChanged DEF TrailInv
<1>6. rows[n].count \in Nat /\ rows[n].count < c /\ rows[n].key = k
  <2>1. rows[n].count \in Nat
    BY RowTyped DEF TrailInv
  <2>2. rows[n].count <= w.count /\ rows[n].key = k
    BY <1>2, <1>3 DEF TrailInv, WindowsMatch
  <2>3. QED
    BY <1>2, <1>3, <2>1, <2>2
<1>7. \A j \in Keys \ {k} : (OnRecord(j))' = OnRecord(j)
  <2>1. ASSUME NEW j \in Keys \ {k} PROVE Told(rows', j) = Told(rows, j)
    BY <1>5, <1>6, <2>1, ToldSame
  <2>2. QED
    BY <2>1, ToldNow
<1> DEFINE old == Cardinality(OnRecord(k))
           new == Cardinality((OnRecord(k))')
<1>8. rows[n].count <= c /\ IsFiniteSet(Told(rows, k))
  BY <1>6, TallyNumbers, ToldNow
<1>9. IsFiniteSet((OnRecord(k))') /\ new = old + c - rows[n].count
  <2>1. /\ IsFiniteSet(Told(rows', k))
        /\ Cardinality(Told(rows', k)) = Cardinality(Told(rows, k)) + c - rows[n].count
    BY <1>5, <1>6, <1>8, ToldUp
  <2>2. QED
    BY <2>1, ToldNow
<1>10. old + w.count <= recorded[k] + raised[k] + rows[n].count
  BY <1>2, <1>3 DEF TallyInv
<1>11. /\ old \in Nat /\ recorded[k] \in Nat /\ raised[k] \in Nat /\ recorded[k] <= old
  BY TallyNumbers
<1> HIDE DEF old, new
<1>12. new \in (recorded[k] + 1)..(recorded[k] + 1 + raised[k] + 0)
  BY <1>2, <1>3, <1>6, <1>9, <1>10, <1>11
<1>13. new + t.count <= (recorded[k] + 1) + (raised[k] + 0) + rows'[t.row].count
  <2>1. t.row = n /\ t.count = c /\ rows'[n].count = c
    BY <1>2, <1>3, <1>5
  <2>2. new <= recorded[k] + 1 + raised[k] /\ new \in Int
    BY <1>11, <1>12
  <2>3. QED
    BY <1>11, <2>1, <2>2
<1>14. \A v \in windows' : v.key # k => v \in windows /\ rows'[v.row].count = rows[v.row].count
  <2>1. ASSUME NEW v \in windows', v.key # k
        PROVE  v \in windows /\ rows'[v.row].count = rows[v.row].count
    <3>1. v \in windows
      BY <1>2, <2>1
    <3>2. v.row \in DOMAIN rows /\ rows[v.row].key # k
      BY <2>1, <3>1 DEF TrailInv, WindowsMatch
    <3>3. QED
      BY <1>5, <1>6, <3>1, <3>2
  <2>2. QED
    BY <2>1
<1>15. raised' = [raised EXCEPT ![k] = @ + 0]
  BY <1>4, <1>11 DEF TrailInv, TrailType
<1>16. \A v \in windows' : v.key = k =>
           new + v.count <= (recorded[k] + 1) + (raised[k] + 0) + rows'[v.row].count
  BY <1>2, <1>13
<1>17. QED
  BY <1>4, <1>7, <1>9, <1>12, <1>14, <1>15, <1>16, TallyOne DEF new

\* A fold that is not written leaves the table behind by one raised denial.
LEMMA FoldRaisesTally ==
    ASSUME TrailInv, TallyInv, NEW k \in Keys, FoldRaises(k)
    PROVE  TallyInv'
<1>1. PICK w, t : w = WindowOf(k) /\ t = Touched(w)
  OBVIOUS
<1>2. /\ w \in windows /\ w.key = k /\ w.row \in DOMAIN rows /\ w.count \in Nat
      /\ t.key = k /\ t.row = w.row /\ t.count = w.count + 1
      /\ \A v \in windows' : (v \in windows /\ v.key # k) \/ v = t
  BY <1>1, WindowTouched DEF FoldRaises, Folds
<1>3. /\ rows' = rows /\ recorded' = recorded /\ raised' = [raised EXCEPT ![k] = @ + 1]
  BY DEF FoldRaises
<1>4. \A j : (OnRecord(j))' = OnRecord(j)
  BY <1>3, ToldNow
<1> DEFINE old == Cardinality(OnRecord(k))
<1>5. /\ IsFiniteSet(OnRecord(k)) /\ old \in Nat /\ recorded[k] \in Nat /\ raised[k] \in Nat
      /\ recorded[k] <= old /\ old <= recorded[k] + raised[k]
  BY TallyNumbers
<1>6. old + w.count <= recorded[k] + raised[k] + rows[w.row].count /\ rows[w.row].count \in Nat
  BY <1>2, RowTyped DEF TallyInv, TrailInv
<1> HIDE DEF old
<1>7. old \in (recorded[k] + 0)..(recorded[k] + 0 + raised[k] + 1)
  BY <1>5
<1>8. old + t.count <= (recorded[k] + 0) + (raised[k] + 1) + rows[t.row].count
  BY <1>2, <1>5, <1>6
<1>9. recorded' = [recorded EXCEPT ![k] = @ + 0]
  BY <1>3, <1>5 DEF TrailInv, TrailType
<1>10. \A v \in windows' : v.key = k =>
           old + v.count <= (recorded[k] + 0) + (raised[k] + 1) + rows'[v.row].count
  BY <1>2, <1>3, <1>8
<1>11. \A v \in windows' : v.key # k => v \in windows /\ rows'[v.row].count = rows[v.row].count
  BY <1>2, <1>3
<1>12. QED
  BY <1>3, <1>4, <1>5, <1>7, <1>9, <1>10, <1>11, TallyOne DEF old

\* A new row tells of its denial; what its predecessor was behind stays so.
LEMMA OpenTally ==
    ASSUME TrailInv, TallyInv, NEW k \in Keys, Open(k)
    PROVE  TallyInv'
<1>1. PICK n, f : /\ n = Len(rows) + 1
                  /\ f = [key |-> k, row |-> n, count |-> 1, lapsed |-> FALSE, touch |-> calls']
  OBVIOUS
<1>2. /\ Insert(k, HandOff(k), evicted') /\ evicted' = EvictedAfter(Indexed(k))
      /\ windows' = Without(MadeRoom(Indexed(k)), k) \cup {f}
      /\ recorded' = [recorded EXCEPT ![k] = @ + 1] /\ raised' = raised
  BY <1>1 DEF Open
<1>3. /\ n \notin DOMAIN rows /\ DOMAIN rows' = DOMAIN rows \cup {n}
      /\ \A i \in DOMAIN rows : rows'[i] = rows[i]
      /\ rows'[n].key = k /\ rows'[n].count = 1
  BY <1>1, <1>2, OpensFrom, RowInserted DEF TrailInv
<1>4. \A v \in windows' : (v \in windows /\ v.key # k) \/ v = f
  BY <1>2, OpensFrom DEF Without
<1>5. \A j \in Keys \ {k} : (OnRecord(j))' = OnRecord(j)
  <2>1. ASSUME NEW j \in Keys \ {k} PROVE Told(rows', j) = Told(rows, j)
    <3>1. rows'[n].key # j
      BY <1>3
    <3>2. QED
      BY <1>3, <3>1, ToldSame
  <2>2. QED
    BY <2>1, ToldNow
<1> DEFINE old == Cardinality(OnRecord(k))
           new == Cardinality((OnRecord(k))')
<1>6. /\ IsFiniteSet(OnRecord(k)) /\ old \in Nat /\ recorded[k] \in Nat /\ raised[k] \in Nat
      /\ recorded[k] <= old /\ old <= recorded[k] + raised[k]
  BY TallyNumbers
<1>7. IsFiniteSet((OnRecord(k))') /\ new = old + 1
  <2>1. Told(rows', k) = Told(rows, k) \cup {<<n, 1>>} /\ <<n, 1>> \notin Told(rows, k)
    BY <1>3, ToldMore
  <2>2. (OnRecord(k))' = OnRecord(k) \cup {<<n, 1>>} /\ <<n, 1>> \notin OnRecord(k)
    BY <2>1, ToldNow
  <2>3. QED
    BY <1>6, <2>2, FS_AddElement
<1> HIDE DEF old, new
<1>8. new \in (recorded[k] + 1)..(recorded[k] + 1 + raised[k] + 0)
  BY <1>6, <1>7
<1>9. f.key = k /\ f.row = n /\ f.count = 1
  BY <1>1
<1>10. new + 1 <= (recorded[k] + 1) + (raised[k] + 0) + 1
  BY <1>6, <1>7
<1>11. \A v \in windows' : v.key = k =>
           new + v.count <= (recorded[k] + 1) + (raised[k] + 0) + rows'[v.row].count
  BY <1>3, <1>4, <1>9, <1>10
<1>12. \A v \in windows' : v.key # k => v \in windows /\ rows'[v.row].count = rows[v.row].count
  <2>1. \A v \in windows : v.row \in DOMAIN rows
    BY DEF TrailInv, WindowsMatch
  <2>2. QED
    BY <1>3, <1>4, <1>9, <2>1
<1>13. raised' = [raised EXCEPT ![k] = @ + 0]
  BY <1>2, <1>6 DEF TrailInv, TrailType
<1>14. QED
  BY <1>2, <1>5, <1>7, <1>8, <1>11, <1>12, <1>13, TallyOne DEF new

\* Every step keeps the tallies.
LEMMA TallyInvNext ==
    ASSUME TrailInv, TallyInv, [Next]_vars
    PROVE  TallyInv'
<1>1. raised \in [Keys -> Nat] /\ \A k \in Keys : raised[k] <= raised[k]
  BY DEF TrailInv, TrailType
<1>2. ASSUME UNCHANGED <<rows, recorded, raised>>,
             \A v \in windows' :
                 \E u \in windows : v.key = u.key /\ v.row = u.row /\ v.count = u.count
      PROVE  TallyInv'
  <2>1. \A k : (OnRecord(k))' = OnRecord(k)
    BY <1>2, ToldNow
  <2>2. QED
    BY <1>1, <1>2, <2>1, TallyKept
<1>3. ASSUME NEW k \in Keys, Fold(k) \/ FoldRaises(k) \/ Open(k)
      PROVE  TallyInv'
  BY <1>3, FoldTally, FoldRaisesTally, OpenTally
<1>4. ASSUME NEW k \in Keys, OpenRaises(k)
      PROVE  TallyInv'
  <2>1. /\ rows' = rows /\ recorded' = recorded /\ raised' = [raised EXCEPT ![k] = @ + 1]
        /\ windows' \in SUBSET windows
    BY <1>4, OpensFrom DEF OpenRaises
  <2>2. raised' \in [Keys -> Nat] /\ \A j \in Keys : raised[j] <= raised'[j]
    BY <1>1, <2>1
  <2>3. \A j : (OnRecord(j))' = OnRecord(j)
    BY <2>1, ToldNow
  <2>4. QED
    BY <2>1, <2>2, <2>3, TallyKept
<1>5. ASSUME NEW n \in DOMAIN rows, Archive(n)
      PROVE  TallyInv'
  <2>1. /\ rows' = [rows EXCEPT ![n].kept = FALSE]
        /\ UNCHANGED <<windows, recorded, raised>>
    BY <1>5 DEF Archive
  <2>2. rows[n].count \in Nat
    BY RowTyped DEF TrailInv
  <2>3. /\ DOMAIN rows' = DOMAIN rows
        /\ \A i \in DOMAIN rows : rows'[i].key = rows[i].key /\ rows'[i].count = rows[i].count
    BY <2>1, <2>2, RowChanged DEF TrailInv
  <2>4. \A k : (OnRecord(k))' = OnRecord(k)
    BY <2>3, ToldSame, ToldNow
  <2>5. \A v \in windows : rows'[v.row].count = rows[v.row].count
    BY <2>3 DEF TrailInv, WindowsMatch
  <2>6. QED
    BY <1>1, <2>1, <2>4, <2>5, TallyKept
<1>6. CASE RecordPlain
  <2>1. PICK n : n = Len(rows) + 1
    OBVIOUS
  <2>2. Insert(NoKey, 0, 0) /\ UNCHANGED <<windows, recorded, raised>>
    BY <1>6 DEF RecordPlain
  <2>3. /\ n \notin DOMAIN rows /\ DOMAIN rows' = DOMAIN rows \cup {n}
        /\ \A i \in DOMAIN rows : rows'[i] = rows[i]
        /\ rows'[n].key = NoKey /\ rows'[n].count = 1
    BY <2>1, <2>2, RowInserted DEF TrailInv
  <2>4. \A k \in Keys : (OnRecord(k))' = OnRecord(k)
    <3>1. ASSUME NEW k \in Keys PROVE Told(rows', k) = Told(rows, k)
      <4>1. rows'[n].key # k
        BY <2>3, AuditTrailAssumption
      <4>2. QED
        BY <2>3, <4>1, ToldSame
    <3>2. QED
      BY <3>1, ToldNow
  <2>5. \A v \in windows : rows'[v.row].count = rows[v.row].count
    BY <2>3 DEF TrailInv, WindowsMatch
  <2>6. QED
    BY <1>1, <2>2, <2>4, <2>5, TallyKept
<1>7. CASE Lapse
  <2>1. PICK w \in windows :
            /\ windows' = (windows \ {w}) \cup {[w EXCEPT !.lapsed = TRUE]}
            /\ UNCHANGED <<rows, recorded, raised>>
    BY <1>7 DEF Lapse, Unlapsed
  <2>2. PICK t : t = [w EXCEPT !.lapsed = TRUE]
    OBVIOUS
  <2>3. t.key = w.key /\ t.row = w.row /\ t.count = w.count
    BY <2>2 DEF TrailInv, TrailType, Window
  <2>4. windows' = (windows \ {w}) \cup {t}
    BY <2>1, <2>2
  <2>5. \A v \in windows' : \E u \in windows : v.key = u.key /\ v.row = u.row /\ v.count = u.count
    BY <2>3, <2>4
  <2>6. QED
    BY <1>2, <2>1, <2>5
<1>8. CASE Close \/ Restart
  BY <1>2, <1>8 DEF Close, Restart
<1>9. ASSUME NEW i \in DOMAIN rows,
             Export(i) \/ Submit(i) \/ Deliver(i) \/ SendFails(i) \/ Release(i)
      PROVE  TallyInv'
  BY <1>2, <1>9 DEF Export, Submit, Deliver, SendFails, Release
<1>10. CASE Dequeue \/ UNCHANGED vars
  BY <1>2, <1>10 DEF Dequeue, vars
<1>11. QED
  BY <1>3, <1>4, <1>5, <1>6, <1>7, <1>8, <1>9, <1>10 DEF Next

\* Whatever the cap on the index, however many windows were evicted, rows
\* archived or processes lost: the tallies on the rows of a key add up to the
\* denials recorded, and overstate them by raised ones at most.
THEOREM DenialsAreConserved == Spec => []DenialsConserved
<1>1. ASSUME Init PROVE TallyInv
  <2>1. \A k : OnRecord(k) = {}
    <3>1. DOMAIN rows = {}
      BY <1>1 DEF Init
    <3>2. QED
      BY <3>1 DEF OnRecord, RowsOf
  <2>2. IsFiniteSet({}) /\ Cardinality({}) = 0
    BY FS_EmptySet
  <2>3. \A k \in Keys : recorded[k] = 0 /\ raised[k] = 0
    BY <1>1 DEF Init
  <2>4. \A k \in Keys : IsFiniteSet(OnRecord(k)) /\ Cardinality(OnRecord(k)) = 0
    BY <2>1, <2>2
  <2>5. DenialsConserved
    BY <2>3, <2>4 DEF DenialsConserved
  <2>6. windows = {}
    BY <1>1 DEF Init
  <2>7. QED
    BY <2>4, <2>5, <2>6 DEF TallyInv
<1>2. TallyInv => DenialsConserved
  BY DEF TallyInv
<1>3. QED
  BY <1>1, <1>2, TrailInvInit, TrailInvNext, TallyInvNext, PTL DEF Spec

-----------------------------------------------------------------------------
(* A gap in the chain of windows is always marked.                         *)

\* While the index lives, the latest row of a key still has its window, or the
\* index has been shedding, or the row was archived.
LatestIsKnown ==
    emitter.open =>
      \A j \in DOMAIN rows :
        rows[j].run = run /\ rows[j].key # NoKey /\ Latest(j) =>
            \/ \E w \in windows : w.row = j
            \/ evicted > 0
            \/ ~rows[j].kept

GapInv == GapIsMarked /\ LatestIsKnown

\* A row with a successor is not the latest of its key.
LEMMA SucceededIsNotLatest ==
    ASSUME NEW i \in DOMAIN rows, NEW j \in DOMAIN rows, TrailType, Succeeds(i, j)
    PROVE  ~Latest(j)
<1>1. i \in Nat /\ j \in Nat
  BY RowTyped
<1>2. i > j /\ SameKey(j, i)
  BY <1>1 DEF Succeeds, SameKey
<1>3. QED
  BY <1>2 DEF Latest

\* A step that inserts no row, changes the tally of a latest row at most, and
\* drops a window only where it says so.
LEMMA GapKept ==
    ASSUME TrailInv, GapInv, run' = run, emitter'.open => emitter.open,
           DOMAIN rows' = DOMAIN rows,
           \A i \in DOMAIN rows :
             /\ rows'[i].key = rows[i].key /\ rows'[i].run = rows[i].run
             /\ rows'[i].prev = rows[i].prev /\ rows'[i].evictions = rows[i].evictions
             /\ rows'[i].kept => rows[i].kept
             /\ rows'[i].count = rows[i].count \/ Latest(i),
           evicted > 0 => evicted' > 0,
           \A u \in windows : \/ \E v \in windows' : v.row = u.row
                              \/ evicted' > 0
                              \/ ~rows'[u.row].kept
    PROVE  GapInv'
<1>1. \A i, j \in DOMAIN rows : SameKey(i, j)' <=> SameKey(i, j)
  BY DEF SameKey
<1>2. DOMAIN rows = 1..Len(rows) /\ Len(rows) \in Nat
  BY LenProperties DEF TrailInv, TrailType
<1>3. GapIsMarked'
  <2>1. SUFFICES ASSUME emitter'.open, NEW i \in DOMAIN rows, NEW j \in DOMAIN rows,
                        rows[i].run = run, rows[i].key # NoKey, Succeeds(i, j)'
                 PROVE  \/ rows'[i].prev >= rows'[j].count
                        \/ rows'[i].prev = 0 /\ (rows'[i].evictions > 0 \/ ~rows'[j].kept)
    BY DEF GapIsMarked
  <2>2. Succeeds(i, j)
    <3>1. \A m \in (j + 1)..(i - 1) : m \in DOMAIN rows
      BY <1>2
    <3>2. j < i /\ SameKey(i, j) /\ \A m \in (j + 1)..(i - 1) : ~SameKey(i, m)'
      BY <1>1, <2>1 DEF Succeeds
    <3>3. QED
      BY <1>1, <3>1, <3>2 DEF Succeeds
  <2>3. rows'[j].count = rows[j].count
    BY <2>2, SucceededIsNotLatest DEF TrailInv
  <2>4. \/ rows[i].prev >= rows[j].count
        \/ rows[i].prev = 0 /\ (rows[i].evictions > 0 \/ ~rows[j].kept)
    BY <2>1, <2>2 DEF GapInv, GapIsMarked
  <2>5. QED
    BY <2>3, <2>4
<1>4. LatestIsKnown'
  <2>1. SUFFICES ASSUME emitter'.open, NEW j \in DOMAIN rows,
                        rows[j].run = run, rows[j].key # NoKey, Latest(j)'
                 PROVE  (\E w \in windows' : w.row = j) \/ evicted' > 0 \/ ~rows'[j].kept
    BY DEF LatestIsKnown
  <2>2. Latest(j)
    BY <1>1, <2>1 DEF Latest
  <2>3. (\E w \in windows : w.row = j) \/ evicted > 0 \/ ~rows[j].kept
    BY <2>1, <2>2 DEF GapInv, LatestIsKnown
  <2>4. QED
    BY <2>3
<1>5. QED
  BY <1>3, <1>4 DEF GapInv

\* A new row: only its own link to its predecessor is new.
LEMMA GapInsert ==
    ASSUME TrailInv, GapInv, NEW n, run' = run, emitter'.open => emitter.open,
           n \in Nat, n \notin DOMAIN rows, DOMAIN rows' = DOMAIN rows \cup {n},
           \A i \in DOMAIN rows : rows'[i] = rows[i] /\ i < n,
           rows'[n].run = run,
           evicted > 0 => evicted' > 0,
           \A u \in windows : u.key # rows'[n].key =>
               (\E v \in windows' : v.row = u.row) \/ evicted' > 0,
           rows'[n].key # NoKey =>
             /\ \E v \in windows' : v.row = n
             /\ emitter.open =>
                  \A j \in DOMAIN rows :
                    rows[j].key = rows'[n].key /\ rows[j].run = run /\ Latest(j) =>
                        \/ rows'[n].prev >= rows[j].count
                        \/ rows'[n].prev = 0 /\ (rows'[n].evictions > 0 \/ ~rows[j].kept)
    PROVE  GapInv'
<1>1. \A i, j \in DOMAIN rows : SameKey(i, j)' <=> SameKey(i, j)
  BY DEF SameKey
<1>2. DOMAIN rows = 1..Len(rows) /\ Len(rows) \in Nat /\ n \in Nat
  BY LenProperties DEF TrailInv, TrailType
<1>3. GapIsMarked'
  <2>1. SUFFICES ASSUME emitter'.open, NEW i \in DOMAIN rows', NEW j \in DOMAIN rows',
                        rows'[i].run = run, rows'[i].key # NoKey, Succeeds(i, j)'
                 PROVE  \/ rows'[i].prev >= rows'[j].count
                        \/ rows'[i].prev = 0 /\ (rows'[i].evictions > 0 \/ ~rows'[j].kept)
    BY DEF GapIsMarked
  <2>2. j < i /\ SameKey(i, j)' /\ \A m \in (j + 1)..(i - 1) : ~SameKey(i, m)'
    BY <2>1 DEF Succeeds
  <2>3. i \in Nat /\ j \in Nat /\ i <= n
    BY <1>2, <2>1
  <2>4. j \in DOMAIN rows
    <3>1. j # n
      BY <1>2, <2>2, <2>3
    <3>2. QED
      BY <2>1, <3>1
  <2>5. CASE i \in DOMAIN rows
    <3>1. \A m \in (j + 1)..(i - 1) : m \in DOMAIN rows
      BY <1>2, <2>4, <2>5
    <3>2. Succeeds(i, j)
      BY <1>1, <2>2, <2>4, <2>5, <3>1 DEF Succeeds
    <3>3. \/ rows[i].prev >= rows[j].count
          \/ rows[i].prev = 0 /\ (rows[i].evictions > 0 \/ ~rows[j].kept)
      BY <2>1, <2>4, <2>5, <3>2 DEF GapInv, GapIsMarked
    <3>4. QED
      BY <2>4, <2>5, <3>3
  <2>6. CASE i = n
    <3>1. rows[j].key = rows'[n].key /\ rows[j].run = run
      BY <2>2, <2>4, <2>6 DEF SameKey
    <3>2. Latest(j)
      <4>1. ASSUME NEW m \in DOMAIN rows, m > j, SameKey(j, m) PROVE FALSE
        <5>1. m < n /\ m \in Nat
          BY <1>2
        <5>2. m \in (j + 1)..(i - 1)
          BY <1>2, <2>3, <2>6, <4>1, <5>1
        <5>3. SameKey(i, m)'
          BY <2>2, <2>4, <4>1 DEF SameKey
        <5>4. QED
          BY <2>2, <5>2, <5>3
      <4>2. QED
        BY <4>1 DEF Latest
    <3>3. \/ rows'[n].prev >= rows[j].count
          \/ rows'[n].prev = 0 /\ (rows'[n].evictions > 0 \/ ~rows[j].kept)
      BY <2>1, <2>4, <2>6, <3>1, <3>2
    <3>4. QED
      BY <2>4, <2>6, <3>3
  <2>7. QED
    BY <2>1, <2>5, <2>6
<1>4. LatestIsKnown'
  <2>1. SUFFICES ASSUME emitter'.open, NEW j \in DOMAIN rows',
                        rows'[j].run = run, rows'[j].key # NoKey, Latest(j)'
                 PROVE  (\E w \in windows' : w.row = j) \/ evicted' > 0 \/ ~rows'[j].kept
    BY DEF LatestIsKnown
  <2>2. CASE j = n
    BY <2>1, <2>2
  <2>3. CASE j \in DOMAIN rows
    <3>1. Latest(j)
      BY <1>1, <2>1, <2>3 DEF Latest
    <3>2. rows[j].key # rows'[n].key
      <4>1. n > j
        BY <1>2, <2>3
      <4>2. ~SameKey(j, n)'
        BY <2>1, <4>1 DEF Latest
      <4>3. QED
        BY <2>1, <2>3, <4>2 DEF SameKey
    <3>3. (\E w \in windows : w.row = j) \/ evicted > 0 \/ ~rows[j].kept
      BY <2>1, <2>3, <3>1 DEF GapInv, LatestIsKnown
    <3>4. \A w \in windows : w.row = j => w.key = rows[j].key
      BY DEF TrailInv, WindowsMatch
    <3>5. QED
      BY <2>3, <3>2, <3>3, <3>4
  <2>4. QED
    BY <2>1, <2>2, <2>3
<1>5. QED
  BY <1>3, <1>4 DEF GapInv

\* A window that leaves the index when a row is opened for k was counted, or
\* was k's and its row archived.
LEMMA DroppedIsCounted ==
    ASSUME TrailInv, NEW k \in Keys, Opens(k), evicted' = EvictedAfter(Indexed(k)),
           NEW u \in windows, u \notin MadeRoom(Indexed(k))
    PROVE  evicted' > 0 \/ (u.key = k /\ ~rows[u.row].kept)
<1>1. CASE u \in Indexed(k)
  BY <1>1, OpensFrom, RoomIsMade DEF TrailInv
<1>2. CASE u \notin Indexed(k)
  <2>1. Folds(k) /\ u.key = k
    BY <1>2 DEF Indexed, Without
  <2>2. u = WindowOf(k)
    BY <2>1, WindowFound DEF Folds, TrailInv, WindowsMatch
  <2>3. QED
    BY <2>1, <2>2 DEF Opens
<1>3. QED
  BY <1>1, <1>2

\* The tally a new row names is that of the key's latest row, or none.
LEMMA HandOffIsLatest ==
    ASSUME TrailInv, NEW k \in Keys, NEW j \in DOMAIN rows,
           rows[j].key = k, rows[j].run = run, Latest(j)
    PROVE  HandOff(k) >= rows[j].count \/ HandOff(k) = 0
<1>1. CASE HasWindow(k) /\ ~Folds(k)
  <2>1. PICK u \in windows : u = WindowOf(k) /\ u.key = k
    BY <1>1, WindowFound
  <2>2. /\ u.row \in DOMAIN rows /\ rows[u.row].key = k /\ rows[u.row].run = run
        /\ rows[u.row].count <= u.count /\ Latest(u.row)
    BY <2>1 DEF TrailInv, WindowsMatch
  <2>3. u.row \in Nat /\ j \in Nat /\ rows[u.row].count \in Nat /\ u.count \in Nat
    BY <2>2, RowTyped DEF TrailInv, TrailType, Window
  <2>4. u.row = j
    <3>1. SameKey(j, u.row) /\ SameKey(u.row, j)
      BY <2>2 DEF SameKey
    <3>2. ~(u.row > j) /\ ~(j > u.row)
      BY <2>2, <3>1 DEF Latest
    <3>3. QED
      BY <2>3, <3>2
  <2>5. HandOff(k) = u.count
    BY <1>1, <2>1 DEF HandOff
  <2>6. QED
    BY <2>2, <2>3, <2>4, <2>5
<1>2. CASE ~(HasWindow(k) /\ ~Folds(k))
  BY <1>2 DEF HandOff
<1>3. QED
  BY <1>1, <1>2

\* A new row's link to its predecessor.
LEMMA OpenGap ==
    ASSUME TrailInv, GapInv, NEW k \in Keys, Open(k)
    PROVE  GapInv'
<1>1. PICK n, f : /\ n = Len(rows) + 1
                  /\ f = [key |-> k, row |-> n, count |-> 1, lapsed |-> FALSE, touch |-> calls']
  OBVIOUS
<1>2. /\ Opens(k) /\ Insert(k, HandOff(k), evicted') /\ evicted' = EvictedAfter(Indexed(k))
      /\ windows' = Without(MadeRoom(Indexed(k)), k) \cup {f}
      /\ run' = run /\ emitter' = emitter
  BY <1>1 DEF Open
<1>3. evicted' \in Nat /\ evicted' >= evicted /\ evicted \in Nat /\ HandOff(k) \in Nat
  BY <1>2, OpensFrom DEF TrailInv, TrailType
<1>4. /\ n \in Nat /\ n \notin DOMAIN rows /\ DOMAIN rows' = DOMAIN rows \cup {n}
      /\ \A i \in DOMAIN rows : rows'[i] = rows[i] /\ i < n
      /\ rows'[n].key = k /\ rows'[n].run = run
      /\ rows'[n].prev = HandOff(k) /\ rows'[n].evictions = evicted'
  <2>1. n \in Nat
    BY <1>1, LenProperties DEF TrailInv, TrailType
  <2>2. QED
    BY <1>1, <1>2, <1>3, <2>1, RowInserted DEF TrailInv
<1>5. evicted > 0 => evicted' > 0
  BY <1>3
<1>6. \A u \in windows : u.key # k => (\E v \in windows' : v.row = u.row) \/ evicted' > 0
  <2>1. ASSUME NEW u \in windows, u.key # k, ~(evicted' > 0)
        PROVE  u \in windows'
    <3>1. u \in MadeRoom(Indexed(k))
      BY <1>2, <2>1, DroppedIsCounted
    <3>2. QED
      BY <1>2, <2>1, <3>1 DEF Without
  <2>2. QED
    BY <2>1
<1>7. \E v \in windows' : v.row = n
  BY <1>1, <1>2
<1>8. ASSUME emitter.open, NEW j \in DOMAIN rows, rows[j].key = k, rows[j].run = run, Latest(j)
      PROVE  \/ rows'[n].prev >= rows[j].count
             \/ rows'[n].prev = 0 /\ (rows'[n].evictions > 0 \/ ~rows[j].kept)
  <2>1. HandOff(k) >= rows[j].count \/ HandOff(k) = 0
    BY <1>8, HandOffIsLatest
  <2>2. k # NoKey
    BY AuditTrailAssumption
  <2>3. (\E w \in windows : w.row = j) \/ evicted > 0 \/ ~rows[j].kept
    BY <1>8, <2>2 DEF GapInv, LatestIsKnown
  <2>4. CASE \E w \in windows : w.row = j
    <3>1. PICK w \in windows : w.row = j
      BY <2>4
    <3>2. w.key = k /\ rows[j].count <= w.count
      BY <1>8, <3>1 DEF TrailInv, WindowsMatch
    <3>3. HasWindow(k) /\ WindowOf(k) = w
      BY <3>2, WindowFound DEF HasWindow, TrailInv, WindowsMatch
    <3>4. CASE Folds(k)
      BY <1>2, <1>4, <3>1, <3>3, <3>4 DEF Opens, HandOff
    <3>5. CASE ~Folds(k)
      <4>1. HandOff(k) = w.count
        BY <3>3, <3>5 DEF HandOff
      <4>2. rows[j].count \in Nat
        BY RowTyped DEF TrailInv
      <4>3. QED
        BY <1>3, <1>4, <3>2, <4>1, <4>2
    <3>6. QED
      BY <3>4, <3>5
  <2>5. CASE evicted > 0
    BY <1>4, <1>5, <2>1, <2>5
  <2>6. CASE ~rows[j].kept
    BY <1>4, <2>1, <2>6
  <2>7. QED
    BY <2>3, <2>4, <2>5, <2>6
<1>9. QED
  BY <1>2, <1>4, <1>5, <1>6, <1>7, <1>8, GapInsert

\* Every step keeps the gaps marked.
LEMMA GapInvNext ==
    ASSUME TrailInv, ExportInv, GapInv, [Next]_vars
    PROVE  GapInv'
<1>1. ASSUME UNCHANGED <<rows, run>>, emitter'.open => emitter.open,
             evicted > 0 => evicted' > 0,
             \A u \in windows : \/ \E v \in windows' : v.row = u.row
                                \/ evicted' > 0
                                \/ ~rows[u.row].kept
      PROVE  GapInv'
  BY <1>1, GapKept
<1>2. ASSUME NEW k \in Keys, Fold(k) \/ FoldRaises(k)
      PROVE  GapInv'
  <2>1. PICK w, t : w = WindowOf(k) /\ t = Touched(w)
    OBVIOUS
  <2>2. /\ w \in windows /\ w.key = k /\ w.row \in DOMAIN rows /\ w.count \in Nat
        /\ t.row = w.row /\ windows' = Without(windows, k) \cup {t}
    BY <1>2, <2>1, WindowTouched DEF Fold, FoldRaises, Folds
  <2>3. run' = run /\ emitter' = emitter /\ evicted' = evicted
    BY <1>2 DEF Fold, FoldRaises
  <2>4. \A u \in windows : \E v \in windows' : v.row = u.row
    <3>1. \A u \in windows : u.key = k => u = w
      BY <2>2 DEF TrailInv, WindowsMatch
    <3>2. QED
      BY <2>2, <3>1 DEF Without
  <2>5. CASE FoldRaises(k)
    <3>1. rows' = rows
      BY <2>5 DEF FoldRaises
    <3>2. QED
      BY <1>1, <2>3, <2>4, <3>1
  <2>6. CASE Fold(k)
    <3>1. PICK n \in DOMAIN rows, c \in Nat : n = w.row /\ c = w.count + 1
      BY <2>2
    <3>2. rows' = [rows EXCEPT ![n].count = c]
      BY <2>1, <2>6, <3>1 DEF Fold
    <3>3. Latest(n)
      BY <2>2, <3>1 DEF TrailInv, WindowsMatch
    <3>4. /\ DOMAIN rows' = DOMAIN rows
          /\ \A i \in DOMAIN rows :
               /\ rows'[i].key = rows[i].key /\ rows'[i].run = rows[i].run
               /\ rows'[i].prev = rows[i].prev /\ rows'[i].evictions = rows[i].evictions
               /\ rows'[i].kept = rows[i].kept \/ rows'[i].kept = FALSE
               /\ rows'[i].count = IF i = n THEN c ELSE rows[i].count
      BY <3>2, RowChanged DEF TrailInv
    <3>5. \A i \in DOMAIN rows : /\ rows'[i].kept => rows[i].kept
                                 /\ rows'[i].count = rows[i].count \/ Latest(i)
      BY <3>3, <3>4
    <3>6. QED
      BY <2>3, <2>4, <3>4, <3>5, GapKept
  <2>7. QED
    BY <1>2, <2>5, <2>6
<1>3. ASSUME NEW k \in Keys, OpenRaises(k)
      PROVE  GapInv'
  <2>1. /\ Opens(k) /\ evicted' = EvictedAfter(Indexed(k)) /\ windows' = MadeRoom(Indexed(k))
        /\ UNCHANGED <<rows, emitter, run>>
    BY <1>3 DEF OpenRaises
  <2>2. evicted' >= evicted /\ evicted' \in Nat /\ evicted \in Nat
    BY <2>1, OpensFrom DEF TrailInv, TrailType
  <2>3. \A u \in windows : u \in windows' \/ evicted' > 0 \/ ~rows[u.row].kept
    BY <2>1, DroppedIsCounted
  <2>4. evicted > 0 => evicted' > 0
    BY <2>2
  <2>5. QED
    BY <1>1, <2>1, <2>3, <2>4
<1>4. ASSUME NEW n \in DOMAIN rows, Archive(n)
      PROVE  GapInv'
  <2>1. /\ rows' = [rows EXCEPT ![n].kept = FALSE]
        /\ UNCHANGED <<windows, evicted, emitter, run>>
    BY <1>4 DEF Archive
  <2>2. PICK c \in Nat : c = rows[n].count
    BY RowTyped DEF TrailInv
  <2>3. /\ DOMAIN rows' = DOMAIN rows
        /\ \A i \in DOMAIN rows :
             /\ rows'[i].key = rows[i].key /\ rows'[i].run = rows[i].run
             /\ rows'[i].prev = rows[i].prev /\ rows'[i].evictions = rows[i].evictions
             /\ rows'[i].kept = rows[i].kept \/ rows'[i].kept = FALSE
             /\ rows'[i].count = IF i = n THEN c ELSE rows[i].count
    BY <2>1, <2>2, RowChanged DEF TrailInv
  <2>4. \A i \in DOMAIN rows : /\ rows'[i].kept => rows[i].kept
                               /\ rows'[i].count = rows[i].count
    BY <2>2, <2>3
  <2>5. QED
    BY <2>1, <2>3, <2>4, GapKept
<1>5. CASE RecordPlain
  <2>1. PICK n : n = Len(rows) + 1
    OBVIOUS
  <2>2. Insert(NoKey, 0, 0) /\ UNCHANGED <<windows, evicted, emitter, run>>
    BY <1>5 DEF RecordPlain
  <2>3. /\ n \notin DOMAIN rows /\ DOMAIN rows' = DOMAIN rows \cup {n}
        /\ \A i \in DOMAIN rows : rows'[i] = rows[i] /\ i < n
        /\ rows'[n].key = NoKey /\ rows'[n].run = run
    BY <2>1, <2>2, RowInserted DEF TrailInv
  <2>4. n \in Nat
    BY <2>1, LenProperties DEF TrailInv, TrailType
  <2>5. QED
    BY <2>2, <2>3, <2>4, GapInsert
<1>6. CASE Lapse
  <2>1. PICK w \in windows :
            /\ windows' = (windows \ {w}) \cup {[w EXCEPT !.lapsed = TRUE]}
            /\ UNCHANGED <<rows, run, evicted, emitter>>
    BY <1>6 DEF Lapse, Unlapsed
  <2>2. PICK t : t = [w EXCEPT !.lapsed = TRUE]
    OBVIOUS
  <2>3. t.row = w.row
    BY <2>2 DEF TrailInv, TrailType, Window
  <2>4. windows' = (windows \ {w}) \cup {t}
    BY <2>1, <2>2
  <2>5. \A u \in windows : \E v \in windows' : v.row = u.row
    BY <2>3, <2>4
  <2>6. QED
    BY <1>1, <2>1, <2>5
<1>7. CASE Close
  <2>1. ~emitter'.open
    BY <1>7 DEF Close, ExportInv, EmitterType
  <2>2. QED
    BY <2>1 DEF GapInv, GapIsMarked, LatestIsKnown
<1>8. CASE Restart
  <2>1. rows' = rows /\ run' = run + 1 /\ run \in Nat
    BY <1>8 DEF Restart, TrailInv, TrailType
  <2>2. \A i \in DOMAIN rows : rows[i].run \in Nat /\ rows[i].run <= run
    BY RowTyped DEF TrailInv, RunsPast
  <2>3. \A i \in DOMAIN rows' : rows'[i].run # run'
    BY <2>1, <2>2
  <2>4. QED
    BY <2>3 DEF GapInv, GapIsMarked, LatestIsKnown
<1>9. ASSUME NEW i \in DOMAIN rows,
             Export(i) \/ Submit(i) \/ Deliver(i) \/ SendFails(i) \/ Release(i)
      PROVE  GapInv'
  <2>1. emitter'.open = emitter.open /\ UNCHANGED <<rows, windows, evicted, run>>
    <3>1. CASE Export(i)
      BY <3>1 DEF Export, ExportInv, EmitterType
    <3>2. CASE Submit(i) \/ Deliver(i) \/ SendFails(i) \/ Release(i)
      BY <3>2 DEF Submit, Deliver, SendFails, Release, ExportInv, EmitterType, Emitters
    <3>3. QED
      BY <1>9, <3>1, <3>2
  <2>2. QED
    BY <1>1, <2>1
<1>10. CASE Dequeue \/ UNCHANGED vars
  <2>1. emitter'.open = emitter.open /\ UNCHANGED <<rows, windows, evicted, run>>
    BY <1>10 DEF Dequeue, vars, ExportInv, EmitterType, Emitters
  <2>2. QED
    BY <1>1, <2>1
<1>11. ASSUME NEW k \in Keys, Open(k)
       PROVE  GapInv'
  BY <1>11, OpenGap
<1>12. QED
  BY <1>2, <1>3, <1>4, <1>5, <1>6, <1>7, <1>8, <1>9, <1>10, <1>11 DEF Next

\* Whatever the cap, the number of keys and what operators archive: until
\* shutdown a row that does not carry its predecessor's full tally carries the
\* mark of the evictions, or its predecessor was archived.
THEOREM GapsAreMarked == Spec => []GapIsMarked
<1>1. ASSUME Init PROVE GapInv
  <2>1. DOMAIN rows = {}
    BY <1>1 DEF Init
  <2>2. QED
    BY <2>1 DEF GapInv, GapIsMarked, LatestIsKnown
<1>2. GapInv => GapIsMarked
  BY DEF GapInv
<1>3. QED
  BY <1>1, <1>2, TrailInvInit, TrailInvNext, ExportInvInit, ExportInvNext, GapInvNext, PTL DEF Spec

=============================================================================
