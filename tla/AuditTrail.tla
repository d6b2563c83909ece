----------------------------- MODULE AuditTrail -----------------------------
(***************************************************************************)
(* The audit trail: the rows of audit_log, the coalescer that folds        *)
(* repeated denials into one row per window, and the bounded queue that    *)
(* carries new rows to an off-box collector.                               *)
(*                                                                         *)
(* DenialCoalescer.record runs under its lock, so a call is one step with  *)
(* the outcomes the store gives it; the export of the row it returns comes *)
(* later, and another thread may record in between.  A coalescing key (the *)
(* event type, the reason code, the account and the order) is a value.     *)
(* Windows lapse in the order in which they were opened.  The monotonic    *)
(* clock is the number of calls, each of which touches at most one window. *)
(***************************************************************************)
EXTENDS Naturals, FiniteSets, Sequences

CONSTANTS
    Keys,           \* coalescing keys
    NoKey,          \* the key of rows that are never coalesced
    Cap,            \* MAX_OPEN_WINDOWS
    QueueMax,       \* hec_queue_max
    Workers,        \* threads of the emitter's pool
    OffboxRequired, \* audit_offbox_required
    MaxDenials,     \* bound on calls of record for a coalesced type
    MaxPlain,       \* bound on rows of other types
    Callers,        \* bound on threads with a row in hand
    MaxArchives,    \* bound on rows an operator archives
    MaxRuns         \* bound on process starts

ASSUME AuditTrailAssumption ==
    /\ IsFiniteSet(Keys) /\ NoKey \notin Keys
    /\ Cap \in Nat \ {0} /\ QueueMax \in Nat /\ Workers \in Nat \ {0}
    /\ OffboxRequired \in BOOLEAN
    /\ MaxDenials \in Nat /\ MaxPlain \in Nat /\ Callers \in Nat /\ MaxArchives \in Nat
    /\ MaxRuns \in Nat \ {0}

VARIABLES
    rows,       \* audit_log, in the order of its ids
    windows,    \* the open windows
    calls,      \* calls of record so far: the clock a window's last_touch reads
    evicted,    \* windows this process dropped to stay under Cap
    inHand,     \* rows committed and not yet handed to the emitter
    emitter,    \* the emitter's pool and its counters
    run,        \* which process this is
    \* history
    recorded,   \* denials of each key whose call of record returned
    raised,     \* denials of each key whose call raised
    arrived     \* rows of this process that reached the collector

vars == <<rows, windows, calls, evicted, inHand, emitter, run, recorded, raised, arrived>>

-----------------------------------------------------------------------------
\* audit_offbox_required: create_app delivers a probe event first, or refuses
\* to start; the emitter counts it like any other.
Probes == IF OffboxRequired THEN 1 ELSE 0

\* A row that was given a slot of the queue is admitted until the pool has it,
\* and releasing from the record of its outcome until the slot is given back.
FreshEmitter == [open |-> TRUE, admitted |-> {}, queue |-> << >>, sending |-> {},
                 releasing |-> {}, inflight |-> 0,
                 dropped |-> 0, delivered |-> Probes, failures |-> 0]

Init ==
    /\ rows = << >> /\ windows = {} /\ calls = 0 /\ evicted = 0
    /\ inHand = {} /\ emitter = FreshEmitter /\ arrived = 0
    /\ run = 1
    /\ recorded = [k \in Keys |-> 0] /\ raised = [k \in Keys |-> 0]

\* The caller is handed the new row, which it exports once the commit is done.
Insert(key, prev, evictions) ==
    /\ rows' = Append(rows, [key |-> key, run |-> run, count |-> 1, prev |-> prev,
                             evictions |-> evictions, kept |-> TRUE])
    /\ Cardinality(inHand) < Callers
    /\ inHand' = inHand \cup {Len(rows) + 1}

-----------------------------------------------------------------------------
(* DenialCoalescer.                                                        *)

Without(ws, k) == {w \in ws : w.key # k}
HasWindow(k) == \E w \in windows : w.key = k
WindowOf(k) == CHOOSE w \in windows : w.key = k
Unlapsed(ws) == {w \in ws : ~w.lapsed}
Folds(k) == HasWindow(k) /\ ~WindowOf(k).lapsed

\* The windows of ws touched after w.
TouchedAfter(w, ws) == {v \in ws : v.touch > w.touch}

\* _evict_for_new_window: at the cap every lapsed window goes and, if that is
\* not enough, the least recently touched ones.
MadeRoom(ws) ==
    IF Cardinality(ws) < Cap THEN ws
    ELSE LET live == Unlapsed(ws)
         IN IF Cardinality(live) < Cap THEN live
            ELSE {w \in live : Cardinality(TouchedAfter(w, live)) < Cap - 1}

\* Fault: only windows that could still fold are counted.
LapsedGoUncounted(ws) ==
    evicted + Cardinality(Unlapsed(ws)) - Cardinality(Unlapsed(MadeRoom(ws)))

EvictedAfter(ws) == evicted + Cardinality(ws) - Cardinality(MadeRoom(ws))

\* The clock moves with every call.
Called == calls < MaxDenials /\ calls' = calls + 1

Touched(w) == [w EXCEPT !.count = @ + 1, !.touch = calls']

\* Fault: the tally is kept in memory until the window closes.
FoldInMemory(k) ==
    LET w == WindowOf(k)
    IN /\ Called /\ Folds(k) /\ rows[w.row].kept
       /\ windows' = Without(windows, k) \cup {Touched(w)}
       /\ recorded' = [recorded EXCEPT ![k] = @ + 1]
       /\ UNCHANGED <<rows, evicted, inHand, emitter, run, raised, arrived>>

\* _extend: the tally is counted in memory and written to the window's row,
\* whose other details stay.  Nothing is exported.
Fold(k) ==
    LET w == WindowOf(k)
    IN /\ Called /\ Folds(k) /\ rows[w.row].kept
       /\ windows' = Without(windows, k) \cup {Touched(w)}
       /\ rows' = [rows EXCEPT ![w.row].count = w.count + 1]
       /\ recorded' = [recorded EXCEPT ![k] = @ + 1]
       /\ UNCHANGED <<evicted, inHand, emitter, run, raised, arrived>>

\* The update raises after the window was counted up.
FoldRaises(k) ==
    LET w == WindowOf(k)
    IN /\ Called /\ Folds(k)
       /\ windows' = Without(windows, k) \cup {Touched(w)}
       /\ raised' = [raised EXCEPT ![k] = @ + 1]
       /\ UNCHANGED <<rows, evicted, inHand, emitter, run, recorded, arrived>>

\* The windows when a row is about to be opened for k: one whose row an
\* operator has archived is forgotten, a lapsed one hands its tally on.
Indexed(k) == IF Folds(k) THEN Without(windows, k) ELSE windows
Opens(k) == Folds(k) => ~rows[WindowOf(k).row].kept
HandOff(k) == IF HasWindow(k) /\ ~Folds(k) THEN WindowOf(k).count ELSE 0

Open(k) ==
    /\ Called /\ Opens(k)
    /\ evicted' = EvictedAfter(Indexed(k))
    /\ Insert(k, HandOff(k), evicted')
    /\ windows' = Without(MadeRoom(Indexed(k)), k) \cup
                    {[key |-> k, row |-> Len(rows) + 1, count |-> 1, lapsed |-> FALSE,
                      touch |-> calls']}
    /\ recorded' = [recorded EXCEPT ![k] = @ + 1]
    /\ UNCHANGED <<emitter, run, raised, arrived>>

\* record_audit raises: room was made, no window is entered.
OpenRaises(k) ==
    /\ Called /\ Opens(k)
    /\ evicted' = EvictedAfter(Indexed(k))
    /\ windows' = MadeRoom(Indexed(k))
    /\ raised' = [raised EXCEPT ![k] = @ + 1]
    /\ UNCHANGED <<rows, inHand, emitter, run, recorded, arrived>>

\* The oldest window that can still fold reaches the end of its time.
Lapse ==
    \E w \in Unlapsed(windows) :
        /\ \A v \in Unlapsed(windows) : w.row <= v.row
        /\ windows' = (windows \ {w}) \cup {[w EXCEPT !.lapsed = TRUE]}
        /\ UNCHANGED <<rows, calls, evicted, inHand, emitter, run, recorded, raised, arrived>>

\* A row of any other type, written by itself or with the change it is about.
RecordPlain ==
    /\ Cardinality({i \in DOMAIN rows : rows[i].key = NoKey}) < MaxPlain
    /\ Insert(NoKey, 0, 0)
    /\ UNCHANGED <<windows, calls, evicted, emitter, run, recorded, raised, arrived>>

\* An operator moves a row out of the table.
Archive(i) ==
    /\ rows[i].kept
    /\ Cardinality({j \in DOMAIN rows : ~rows[j].kept}) < MaxArchives
    /\ rows' = [rows EXCEPT ![i].kept = FALSE]
    /\ UNCHANGED <<windows, calls, evicted, inHand, emitter, run, recorded, raised, arrived>>

-----------------------------------------------------------------------------
(* SiemEmitter.  A step is one section under its lock, or one of the pool. *)

\* _submit_bounded takes a slot, or counts a drop at the queue's ceiling;
\* after close the event is let go.
Export(i) ==
    /\ i \in inHand
    /\ inHand' = inHand \ {i}
    /\ emitter' =
         IF ~emitter.open THEN emitter
         ELSE IF emitter.inflight >= QueueMax THEN [emitter EXCEPT !.dropped = @ + 1]
         ELSE [emitter EXCEPT !.inflight = @ + 1, !.admitted = @ \cup {i}]
    /\ UNCHANGED <<rows, windows, calls, evicted, run, recorded, raised, arrived>>

\* The pool takes the row.  One that close has shut down refuses it, and the
\* slot is given back; where it is gone already, the slot is not.
Submit(i) ==
    /\ i \in emitter.admitted
    /\ \/ /\ emitter.open
          /\ emitter' = [emitter EXCEPT !.admitted = @ \ {i}, !.queue = Append(@, i)]
       \/ /\ ~emitter.open
          /\ \E n \in {0, 1} : emitter' = [emitter EXCEPT !.admitted = @ \ {i},
                                                          !.inflight = @ - n]
    /\ UNCHANGED <<rows, windows, calls, evicted, inHand, run, recorded, raised, arrived>>

\* A thread is free once the slot of its last row has been given back.
Dequeue ==
    /\ emitter.queue # << >>
    /\ Cardinality(emitter.sending \cup emitter.releasing) < Workers
    /\ emitter' = [emitter EXCEPT !.sending = @ \cup {Head(emitter.queue)}, !.queue = Tail(@)]
    /\ UNCHANGED <<rows, windows, calls, evicted, inHand, run, recorded, raised, arrived>>

\* Acknowledged, and recorded as such: a success ends the run of failures.
Deliver(i) ==
    /\ i \in emitter.sending
    /\ arrived' = arrived + 1
    /\ emitter' = [emitter EXCEPT !.sending = @ \ {i}, !.releasing = @ \cup {i},
                                  !.delivered = @ + 1, !.failures = 0]
    /\ UNCHANGED <<rows, windows, calls, evicted, inHand, run, recorded, raised>>

\* Fault: a failed send does not come to the step that gives the slot back.
SendFailsKeepsSlot(i) ==
    /\ i \in emitter.sending
    /\ arrived' \in {arrived, arrived + 1}
    /\ emitter' = [emitter EXCEPT !.sending = @ \ {i}, !.failures = @ + 1]
    /\ UNCHANGED <<rows, windows, calls, evicted, inHand, run, recorded, raised>>

\* Refused, timed out, or acknowledged in vain; it is not sent again.
SendFails(i) ==
    /\ i \in emitter.sending
    /\ arrived' \in {arrived, arrived + 1}
    /\ emitter' = [emitter EXCEPT !.sending = @ \ {i}, !.releasing = @ \cup {i},
                                  !.failures = @ + 1]
    /\ UNCHANGED <<rows, windows, calls, evicted, inHand, run, recorded, raised>>

\* The finally clause of _hec_post.
Release(i) ==
    /\ i \in emitter.releasing
    /\ emitter' = [emitter EXCEPT !.releasing = @ \ {i}, !.inflight = @ - 1]
    /\ UNCHANGED <<rows, windows, calls, evicted, inHand, run, recorded, raised, arrived>>

\* Shutdown: what is queued is cancelled, what is being sent is not.
Close ==
    /\ emitter.open
    /\ emitter' = [emitter EXCEPT !.open = FALSE, !.queue = << >>]
    /\ windows' = {}
    /\ UNCHANGED <<rows, calls, evicted, inHand, run, recorded, raised, arrived>>

\* The process ends, orderly or not, and the next one starts from nothing.
Restart ==
    /\ run < MaxRuns
    /\ run' = run + 1
    /\ windows' = {} /\ evicted' = 0 /\ inHand' = {} /\ emitter' = FreshEmitter
    /\ arrived' = 0
    /\ UNCHANGED <<rows, calls, recorded, raised>>

Next ==
    \/ \E k \in Keys : Fold(k) \/ FoldRaises(k) \/ Open(k) \/ OpenRaises(k)
    \/ \E i \in DOMAIN rows :
         \/ Archive(i) \/ Export(i) \/ Submit(i)
         \/ Deliver(i) \/ SendFails(i) \/ Release(i)
    \/ Lapse \/ RecordPlain \/ Dequeue \/ Close \/ Restart

Spec == Init /\ [][Next]_vars

-----------------------------------------------------------------------------
(* Properties.                                                             *)

RowsOf(k) == {i \in DOMAIN rows : rows[i].key = k}

\* The denials of k the rows tell of: the n-th that row i counts.
OnRecord(k) == UNION {{i} \X (1..rows[i].count) : i \in RowsOf(k)}

\* The tallies on the rows, archived ones included, add up to the denials
\* that were recorded, whatever was evicted, archived or lost in a crash; a
\* denial whose own write failed may be counted by a later one, never twice.
DenialsConserved ==
    \A k \in Keys : Cardinality(OnRecord(k)) \in recorded[k]..(recorded[k] + raised[k])

\* Rows i and j of one process are successive windows of one key.
SameKey(i, j) == rows[i].key = rows[j].key /\ rows[i].run = rows[j].run
Succeeds(i, j) == j < i /\ SameKey(i, j) /\ \A m \in (j + 1)..(i - 1) : ~SameKey(i, m)

\* A window's row either names its predecessor's full tally or says that the
\* index has been shedding, unless the predecessor was archived under it: only
\* the first window of a key in a process looks like one, until shutdown has
\* cleared the index.
GapIsMarked ==
    emitter.open =>
      \A i, j \in DOMAIN rows :
        rows[i].run = run /\ rows[i].key # NoKey /\ Succeeds(i, j) =>
            \/ rows[i].prev >= rows[j].count
            \/ rows[i].prev = 0 /\ (rows[i].evictions > 0 \/ ~rows[j].kept)

ThisRun == {i \in DOMAIN rows : rows[i].run = run}

\* The emitter's books are right in every state another thread can see, while
\* the emitter is open.  A slot is held for exactly the rows on their way, on
\* whichever path a send ends, and slots stay under the ceiling; what counts
\* as delivered has arrived (the startup probe aside); and no row is counted
\* twice as dropped, failed, delivered or still to come.
ExportsAccounted ==
    emitter.open =>
        LET onTheWay == Cardinality(emitter.admitted) + Len(emitter.queue)
                          + Cardinality(emitter.sending)
        IN /\ emitter.inflight = onTheWay + Cardinality(emitter.releasing)
           /\ emitter.inflight <= QueueMax
           /\ emitter.delivered <= arrived + Probes
           /\ Cardinality(inHand) + onTheWay + emitter.dropped + emitter.failures
                + emitter.delivered <= Cardinality(ThisRun) + Probes

=============================================================================
