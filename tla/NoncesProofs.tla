---------------------------- MODULE NoncesProofs ----------------------------
(***************************************************************************)
(* Replay nonces are single use, the token bucket keeps its rate, and no   *)
(* chain of requests has nonces minted that nothing paid for: for every    *)
(* number of nonces and requests and every burst and refill rate.          *)
(***************************************************************************)
EXTENDS Nonces, FiniteSetTheorems, TLAPS

-----------------------------------------------------------------------------
(* Arithmetic of the bucket.                                               *)

\* The cap of the bucket, as a number.
LEMMA CapNat == Capacity * Scale \in Nat /\ Scale <= Capacity * Scale
BY NoncesAssumption, SMT

\* What a pause adds is a number.
LEMMA PauseNat == ASSUME NEW a \in Nat, NEW b \in Nat, b <= a
                  PROVE  (a - b) * Refill \in Nat
BY NoncesAssumption, SMT

\* One more tick of a pause adds one refill.
LEMMA PauseGrows == ASSUME NEW a \in Nat, NEW b \in Nat, b <= a
                    PROVE  ((a + 1) - b) * Refill = (a - b) * Refill + Refill
BY NoncesAssumption, SMT

\* The refilled bucket holds between nothing and its cap.
LEMMA RefilledType == TypeOK => Refilled \in 0..Capacity * Scale
<1> SUFFICES ASSUME TypeOK PROVE Refilled \in 0..Capacity * Scale
  OBVIOUS
<1> DEFINE pause == (now - bucket.updated) * Refill
<1>1. now \in Nat /\ bucket.updated \in Nat /\ bucket.updated <= now /\ bucket.tokens \in Nat
  BY NoncesAssumption, CapNat DEF TypeOK
<1>2. pause \in Nat
  BY <1>1, PauseNat
<1> HIDE DEF pause
<1>3. Refilled = IF bucket.tokens + pause < Capacity * Scale
                   THEN bucket.tokens + pause ELSE Capacity * Scale
  BY DEF Refilled, pause
<1>4. QED
  BY <1>1, <1>2, <1>3, CapNat

-----------------------------------------------------------------------------
(* Types.                                                                  *)

\* A granted take keeps the bucket and its history typed.
LEMMA TakeType ==
    TypeOK /\ Take =>
        /\ bucket' \in [tokens : 0..Capacity * Scale, updated : 0..MaxTime]
        /\ bucket'.updated = now
        /\ granted' \in Nat
        /\ window' \in [since : 0..MaxTime, taken : Nat] \cup {None}
<1> SUFFICES ASSUME TypeOK, Take
             PROVE  /\ bucket' \in [tokens : 0..Capacity * Scale, updated : 0..MaxTime]
                    /\ bucket'.updated = now
                    /\ granted' \in Nat
                    /\ window' \in [since : 0..MaxTime, taken : Nat] \cup {None}
  OBVIOUS
<1>1. Refilled - Scale \in 0..Capacity * Scale
  BY RefilledType, CapNat, NoncesAssumption DEF Take
<1>2. QED
  BY <1>1 DEF Take, TypeOK

\* So does a refused one.
LEMMA RefusalType ==
    TypeOK /\ TakeRefused =>
        /\ bucket' \in [tokens : 0..Capacity * Scale, updated : 0..MaxTime]
        /\ bucket'.updated = now
        /\ granted' = granted /\ window' = window
BY RefilledType DEF TakeRefused, TypeOK

\* The initial state is well typed.
LEMMA InitType == Init => TypeOK
BY NoncesAssumption, CapNat DEF Init, TypeOK, Idle, PC

\* Every step keeps the state well typed.
LEMMA StepType == TypeOK /\ [Next]_vars => TypeOK'
<1> SUFFICES ASSUME TypeOK, [Next]_vars PROVE TypeOK'
  OBVIOUS
<1> USE DEF TypeOK
<1>0. Idle \in [pc : PC, nonce : Nonces \cup {None}]
  BY DEF Idle, PC
<1>1. ASSUME NEW t \in Requests, NewNonce(t) PROVE TypeOK'
  BY <1>1, TakeType, RefusalType, NoncesAssumption DEF NewNonce, At, PC, OwedPC
<1>2. ASSUME NEW t \in Requests, NEW n \in Nonces, ConsumeSelect(t, n) PROVE TypeOK'
  BY <1>2 DEF ConsumeSelect, PC
<1>3. ASSUME NEW t \in Requests, ConsumeDelete(t) PROVE TypeOK'
  BY <1>3 DEF ConsumeDelete, At, PC
<1>4. ASSUME NEW t \in Requests, Succeed(t) PROVE TypeOK'
  BY <1>4 DEF Succeed, At, PC, OwedPC
<1>5. ASSUME NEW t \in Requests, Error(t) PROVE TypeOK'
  BY <1>0, <1>5, TakeType, RefusalType, NoncesAssumption DEF Error, At, Finish, PC, OwedPC
<1>6. ASSUME NEW t \in Requests, BadNonce(t) PROVE TypeOK'
  BY <1>0, <1>6, TakeType, RefusalType, NoncesAssumption DEF BadNonce, At, Finish, PC, OwedPC
<1>7. ASSUME NEW t \in Requests, Mint(t) PROVE TypeOK'
  BY <1>0, <1>7 DEF Mint, Finish
<1>8. ASSUME NEW t \in Requests, RequestFails(t) PROVE TypeOK'
  BY <1>0, <1>8 DEF RequestFails, Finish
<1>9. ASSUME NEW n \in Nonces, PassTtl(n) PROVE TypeOK'
  BY <1>9 DEF PassTtl
<1>10. ASSUME Cleanup PROVE TypeOK'
  BY <1>10 DEF Cleanup
<1>11. ASSUME Tick PROVE TypeOK'
  BY <1>11, NoncesAssumption DEF Tick
<1>12. ASSUME Observe PROVE TypeOK'
  BY <1>12 DEF Observe
<1>13. ASSUME Restart PROVE TypeOK'
  BY <1>0, <1>13, CapNat, NoncesAssumption DEF Restart
<1>14. ASSUME UNCHANGED vars PROVE TypeOK'
  BY <1>14 DEF vars
<1>15. QED
  BY <1>1, <1>2, <1>3, <1>4, <1>5, <1>6, <1>7, <1>8, <1>9, <1>10, <1>11, <1>12, <1>13, <1>14
     DEF Next

\* Nonces, bucket and requests keep their types for every choice of limits.
THEOREM NoncesTypeCorrect == Spec => []TypeOK
<1>1. QED
  BY InitType, StepType, PTL DEF Spec

-----------------------------------------------------------------------------
(* Single use.                                                             *)

\* A nonce that admitted a request is not in the table any more.
SpentOnce ==
    \A n \in Nonces : admitted[n] <= 1 /\ (admitted[n] = 1 => nonce[n] = "gone")

\* No step admits a second request on a nonce, or puts a spent one back.
LEMMA StepSpentOnce == TypeOK /\ SpentOnce /\ [Next]_vars => SpentOnce'
<1> SUFFICES ASSUME TypeOK, SpentOnce, [Next]_vars PROVE SpentOnce'
  OBVIOUS
<1> USE DEF TypeOK, SpentOnce
<1>1. ASSUME NEW t \in Requests, ConsumeDelete(t) PROVE SpentOnce'
  BY <1>1 DEF ConsumeDelete
<1>2. ASSUME NEW t \in Requests, Mint(t) PROVE SpentOnce'
  BY <1>2 DEF Mint, Expired
<1>3. ASSUME NEW n \in Nonces, PassTtl(n) PROVE SpentOnce'
  BY <1>3 DEF PassTtl
<1>4. ASSUME Cleanup PROVE SpentOnce'
  BY <1>4 DEF Cleanup
<1>5. ASSUME UNCHANGED <<nonce, admitted>> PROVE SpentOnce'
  BY <1>5
<1>6. QED
  BY <1>1, <1>2, <1>3, <1>4, <1>5
     DEF Next, vars, NewNonce, ConsumeSelect, Succeed, Error, BadNonce, RequestFails, Tick,
         Observe, Restart

\* AdmitsOnce holds for any number of concurrent requests: consume_nonce is
\* single use although its SELECT and its DELETE are separate statements.
THEOREM NonceIsSingleUse == Spec => []AdmitsOnce
<1>1. Init => SpentOnce
  BY DEF Init, SpentOnce
<1>2. SpentOnce => AdmitsOnce
  BY DEF SpentOnce, AdmitsOnce
<1>3. QED
  BY <1>1, <1>2, NoncesTypeCorrect, StepSpentOnce, PTL DEF Spec

-----------------------------------------------------------------------------
(* The rate.                                                               *)

\* What a period took and what is left to take stay within the burst and the
\* period's refill.
WithinRate ==
    window # None =>
        /\ window.since <= now
        /\ window.taken * Scale + Refilled <= Capacity * Scale + (now - window.since) * Refill

\* A take moves one token from the bucket to the period's account.
LEMMA TakeWithinRate == TypeOK /\ WithinRate /\ Take /\ now' = now => WithinRate'
<1> SUFFICES ASSUME TypeOK, WithinRate, Take, now' = now, window' # None PROVE WithinRate'
  BY DEF WithinRate
<1>1. window # None /\ window \in [since : 0..MaxTime, taken : Nat]
  BY DEF Take, TypeOK
<1>2. window'.since = window.since /\ window'.taken = window.taken + 1
  BY <1>1 DEF Take
<1>3. now \in Nat /\ window.taken \in Nat /\ window.since \in Nat
  BY <1>1, NoncesAssumption DEF TypeOK
<1>4. (window.taken + 1) * Scale = window.taken * Scale + Scale /\ window.taken * Scale \in Nat
  BY <1>3, NoncesAssumption, SMT
<1>5. Refilled' = Refilled - Scale
  <2>1. bucket'.tokens = Refilled - Scale /\ bucket'.updated = now
    BY DEF Take
  <2>2. (now' - bucket'.updated) * Refill = 0
    BY <1>3, <2>1, NoncesAssumption
  <2>3. Refilled - Scale < Capacity * Scale /\ Refilled \in Nat /\ Scale \in Nat
    BY RefilledType, CapNat, NoncesAssumption
  <2>4. QED
    BY <2>1, <2>2, <2>3, CapNat, NoncesAssumption DEF Refilled, Take
<1>6. (now - window.since) * Refill \in Nat
  BY <1>1, <1>3, PauseNat DEF WithinRate
<1>7. QED
  BY <1>1, <1>2, <1>3, <1>4, <1>5, <1>6, RefilledType, CapNat, NoncesAssumption DEF WithinRate

\* A refusal only writes down what was refilled.
LEMMA RefusalWithinRate == TypeOK /\ WithinRate /\ TakeRefused /\ now' = now => WithinRate'
<1> SUFFICES ASSUME TypeOK, WithinRate, TakeRefused, now' = now PROVE WithinRate'
  OBVIOUS
<1>1. bucket'.tokens = Refilled /\ bucket'.updated = now /\ window' = window
  BY DEF TakeRefused
<1>2. now \in Nat
  BY NoncesAssumption DEF TypeOK
<1>3. (now' - bucket'.updated) * Refill = 0
  BY <1>1, <1>2, NoncesAssumption
<1>4. Refilled' = Refilled
  BY <1>1, <1>3, RefilledType, CapNat, NoncesAssumption DEF Refilled
<1>5. QED
  BY <1>1, <1>4 DEF WithinRate

\* A tick adds at most one refill to either side.
LEMMA TickWithinRate == TypeOK /\ WithinRate /\ Tick => WithinRate'
<1> SUFFICES ASSUME TypeOK, WithinRate, Tick, window # None PROVE WithinRate'
  BY DEF WithinRate, Tick
<1>1. window' = window /\ bucket' = bucket /\ now' = now + 1
  BY DEF Tick
<1>2. window \in [since : 0..MaxTime, taken : Nat]
  BY DEF TypeOK
<1>3. now \in Nat /\ bucket.updated \in Nat /\ bucket.updated <= now /\ bucket.tokens \in Nat
      /\ window.since \in Nat /\ window.taken * Scale \in Nat
  BY <1>2, CapNat, NoncesAssumption DEF TypeOK
<1> DEFINE pause == (now - bucket.updated) * Refill
           period == (now - window.since) * Refill
<1>4. pause \in Nat /\ (now' - bucket'.updated) * Refill = pause + Refill
  BY <1>1, <1>3, PauseNat, PauseGrows
<1>5. period \in Nat /\ (now' - window'.since) * Refill = period + Refill
  BY <1>1, <1>3, PauseNat, PauseGrows DEF WithinRate
<1>6. Refilled = IF bucket.tokens + pause < Capacity * Scale
                   THEN bucket.tokens + pause ELSE Capacity * Scale
  BY DEF Refilled
<1>7. Refilled' = IF bucket.tokens + (pause + Refill) < Capacity * Scale
                    THEN bucket.tokens + (pause + Refill) ELSE Capacity * Scale
  BY <1>1, <1>4 DEF Refilled
<1>8. window.taken * Scale + Refilled <= Capacity * Scale + period
  BY DEF WithinRate
<1> HIDE DEF pause, period
<1>9. Refilled' <= Refilled + Refill
  BY <1>3, <1>4, <1>6, <1>7, CapNat, NoncesAssumption
<1>10. Refilled \in Nat /\ Refilled' \in Nat
  BY <1>3, <1>4, <1>6, <1>7, CapNat, NoncesAssumption
<1>11. window.taken * Scale + Refilled' <= Capacity * Scale + (period + Refill)
  BY <1>3, <1>5, <1>8, <1>9, <1>10, CapNat, NoncesAssumption
<1>12. window.since <= now + 1
  BY <1>3 DEF WithinRate
<1>13. QED
  BY <1>1, <1>5, <1>11, <1>12 DEF WithinRate

\* Every step keeps the rate.
LEMMA StepWithinRate == TypeOK /\ WithinRate /\ [Next]_vars => WithinRate'
<1> SUFFICES ASSUME TypeOK, WithinRate, [Next]_vars PROVE WithinRate'
  OBVIOUS
<1>1. ASSUME NEW t \in Requests, NewNonce(t) \/ Error(t) \/ BadNonce(t) PROVE WithinRate'
  BY <1>1, TakeWithinRate, RefusalWithinRate DEF NewNonce, Error, BadNonce
<1>2. ASSUME Tick PROVE WithinRate'
  BY <1>2, TickWithinRate
<1>3. ASSUME Observe PROVE WithinRate'
  <2>1. window' = [since |-> now, taken |-> 0] /\ now' = now /\ bucket' = bucket
    BY <1>3 DEF Observe
  <2>2. now \in Nat /\ Refilled' = Refilled
    BY <2>1, NoncesAssumption DEF TypeOK, Refilled
  <2>3. (now - now) * Refill = 0 /\ 0 * Scale = 0
    BY <2>2, NoncesAssumption
  <2>4. QED
    BY <2>1, <2>2, <2>3, RefilledType, CapNat DEF WithinRate
<1>4. ASSUME Restart PROVE WithinRate'
  BY <1>4 DEF Restart, WithinRate
<1>5. ASSUME UNCHANGED <<now, bucket, window>> PROVE WithinRate'
  BY <1>5 DEF WithinRate, Refilled
<1>6. QED
  BY <1>1, <1>2, <1>3, <1>4, <1>5
     DEF Next, vars, ConsumeSelect, ConsumeDelete, Succeed, Mint, RequestFails, PassTtl, Cleanup

\* RateHolds for every burst and refill rate: over any period of a process the
\* bucket grants no more than its burst and what the period refills.
THEOREM BucketKeepsRate == Spec => []RateHolds
<1>1. Init => WithinRate
  BY DEF Init, WithinRate
<1>2. TypeOK /\ WithinRate => RateHolds
  <2> SUFFICES ASSUME TypeOK, WithinRate, window # None
               PROVE  window.taken * Scale <= Capacity * Scale + (now - window.since) * Refill
    BY DEF RateHolds
  <2>1. window \in [since : 0..MaxTime, taken : Nat] /\ now \in Nat
    BY NoncesAssumption DEF TypeOK
  <2>2. window.taken * Scale \in Nat /\ window.since \in Nat
    BY <2>1, NoncesAssumption, SMT
  <2>3. (now - window.since) * Refill \in Nat
    BY <2>1, <2>2, PauseNat DEF WithinRate
  <2>4. QED
    BY <2>2, <2>3, RefilledType, CapNat DEF WithinRate
<1>3. QED
  BY <1>1, <1>2, NoncesTypeCorrect, StepWithinRate, PTL DEF Spec

-----------------------------------------------------------------------------
(* Payment.                                                                *)

\* The requests whose response is still owed a nonce.
Owed == {t \in Requests : task[t].pc \in OwedPC}

\* What is minted and what is owed has been paid for.
Paid == Cardinality(Minted) + Cardinality(Owed) <= granted + succeeded

\* Both sets are finite, so their sizes are numbers.
LEMMA SizesNat == /\ IsFiniteSet(Minted) /\ IsFiniteSet(Owed)
                  /\ Cardinality(Minted) \in Nat /\ Cardinality(Owed) \in Nat
<1>1. IsFiniteSet(Minted)
  BY FS_Subset, NoncesAssumption DEF Minted
<1>2. IsFiniteSet(Owed)
  BY FS_Subset, NoncesAssumption DEF Owed
<1>3. QED
  BY <1>1, <1>2, FS_CardinalityType

\* A request that paid is owed a nonce.
LEMMA PaysThenOwed ==
    ASSUME TypeOK, Paid, NEW t \in Requests, Minted' = Minted, Owed' = Owed \cup {t},
           granted' + succeeded' = granted + succeeded + 1
    PROVE  Paid'
<1>1. Cardinality(Owed \cup {t}) <= Cardinality(Owed) + 1
  <2>1. Cardinality(Owed \cup {t}) = IF t \in Owed THEN Cardinality(Owed) ELSE Cardinality(Owed) + 1
    BY SizesNat, FS_AddElement, Zenon
  <2>2. QED
    BY <2>1, SizesNat
<1>2. Cardinality(Owed \cup {t}) \in Nat
  BY SizesNat, FS_AddElement, FS_CardinalityType
<1>3. granted \in Nat /\ succeeded \in Nat
  BY DEF TypeOK
<1>4. Cardinality(Minted)' = Cardinality(Minted) /\ Cardinality(Owed)' = Cardinality(Owed \cup {t})
  OBVIOUS
<1>5. QED
  BY <1>1, <1>2, <1>3, <1>4, SizesNat DEF Paid

\* Nothing is minted, and no more is owed than before.
LEMMA OwesNoMore ==
    ASSUME TypeOK, Paid, Minted' = Minted, Owed' \subseteq Owed,
           granted' = granted, succeeded' = succeeded
    PROVE  Paid'
<1>1. Cardinality(Owed') <= Cardinality(Owed) /\ Cardinality(Owed') \in Nat
  BY SizesNat, FS_Subset, FS_CardinalityType
<1>2. granted \in Nat /\ succeeded \in Nat
  BY DEF TypeOK
<1>3. Cardinality(Minted)' = Cardinality(Minted) /\ Cardinality(Owed)' = Cardinality(Owed')
  OBVIOUS
<1>4. QED
  BY <1>1, <1>2, <1>3, SizesNat DEF Paid

\* A mint settles one debt.
LEMMA MintSettles == ASSUME TypeOK, Paid, NEW t \in Requests, Mint(t) PROVE Paid'
<1>1. PICK n \in Nonces, G \in {{}, Expired} :
         /\ nonce[n] = "unused"
         /\ nonce' = [m \in Nonces |-> CASE m = n -> "live"
                                         [] m \in G -> "gone"
                                         [] OTHER -> nonce[m]]
  BY DEF Mint
<1>2. Minted' = Minted \cup {n} /\ n \notin Minted
  BY <1>1 DEF Minted, Expired
<1>3. t \in Owed /\ Owed' = Owed \ {t}
  BY DEF Mint, Finish, Idle, Owed, OwedPC, TypeOK
<1>4. Cardinality(Minted \cup {n}) = Cardinality(Minted) + 1
  BY <1>2, SizesNat, FS_AddElement
<1>5. Cardinality(Owed \ {t}) = Cardinality(Owed) - 1
  BY <1>3, SizesNat, FS_RemoveElement
<1>6. Cardinality(Minted)' = Cardinality(Minted) + 1 /\ Cardinality(Owed)' = Cardinality(Owed) - 1
  BY <1>2, <1>3, <1>4, <1>5
<1>7. QED
  BY <1>6, SizesNat DEF Paid, Mint

\* Every step keeps the account balanced.
LEMMA StepPaid == TypeOK /\ Paid /\ [Next]_vars => Paid'
<1> SUFFICES ASSUME TypeOK, Paid, [Next]_vars PROVE Paid'
  OBVIOUS
<1>0. granted \in Nat /\ succeeded \in Nat
  BY DEF TypeOK
<1>1. ASSUME NEW t \in Requests, NewNonce(t) \/ Error(t) \/ BadNonce(t) PROVE Paid'
  <2>1. Minted' = Minted /\ succeeded' = succeeded
    BY <1>1 DEF NewNonce, Error, BadNonce, Minted
  <2>2. CASE Take /\ \E pc \in OwedPC : At(t, pc)
    <3>1. Owed' = Owed \cup {t}
      BY <2>2 DEF At, Owed, TypeOK
    <3>2. granted' + succeeded' = granted + succeeded + 1
      BY <1>0, <2>1, <2>2 DEF Take
    <3>3. QED
      BY <2>1, <3>1, <3>2, PaysThenOwed
  <2>3. CASE TakeRefused /\ (UNCHANGED task \/ Finish(t))
    <3>1. Owed' \subseteq Owed
      BY <2>3 DEF Finish, Idle, Owed, OwedPC, TypeOK
    <3>2. granted' = granted
      BY <2>3 DEF TakeRefused
    <3>3. QED
      BY <2>1, <3>1, <3>2, OwesNoMore
  <2>4. QED
    BY <1>1, <2>2, <2>3 DEF NewNonce, Error, BadNonce, OwedPC
<1>2. ASSUME NEW t \in Requests, NEW n \in Nonces, ConsumeSelect(t, n) PROVE Paid'
  <2>1. Owed' \subseteq Owed
    BY <1>2 DEF ConsumeSelect, Owed, OwedPC, TypeOK
  <2>2. QED
    BY <1>2, <2>1, OwesNoMore DEF ConsumeSelect, Minted
<1>3. ASSUME NEW t \in Requests, ConsumeDelete(t) PROVE Paid'
  <2>1. Owed' \subseteq Owed
    BY <1>3 DEF ConsumeDelete, At, Owed, OwedPC, TypeOK
  <2>2. Minted' = Minted
    BY <1>3 DEF ConsumeDelete, Minted, TypeOK
  <2>3. QED
    BY <1>3, <2>1, <2>2, OwesNoMore DEF ConsumeDelete
<1>4. ASSUME NEW t \in Requests, Succeed(t) PROVE Paid'
  <2>1. Owed' = Owed \cup {t}
    BY <1>4 DEF Succeed, At, Owed, OwedPC, TypeOK
  <2>2. granted' + succeeded' = granted + succeeded + 1
    BY <1>0, <1>4 DEF Succeed
  <2>3. QED
    BY <1>4, <2>1, <2>2, PaysThenOwed DEF Succeed, Minted
<1>5. ASSUME NEW t \in Requests, Mint(t) PROVE Paid'
  BY <1>5, MintSettles
<1>6. ASSUME NEW t \in Requests, RequestFails(t) PROVE Paid'
  <2>1. Owed' \subseteq Owed
    BY <1>6 DEF RequestFails, Finish, Idle, Owed, OwedPC, TypeOK
  <2>2. QED
    BY <1>6, <2>1, OwesNoMore DEF RequestFails, Minted
<1>7. ASSUME (\E n \in Nonces : PassTtl(n)) \/ Cleanup PROVE Paid'
  <2>1. Minted' = Minted
    BY <1>7 DEF PassTtl, Cleanup, Expired, Minted, TypeOK
  <2>2. Owed' = Owed /\ granted' = granted /\ succeeded' = succeeded
    BY <1>7 DEF PassTtl, Cleanup, Owed
  <2>3. QED
    BY <2>1, <2>2, OwesNoMore
<1>8. ASSUME Restart PROVE Paid'
  <2>1. Owed' \subseteq Owed
    BY <1>8 DEF Restart, Idle, Owed, OwedPC, TypeOK
  <2>2. QED
    BY <1>8, <2>1, OwesNoMore DEF Restart, Minted
<1>9. ASSUME UNCHANGED <<nonce, task, granted, succeeded>> PROVE Paid'
  BY <1>9, OwesNoMore DEF Minted, Owed
<1>10. QED
  BY <1>1, <1>2, <1>3, <1>4, <1>5, <1>6, <1>7, <1>8, <1>9 DEF Next, vars, Tick, Observe

\* MintsArePaidFor for any number of requests: no chain of failing requests
\* has more nonces minted than the bucket granted.
THEOREM NoncesArePaidFor == Spec => []MintsArePaidFor
<1>1. Init => Paid
  <2> SUFFICES ASSUME Init PROVE Paid
    OBVIOUS
  <2>1. Minted = {} /\ Owed = {}
    BY DEF Init, Minted, Owed, OwedPC, Idle
  <2>2. Cardinality({}) = 0
    BY FS_EmptySet
  <2>3. QED
    BY <2>1, <2>2 DEF Init, Paid
<1>2. TypeOK /\ Paid => MintsArePaidFor
  BY SizesNat DEF TypeOK, Paid, MintsArePaidFor
<1>3. QED
  BY <1>1, <1>2, NoncesTypeCorrect, StepPaid, PTL DEF Spec

=============================================================================
