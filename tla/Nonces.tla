------------------------------- MODULE Nonces -------------------------------
(***************************************************************************)
(* Replay nonces: minted by newNonce and by the responses of ACME          *)
(* requests, spent by the next request, swept when old; and the token      *)
(* bucket that bounds what an unauthenticated peer can have minted.        *)
(*                                                                         *)
(* A step is one SQLite statement or the synchronous code around it, so    *)
(* any two requests may interleave between the SELECT and the DELETE of    *)
(* consume_nonce.  A nonce may pass its TTL whenever it is unspent.  The   *)
(* bucket counts in parts of a token, Scale to one, and the clock in ticks *)
(* of a monotonic clock.                                                   *)
(***************************************************************************)
EXTENDS Naturals, FiniteSets

CONSTANTS
    Nonces,         \* nonce values to draw from
    Requests,       \* slots for concurrent requests
    None,
    Capacity,       \* nonce_rate_limit_burst, in tokens
    Scale,          \* parts of a token
    Refill,         \* parts refilled per tick
    MaxTime,        \* bound on the clock
    MaxRestarts     \* bound on restarts

ASSUME NoncesAssumption ==
    /\ IsFiniteSet(Nonces) /\ IsFiniteSet(Requests)
    /\ None \notin Nonces
    /\ Capacity \in Nat \ {0} /\ Scale \in Nat \ {0} /\ Refill \in Nat \ {0}
    /\ MaxTime \in Nat /\ MaxRestarts \in Nat

VARIABLES
    nonce,      \* the nonces table: each value's row
    bucket,     \* tokens (in parts) and the time of the last refill
    now,
    task,       \* requests in progress
    restarts,
    \* history
    admitted,   \* how many requests each nonce has admitted
    granted,    \* takes of a token that succeeded
    succeeded,  \* requests answered with success
    window      \* a period under observation: its start, and takes granted in it

vars == <<nonce, bucket, now, task, restarts, admitted, granted, succeeded, window>>

-----------------------------------------------------------------------------
\* Which response is owed a nonce: newNonce, badNonce, an error, a success.
OwedPC == {"owedNew", "owedBad", "owedError", "owedSuccess"}
PC == {"idle", "delete", "admitted", "bad"} \cup OwedPC

Idle == [pc |-> "idle", nonce |-> None]

TypeOK ==
    /\ nonce \in [Nonces -> {"unused", "live", "expired", "gone"}]
    /\ bucket \in [tokens : 0..Capacity * Scale, updated : 0..MaxTime]
    /\ now \in 0..MaxTime
    /\ bucket.updated <= now
    /\ task \in [Requests -> [pc : PC, nonce : Nonces \cup {None}]]
    /\ restarts \in 0..MaxRestarts
    /\ admitted \in [Nonces -> Nat]
    /\ granted \in Nat /\ succeeded \in Nat
    /\ window \in [since : 0..MaxTime, taken : Nat] \cup {None}

Init ==
    /\ nonce = [n \in Nonces |-> "unused"]
    /\ bucket = [tokens |-> Capacity * Scale, updated |-> 0]
    /\ now = 0
    /\ task = [t \in Requests |-> Idle]
    /\ restarts = 0
    /\ admitted = [n \in Nonces |-> 0]
    /\ granted = 0 /\ succeeded = 0
    /\ window = None

-----------------------------------------------------------------------------
(* TokenBucket.take.                                                       *)

\* The parts in the bucket once the time since the last take is counted.
Refilled ==
    LET parts == bucket.tokens + (now - bucket.updated) * Refill
    IN IF parts < Capacity * Scale THEN parts ELSE Capacity * Scale

\* Fault: a refused take keeps the refill and not its time.
RefusesWithStaleClock ==
    /\ Refilled < Scale
    /\ bucket' = [bucket EXCEPT !.tokens = Refilled]
    /\ UNCHANGED <<granted, window>>

Take ==
    /\ Refilled >= Scale
    /\ bucket' = [tokens |-> Refilled - Scale, updated |-> now]
    /\ granted' = granted + 1
    /\ window' = IF window = None THEN None ELSE [window EXCEPT !.taken = @ + 1]

TakeRefused ==
    /\ Refilled < Scale
    /\ bucket' = [tokens |-> Refilled, updated |-> now]
    /\ UNCHANGED <<granted, window>>

-----------------------------------------------------------------------------
(* Requests.                                                               *)

Finish(t) == task' = [task EXCEPT ![t] = Idle]
At(t, pc) == task' = [task EXCEPT ![t].pc = pc]

\* newNonce, or the refusal rateLimited.
NewNonce(t) ==
    /\ task[t].pc = "idle"
    /\ \/ Take /\ At(t, "owedNew")
       \/ TakeRefused /\ UNCHANGED task
    /\ UNCHANGED <<nonce, now, restarts, admitted, succeeded>>

\* The SELECT of consume_nonce; a nonce that is unknown, spent or too old is
\* refused without a write.
ConsumeSelect(t, n) ==
    /\ task[t].pc = "idle"
    /\ task' = [task EXCEPT ![t] = [pc |-> IF nonce[n] = "live" THEN "delete" ELSE "bad",
                                    nonce |-> n]]
    /\ UNCHANGED <<nonce, bucket, now, restarts, admitted, granted, succeeded, window>>

\* Fault: the SELECT decides.
DeleteIgnoringCount(t) ==
    LET n == task[t].nonce
    IN /\ task[t].pc = "delete"
       /\ nonce' = [nonce EXCEPT ![n] = "gone"]
       /\ admitted' = [admitted EXCEPT ![n] = @ + 1]
       /\ At(t, "admitted")
       /\ UNCHANGED <<bucket, now, restarts, granted, succeeded, window>>

\* The DELETE with the cutoff of the SELECT; its row count decides.
ConsumeDelete(t) ==
    LET n == task[t].nonce
    IN /\ task[t].pc = "delete"
       /\ IF nonce[n] \in {"live", "expired"}
            THEN /\ nonce' = [nonce EXCEPT ![n] = "gone"]
                 /\ admitted' = [admitted EXCEPT ![n] = @ + 1]
                 /\ At(t, "admitted")
            ELSE /\ At(t, "bad")
                 /\ UNCHANGED <<nonce, admitted>>
       /\ UNCHANGED <<bucket, now, restarts, granted, succeeded, window>>

\* The request verifies and its handler succeeds: a nonce for a nonce.
Succeed(t) ==
    /\ task[t].pc = "admitted"
    /\ succeeded' = succeeded + 1
    /\ At(t, "owedSuccess")
    /\ UNCHANGED <<nonce, bucket, now, restarts, admitted, granted, window>>

\* Fault: an error response gets its nonce for free, too.
ErrorUnbucketed(t) ==
    /\ task[t].pc = "admitted"
    /\ At(t, "owedError")
    /\ UNCHANGED <<nonce, bucket, now, restarts, admitted, granted, succeeded, window>>

\* A bad URL or signature, or an error of the handler: the nonce is paid for
\* with a token, or left out of the response.
Error(t) ==
    /\ task[t].pc = "admitted"
    /\ \/ Take /\ At(t, "owedError")
       \/ TakeRefused /\ Finish(t)
    /\ UNCHANGED <<nonce, now, restarts, admitted, succeeded>>

\* badNonce: with a nonce, or answered as rateLimited.
BadNonce(t) ==
    /\ task[t].pc = "bad"
    /\ \/ Take /\ At(t, "owedBad")
       \/ TakeRefused /\ Finish(t)
    /\ UNCHANGED <<nonce, now, restarts, admitted, succeeded>>

Expired == {n \in Nonces : nonce[n] = "expired"}

\* create_nonce, which now and then deletes what has expired.
Mint(t) ==
    /\ task[t].pc \in OwedPC
    /\ \E n \in Nonces, G \in {{}, Expired} :
         /\ nonce[n] = "unused"
         /\ nonce' = [m \in Nonces |-> CASE m = n -> "live"
                                         [] m \in G -> "gone"
                                         [] OTHER -> nonce[m]]
    /\ Finish(t)
    /\ UNCHANGED <<bucket, now, restarts, admitted, granted, succeeded, window>>

\* The mint, the handler or the SELECT raises: the response has no nonce.
RequestFails(t) ==
    /\ task[t].pc # "idle"
    /\ Finish(t)
    /\ UNCHANGED <<nonce, bucket, now, restarts, admitted, granted, succeeded, window>>

-----------------------------------------------------------------------------
(* Time, the sweep, and restarts.                                          *)

PassTtl(n) ==
    /\ nonce[n] = "live"
    /\ nonce' = [nonce EXCEPT ![n] = "expired"]
    /\ UNCHANGED <<bucket, now, task, restarts, admitted, granted, succeeded, window>>

\* cleanup_expired_nonces.
Cleanup ==
    /\ Expired # {}
    /\ nonce' = [n \in Nonces |-> IF n \in Expired THEN "gone" ELSE nonce[n]]
    /\ UNCHANGED <<bucket, now, task, restarts, admitted, granted, succeeded, window>>

Tick ==
    /\ now < MaxTime
    /\ now' = now + 1
    /\ UNCHANGED <<nonce, bucket, task, restarts, admitted, granted, succeeded, window>>

\* Observation of a period starts.
Observe ==
    /\ window = None
    /\ window' = [since |-> now, taken |-> 0]
    /\ UNCHANGED <<nonce, bucket, now, task, restarts, admitted, granted, succeeded>>

\* The new process has a full bucket.
Restart ==
    /\ restarts < MaxRestarts
    /\ restarts' = restarts + 1
    /\ task' = [t \in Requests |-> Idle]
    /\ bucket' = [tokens |-> Capacity * Scale, updated |-> now]
    /\ window' = None
    /\ UNCHANGED <<nonce, now, admitted, granted, succeeded>>

Next ==
    \/ \E t \in Requests :
         \/ NewNonce(t) \/ ConsumeDelete(t) \/ Succeed(t) \/ Error(t) \/ BadNonce(t)
         \/ Mint(t) \/ RequestFails(t)
         \/ \E n \in Nonces : ConsumeSelect(t, n)
    \/ \E n \in Nonces : PassTtl(n)
    \/ Cleanup \/ Tick \/ Observe \/ Restart

Spec == Init /\ [][Next]_vars

-----------------------------------------------------------------------------
(* Properties.                                                             *)

\* A nonce admits one request, although any number of concurrent requests may
\* have found it in the table, and it may expire or be swept meanwhile.
AdmitsOnce == \A n \in Nonces : admitted[n] <= 1

Minted == {n \in Nonces : nonce[n] # "unused"}

\* Every nonce is paid for, by a token or by an authenticated request that
\* spent one: no chain of failing requests has nonces minted past the bucket.
MintsArePaidFor == Cardinality(Minted) <= granted + succeeded

\* In any period of one process the bucket grants no more than its burst and
\* what the period refills, however takes, refusals and pauses are spread.
RateHolds ==
    window # None => window.taken * Scale <= Capacity * Scale + (now - window.since) * Refill

=============================================================================
