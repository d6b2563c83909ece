------------------------------ MODULE Accounts ------------------------------
(***************************************************************************)
(* The account table: newAccount under its lifetime quota per EAB kid, key *)
(* rollover under its ceiling per kid, deactivation, and the allowlist of  *)
(* kids a process was started with.                                        *)
(*                                                                         *)
(* A step is one SQLite transaction or the synchronous code between two    *)
(* awaits.  The event loop of a process runs one request at a time from    *)
(* one await to the next; two processes on one store (a restart that       *)
(* overlaps) interleave between any two steps.  The account lock excludes  *)
(* enrollment workers (see Enrollment); here it is the await at which a    *)
(* mutation is overtaken.  A rolling window is the set of what is still in *)
(* it: rows leave it at any time.                                          *)
(***************************************************************************)
EXTENDS Naturals, FiniteSets

CONSTANTS
    Procs,            \* RA processes sharing the store
    Accounts,         \* account ids to draw from
    Keys,             \* account key thumbprints
    Kids,             \* external account credentials
    ShortKids,        \* those below the length floor
    Requests,         \* slots for concurrent requests
    Rows,             \* ids of account-key-changed audit rows; bounds the window
    None,
    MaxAccountsPerKid,
    KeyChangeLimit    \* rollovers per kid and window

ASSUME AccountsAssumption ==
    /\ IsFiniteSet(Accounts) /\ IsFiniteSet(Rows)
    /\ ShortKids \subseteq Kids
    /\ None \notin Procs \cup Accounts \cup Keys \cup Kids
    /\ MaxAccountsPerKid \in Nat \ {0}
    /\ KeyChangeLimit \in Nat \ {0}

VARIABLES
    account,    \* the accounts table
    changed,    \* account of each account-key-changed row inside the window
    allow,      \* eab_allowlist of each process, read at its start
    task        \* requests past their first await

vars == <<account, changed, allow, task>>

-----------------------------------------------------------------------------
Account == [status : {"none", "valid", "deactivated"},
            key : Keys \cup {None}, kid : Kids \cup {None}]

Unused == [status |-> "none", key |-> None, kid |-> None]

\* Synchronous code of a request: nothing else runs in its process.
BusyPC == {"create", "rotate", "deactivate"}

Idle == [pc |-> "idle", proc |-> None, acct |-> None,
         key |-> None, new |-> None, kid |-> None]

-----------------------------------------------------------------------------
Exists(a) == account[a].status # "none"

AccountsOf(k) == {a \in Accounts : Exists(a) /\ account[a].kid = k}

\* Fault: the floor is not applied.
AnyKids(A) == TRUE

\* assert_eab_kids_meet_floor: a short kid needs accounts from before.
MeetsFloor(A) == \A k \in A \cap ShortKids : AccountsOf(k) # {}

\* get_account_by_jwk, whatever the status of the account.
Registered(k) == \E a \in Accounts : Exists(a) /\ account[a].key = k

\* enforce_account_usable, with the allowlist of process p.
Usable(p, a) == account[a].status = "valid" /\ account[a].kid \in allow[p]

LoopFree(p) == ~ \E t \in Requests : task[t].proc = p /\ task[t].pc \in BusyPC

\* Fault: the index on the thumbprint is not unique.
NoIndex(k) == TRUE

\* The UNIQUE index on jwk_thumbprint, at the write.
UniqueKey(k) == ~Registered(k)

\* Fault: the quota counts live accounts only.
WithinLiveQuota(k) ==
    Cardinality({a \in AccountsOf(k) : account[a].status = "valid"}) < MaxAccountsPerKid

\* The lifetime quota, counted in the inserting transaction.
WithinQuota(k) == Cardinality(AccountsOf(k)) < MaxAccountsPerKid

RolloversOf(k) == {r \in Rows : changed[r] # None /\ account[changed[r]].kid = k}

\* Rollovers in the window by all the accounts of the kid.
WithinRolloverLimit(a) == Cardinality(RolloversOf(account[a].kid)) < KeyChangeLimit

\* A store left by an earlier release, within its limits.
Init ==
    /\ account \in [Accounts -> Account]
    /\ \A a \in Accounts : IF Exists(a) THEN account[a].key # None /\ account[a].kid # None
                                        ELSE account[a] = Unused
    /\ \A a, b \in Accounts : Exists(a) /\ account[a].key = account[b].key => a = b
    /\ \A k \in Kids : Cardinality(AccountsOf(k)) <= MaxAccountsPerKid
    /\ changed = [r \in Rows |-> None]
    /\ allow \in [Procs -> {A \in SUBSET Kids : MeetsFloor(A)}]
    /\ task = [t \in Requests |-> Idle]

Finish(t) == task' = [task EXCEPT ![t] = Idle]

-----------------------------------------------------------------------------
(* newAccount.                                                             *)

\* The key has no account, and the EAB verifies under a kid of the allowlist.
\* (An existing account is returned, and a bad binding denied, with no change.)
NewAccountLookup(t, p, k, d) ==
    /\ task[t].pc = "idle" /\ LoopFree(p)
    /\ ~Registered(k)
    /\ d \in allow[p]
    /\ task' = [task EXCEPT ![t] = [Idle EXCEPT !.pc = "create", !.proc = p,
                                                !.new = k, !.kid = d]]
    /\ UNCHANGED <<account, changed, allow>>

\* create_account_with_audit.
NewAccountCommit(t) ==
    /\ task[t].pc = "create"
    /\ WithinQuota(task[t].kid)
    /\ UniqueKey(task[t].new)
    /\ \E a \in Accounts :
         /\ ~Exists(a)
         /\ account' = [account EXCEPT ![a] = [status |-> "valid", key |-> task[t].new,
                                               kid |-> task[t].kid]]
    /\ Finish(t)
    /\ UNCHANGED <<changed, allow>>

\* EabAccountLimitExceeded or the UNIQUE index: answered with the account that
\* has the key by now, or denied.
NewAccountLoses(t) ==
    /\ task[t].pc = "create"
    /\ ~(WithinQuota(task[t].kid) /\ UniqueKey(task[t].new))
    /\ Finish(t)
    /\ UNCHANGED <<account, changed, allow>>

-----------------------------------------------------------------------------
(* keyChange.                                                              *)

\* Authentication, the inner JWS, and the advisory lookup of the new key.
KeyChangeVerify(t, p, a, k) ==
    /\ task[t].pc = "idle" /\ LoopFree(p)
    /\ Usable(p, a)
    /\ ~Registered(k)
    /\ task' = [task EXCEPT ![t] = [Idle EXCEPT !.pc = "rollover", !.proc = p, !.acct = a,
                                                !.key = account[a].key, !.new = k]]
    /\ UNCHANGED <<account, changed, allow>>

StillAuthorized(t) ==
    Usable(task[t].proc, task[t].acct) /\ account[task[t].acct].key = task[t].key

\* The lock is acquired and the account read again.
KeyChangeRecheck(t) ==
    /\ task[t].pc = "rollover" /\ LoopFree(task[t].proc)
    /\ task' = [task EXCEPT ![t] = IF StillAuthorized(t) THEN [@ EXCEPT !.pc = "rotate"]
                                                         ELSE Idle]
    /\ UNCHANGED <<account, changed, allow>>

\* Fault: the transaction trusts the route's reading of the account.
UpdatesAnyKey(t) == TRUE

\* The WHERE clause that ties the write to the key it was authorized with.
HoldsOldKey(t) ==
    account[task[t].acct].key = task[t].key /\ account[task[t].acct].status = "valid"

\* update_account_key_with_audit: the rotation and the row that is its count.
KeyChangeCommit(t) ==
    LET a == task[t].acct
    IN /\ task[t].pc = "rotate"
       /\ HoldsOldKey(t)
       /\ WithinRolloverLimit(a)
       /\ UniqueKey(task[t].new)
       /\ account' = [account EXCEPT ![a].key = task[t].new]
       /\ \E r \in Rows : changed[r] = None /\ changed' = [changed EXCEPT ![r] = a]
       /\ Finish(t)
       /\ UNCHANGED allow

\* AccountKeyStale, KeyChangeRateLimitExceeded or the UNIQUE index.
KeyChangeDenied(t) ==
    /\ task[t].pc = "rotate"
    /\ ~(HoldsOldKey(t) /\ WithinRolloverLimit(task[t].acct) /\ UniqueKey(task[t].new))
    /\ Finish(t)
    /\ UNCHANGED <<account, changed, allow>>

-----------------------------------------------------------------------------
(* Deactivation.                                                           *)

DeactivateVerify(t, p, a) ==
    /\ task[t].pc = "idle" /\ LoopFree(p)
    /\ Usable(p, a)
    /\ task' = [task EXCEPT ![t] = [Idle EXCEPT !.pc = "deactivation", !.proc = p,
                                                !.acct = a, !.key = account[a].key]]
    /\ UNCHANGED <<account, changed, allow>>

DeactivateRecheck(t) ==
    /\ task[t].pc = "deactivation" /\ LoopFree(task[t].proc)
    /\ task' = [task EXCEPT ![t] = IF StillAuthorized(t) THEN [@ EXCEPT !.pc = "deactivate"]
                                                         ELSE Idle]
    /\ UNCHANGED <<account, changed, allow>>

\* update_account_status compares the status only; the audit row is a commit
\* of its own.
DeactivateCommit(t) ==
    LET a == task[t].acct
    IN /\ task[t].pc = "deactivate"
       /\ account' = [account EXCEPT ![a].status = IF @ = "valid" THEN "deactivated" ELSE @]
       /\ Finish(t)
       /\ UNCHANGED <<changed, allow>>

-----------------------------------------------------------------------------
\* A store call raises: the transaction rolls back and the request ends.
RequestFails(t) ==
    /\ task[t].pc # "idle"
    /\ Finish(t)
    /\ UNCHANGED <<account, changed, allow>>

\* The process dies and starts again, perhaps with another allowlist.
Restart(p) ==
    /\ \E A \in SUBSET Kids : MeetsFloor(A) /\ allow' = [allow EXCEPT ![p] = A]
    /\ task' = [t \in Requests |-> IF task[t].proc = p THEN Idle ELSE task[t]]
    /\ UNCHANGED <<account, changed>>

\* A rollover leaves the window.
WindowMoves(r) ==
    /\ changed[r] # None
    /\ changed' = [changed EXCEPT ![r] = None]
    /\ UNCHANGED <<account, allow, task>>

Next ==
    \/ \E t \in Requests :
         \/ \E p \in Procs, k \in Keys, d \in Kids : NewAccountLookup(t, p, k, d)
         \/ NewAccountCommit(t) \/ NewAccountLoses(t)
         \/ \E p \in Procs, a \in Accounts, k \in Keys : KeyChangeVerify(t, p, a, k)
         \/ KeyChangeRecheck(t) \/ KeyChangeCommit(t) \/ KeyChangeDenied(t)
         \/ \E p \in Procs, a \in Accounts : DeactivateVerify(t, p, a)
         \/ DeactivateRecheck(t) \/ DeactivateCommit(t)
         \/ RequestFails(t)
    \/ \E p \in Procs : Restart(p)
    \/ \E r \in Rows : WindowMoves(r)

Spec == Init /\ [][Next]_vars

-----------------------------------------------------------------------------
(* Properties, with any number of processes.                               *)

\* A key names one account at most, although newAccount and keyChange look the
\* key up before the transaction that claims it, so that a signature never
\* answers for two accounts.
OneAccountPerKey ==
    \A a, b \in Accounts : Exists(a) /\ Exists(b) /\ account[a].key = account[b].key => a = b

\* However many requests pass the route together, a credential never has more
\* accounts than its lifetime quota, and its accounts together never more
\* rollovers in a window than its ceiling.
CeilingsHold ==
    \A k \in Kids : /\ Cardinality(AccountsOf(k)) <= MaxAccountsPerKid
                    /\ Cardinality(RolloversOf(k)) <= KeyChangeLimit

\* A key is replaced only by a request that it signed itself while the account
\* was valid: one overtaken by a rollover or a deactivation has no effect, and
\* a deactivated account is never touched again.
RolloverIsCurrent ==
    [][\A a \in Accounts :
         Exists(a) /\ account'[a] # account[a] =>
            /\ account[a].status = "valid"
            /\ account'[a].key # account[a].key =>
                 \E t \in Requests : /\ task[t].pc = "rotate" /\ task'[t].pc = "idle"
                                     /\ task[t].acct = a
                                     /\ task[t].key = account[a].key]_vars

\* A credential below the length floor is never introduced: the floor looks at
\* the store only when a process starts, and lets a short kid in only if it
\* had accounts then.
WeakKidNotIntroduced ==
    [][\A k \in ShortKids : AccountsOf(k) = {} => AccountsOf(k)' = {}]_vars

=============================================================================
