--------------------------- MODULE AccountsProofs ---------------------------
(* The account table, for any number of processes, accounts, credentials   *)
(* and concurrent requests.  Every check that a route makes before its     *)
(* transaction may be stale when it commits; the proofs use only what the  *)
(* transaction itself compares, and that an account, once made, keeps its  *)
(* credential.                                                             *)
EXTENDS Accounts, FiniteSetTheorems, TLAPS

Task == [pc : {"idle", "create", "rollover", "rotate", "deactivation", "deactivate"},
         proc : Procs \cup {None}, acct : Accounts \cup {None},
         key : Keys \cup {None}, new : Keys \cup {None}, kid : Kids \cup {None}]

AccountOK ==
    /\ account \in [Accounts -> Account]
    /\ \A a \in Accounts : Exists(a) => account[a].key \in Keys /\ account[a].kid \in Kids

\* A rollover on record is one of an account that exists.
ChangedOK ==
    /\ changed \in [Rows -> Accounts \cup {None}]
    /\ \A r \in Rows : changed[r] # None => Exists(changed[r])

TaskOK ==
    /\ task \in [Requests -> Task]
    /\ \A t \in Requests :
         /\ task[t].pc = "create" => task[t].new \in Keys /\ task[t].kid \in Kids
         /\ task[t].pc \in {"rollover", "rotate"} => task[t].acct \in Accounts /\ task[t].new \in Keys
         /\ task[t].pc \in {"deactivation", "deactivate"} => task[t].acct \in Accounts

TypeInv ==
    /\ AccountOK /\ ChangedOK /\ TaskOK
    /\ allow \in [Procs -> SUBSET Kids]

-----------------------------------------------------------------------------
(* Types.                                                                  *)

LEMMA IdleIsTask == Idle \in Task /\ Idle.pc = "idle"
BY DEF Idle, Task

\* A request that ends leaves the other slots alone.
LEMMA TaskFinishes ==
    ASSUME TaskOK, NEW t \in Requests, Finish(t)
    PROVE  /\ TaskOK' /\ task'[t].pc = "idle"
           /\ \A u \in Requests : u # t => task'[u] = task[u]
<1>1. /\ task' \in [Requests -> Task] /\ task'[t].pc = "idle"
      /\ \A u \in Requests : u # t => task'[u] = task[u]
  BY IdleIsTask DEF TaskOK, Finish
<1>2. QED
  BY <1>1 DEF TaskOK

\* A request that goes on carries what its next step needs.
LEMMA TaskMoves ==
    ASSUME TaskOK, NEW t \in Requests, NEW v \in Task, task' = [task EXCEPT ![t] = v],
           v.pc = "create" => v.new \in Keys /\ v.kid \in Kids,
           v.pc \in {"rollover", "rotate"} => v.acct \in Accounts /\ v.new \in Keys,
           v.pc \in {"deactivation", "deactivate"} => v.acct \in Accounts
    PROVE  /\ TaskOK' /\ task'[t] = v
           /\ \A u \in Requests : u # t => task'[u] = task[u]
BY DEF TaskOK

\* Accounts are made, rolled over and deactivated, and never lost: what one
\* step may do to the account table.
AccountMoves ==
    \/ account' = account
    \/ \E t \in Requests, a \in Accounts :
         /\ NewAccountCommit(t) /\ ~Exists(a)
         /\ account' = [account EXCEPT ![a] = [status |-> "valid", key |-> task[t].new,
                                               kid |-> task[t].kid]]
    \/ \E t \in Requests : KeyChangeCommit(t)
    \/ \E t \in Requests : DeactivateCommit(t)

LEMMA StepsOfAccount == [Next]_vars => AccountMoves
BY DEF Next, vars, AccountMoves, NewAccountLookup, NewAccountCommit, NewAccountLoses,
   KeyChangeVerify, KeyChangeRecheck, KeyChangeDenied, DeactivateVerify, DeactivateRecheck,
   RequestFails, Restart, WindowMoves

\* An account that exists keeps its credential, and a new one is all there is
\* to a step that makes one.
LEMMA AccountWrites ==
    ASSUME TypeInv, AccountMoves
    PROVE  /\ AccountOK'
           /\ \A a \in Accounts : Exists(a) => Exists(a)' /\ account'[a].kid = account[a].kid
<1>0. AccountOK /\ TaskOK
  BY DEF TypeInv
<1>1. ASSUME NEW t \in Requests, NEW a \in Accounts, NewAccountCommit(t), ~Exists(a),
             account' = [account EXCEPT ![a] = [status |-> "valid", key |-> task[t].new,
                                                kid |-> task[t].kid]]
      PROVE  /\ AccountOK'
             /\ \A b \in Accounts : Exists(b) => Exists(b)' /\ account'[b].kid = account[b].kid
  <2>1. task[t].new \in Keys /\ task[t].kid \in Kids
    BY <1>0, <1>1 DEF NewAccountCommit, TaskOK
  <2> DEFINE v == [status |-> "valid", key |-> task[t].new, kid |-> task[t].kid]
  <2>2. v \in Account /\ v.key \in Keys /\ v.kid \in Kids /\ v.status # "none"
    BY <2>1 DEF Account
  <2>3. account' = [account EXCEPT ![a] = v]
    BY <1>1
  <2> HIDE DEF v
  <2>4. QED
    BY <1>0, <1>1, <2>2, <2>3 DEF AccountOK, Exists
<1>2. ASSUME NEW t \in Requests, KeyChangeCommit(t)
      PROVE  /\ AccountOK'
             /\ \A b \in Accounts : Exists(b) => Exists(b)' /\ account'[b].kid = account[b].kid
  <2>1. task[t].acct \in Accounts /\ task[t].new \in Keys
    BY <1>0, <1>2 DEF KeyChangeCommit, TaskOK
  <2>2. account' = [account EXCEPT ![task[t].acct].key = task[t].new]
    BY <1>2 DEF KeyChangeCommit
  <2>3. QED
    BY <1>0, <2>1, <2>2 DEF AccountOK, Account, Exists
<1>3. ASSUME NEW t \in Requests, DeactivateCommit(t)
      PROVE  /\ AccountOK'
             /\ \A b \in Accounts : Exists(b) => Exists(b)' /\ account'[b].kid = account[b].kid
  <2>1. task[t].acct \in Accounts
    BY <1>0, <1>3 DEF DeactivateCommit, TaskOK
  <2>2. account' = [account EXCEPT ![task[t].acct].status = IF @ = "valid" THEN "deactivated" ELSE @]
    BY <1>3 DEF DeactivateCommit
  <2>3. QED
    BY <1>0, <2>1, <2>2 DEF AccountOK, Account, Exists
<1>4. CASE account' = account
  BY <1>0, <1>4 DEF AccountOK, Exists
<1>5. QED
  BY <1>1, <1>2, <1>3, <1>4 DEF AccountMoves

\* Every step of every process keeps the types.
LEMMA TypeInvNext == TypeInv /\ [Next]_vars => TypeInv'
<1> SUFFICES ASSUME TypeInv, [Next]_vars PROVE TypeInv'
  OBVIOUS
<1>0. /\ AccountOK /\ ChangedOK /\ TaskOK /\ allow \in [Procs -> SUBSET Kids]
      /\ AccountOK'
      /\ \A a \in Accounts : Exists(a) => Exists(a)'
  BY StepsOfAccount, AccountWrites DEF TypeInv
<1>1. allow' \in [Procs -> SUBSET Kids]
  BY <1>0 DEF Next, vars, NewAccountLookup, NewAccountCommit, NewAccountLoses, KeyChangeVerify,
     KeyChangeRecheck, KeyChangeCommit, KeyChangeDenied, DeactivateVerify, DeactivateRecheck,
     DeactivateCommit, RequestFails, Restart, WindowMoves
<1>2. ChangedOK'
  <2>1. CASE changed' = changed
    BY <1>0, <2>1, AccountsAssumption DEF ChangedOK
  <2>2. ASSUME NEW r \in Rows, WindowMoves(r) PROVE ChangedOK'
    BY <1>0, <2>2, AccountsAssumption DEF ChangedOK, WindowMoves, Exists
  <2>3. ASSUME NEW t \in Requests, KeyChangeCommit(t) PROVE ChangedOK'
    <3>1. task[t].acct \in Accounts /\ Exists(task[t].acct)
      BY <1>0, <2>3 DEF KeyChangeCommit, HoldsOldKey, TaskOK, Exists
    <3>2. PICK r \in Rows : changed' = [changed EXCEPT ![r] = task[t].acct]
      BY <2>3 DEF KeyChangeCommit
    <3>3. QED
      BY <1>0, <3>1, <3>2 DEF ChangedOK
  <2>4. QED
    BY <2>1, <2>2, <2>3 DEF Next, vars, NewAccountLookup, NewAccountCommit, NewAccountLoses,
       KeyChangeVerify, KeyChangeRecheck, KeyChangeDenied, DeactivateVerify, DeactivateRecheck,
       DeactivateCommit, RequestFails, Restart
<1>3. TaskOK'
  <2>1. ASSUME NEW t \in Requests,
               \/ NewAccountCommit(t) \/ NewAccountLoses(t) \/ KeyChangeCommit(t)
               \/ KeyChangeDenied(t) \/ DeactivateCommit(t) \/ RequestFails(t)
        PROVE  TaskOK'
    BY <1>0, <2>1, TaskFinishes DEF NewAccountCommit, NewAccountLoses, KeyChangeCommit,
       KeyChangeDenied, DeactivateCommit, RequestFails
  <2>2. ASSUME NEW t \in Requests, NEW p \in Procs, NEW k \in Keys, NEW d \in Kids,
               NewAccountLookup(t, p, k, d)
        PROVE  TaskOK'
    <3> DEFINE v == [Idle EXCEPT !.pc = "create", !.proc = p, !.new = k, !.kid = d]
    <3>1. v \in Task /\ v.pc = "create" /\ v.new = k /\ v.kid = d
      BY DEF Idle, Task
    <3>2. task' = [task EXCEPT ![t] = v]
      BY <2>2 DEF NewAccountLookup
    <3> HIDE DEF v
    <3>3. QED
      BY <1>0, <3>1, <3>2, TaskMoves
  <2>3. ASSUME NEW t \in Requests, NEW p \in Procs, NEW a \in Accounts, NEW k \in Keys,
               KeyChangeVerify(t, p, a, k)
        PROVE  TaskOK'
    <3> DEFINE v == [Idle EXCEPT !.pc = "rollover", !.proc = p, !.acct = a,
                                 !.key = account[a].key, !.new = k]
    <3>1. account[a].key \in Keys
      BY <1>0, <2>3 DEF KeyChangeVerify, Usable, AccountOK, Exists
    <3>2. v \in Task /\ v.pc = "rollover" /\ v.acct = a /\ v.new = k
      BY <3>1 DEF Idle, Task
    <3>3. task' = [task EXCEPT ![t] = v]
      BY <2>3 DEF KeyChangeVerify
    <3> HIDE DEF v
    <3>4. QED
      BY <1>0, <3>2, <3>3, TaskMoves
  <2>4. ASSUME NEW t \in Requests, NEW p \in Procs, NEW a \in Accounts, DeactivateVerify(t, p, a)
        PROVE  TaskOK'
    <3> DEFINE v == [Idle EXCEPT !.pc = "deactivation", !.proc = p, !.acct = a,
                                 !.key = account[a].key]
    <3>1. account[a].key \in Keys
      BY <1>0, <2>4 DEF DeactivateVerify, Usable, AccountOK, Exists
    <3>2. v \in Task /\ v.pc = "deactivation" /\ v.acct = a
      BY <3>1 DEF Idle, Task
    <3>3. task' = [task EXCEPT ![t] = v]
      BY <2>4 DEF DeactivateVerify
    <3> HIDE DEF v
    <3>4. QED
      BY <1>0, <3>2, <3>3, TaskMoves
  <2>5. ASSUME NEW t \in Requests, KeyChangeRecheck(t) PROVE TaskOK'
    <3> DEFINE v == [task[t] EXCEPT !.pc = "rotate"]
    <3>1. /\ v \in Task /\ v.pc = "rotate" /\ v.acct = task[t].acct /\ v.new = task[t].new
          /\ task[t].acct \in Accounts /\ task[t].new \in Keys
      BY <1>0, <2>5 DEF KeyChangeRecheck, TaskOK, Task
    <3>2. task' = [task EXCEPT ![t] = v] \/ Finish(t)
      BY <2>5 DEF KeyChangeRecheck, Finish
    <3> HIDE DEF v
    <3>3. QED
      BY <1>0, <3>1, <3>2, TaskMoves, TaskFinishes
  <2>6. ASSUME NEW t \in Requests, DeactivateRecheck(t) PROVE TaskOK'
    <3> DEFINE v == [task[t] EXCEPT !.pc = "deactivate"]
    <3>1. v \in Task /\ v.pc = "deactivate" /\ v.acct = task[t].acct /\ task[t].acct \in Accounts
      BY <1>0, <2>6 DEF DeactivateRecheck, TaskOK, Task
    <3>2. task' = [task EXCEPT ![t] = v] \/ Finish(t)
      BY <2>6 DEF DeactivateRecheck, Finish
    <3> HIDE DEF v
    <3>3. QED
      BY <1>0, <3>1, <3>2, TaskMoves, TaskFinishes
  <2>7. ASSUME NEW p \in Procs, Restart(p) PROVE TaskOK'
    BY <1>0, <2>7, IdleIsTask DEF Restart, TaskOK
  <2>8. CASE task' = task
    BY <1>0, <2>8 DEF TaskOK
  <2>9. QED
    BY <2>1, <2>2, <2>3, <2>4, <2>5, <2>6, <2>7, <2>8 DEF Next, vars, WindowMoves
<1>4. QED
  BY <1>0, <1>1, <1>2, <1>3 DEF TypeInv

\* The type invariant holds in every reachable state.
LEMMA TypeInvariant == Spec => []TypeInv
<1>1. Init => TypeInv
  <2> SUFFICES ASSUME Init PROVE TypeInv
    OBVIOUS
  <2>1. AccountOK
    BY DEF Init, AccountOK, Account
  <2>2. ChangedOK /\ allow \in [Procs -> SUBSET Kids]
    BY DEF Init, ChangedOK
  <2>3. TaskOK
    BY IdleIsTask DEF Init, TaskOK
  <2>4. QED
    BY <2>1, <2>2, <2>3 DEF TypeInv
<1>2. QED
  BY <1>1, TypeInvNext, PTL DEF Spec

-----------------------------------------------------------------------------
(* One account per key.                                                    *)

\* A key names at most one account, although newAccount and keyChange look it
\* up long before they claim it and any number of processes race: the UNIQUE
\* index, compared in the claiming transaction, is what decides.
THEOREM KeysNameOneAccount == Spec => []OneAccountPerKey
<1>1. Init => OneAccountPerKey
  BY DEF Init, OneAccountPerKey
<1>2. TypeInv /\ OneAccountPerKey /\ [Next]_vars => OneAccountPerKey'
  <2> SUFFICES ASSUME TypeInv, OneAccountPerKey, AccountMoves PROVE OneAccountPerKey'
    BY StepsOfAccount
  <2>0. AccountOK /\ TaskOK
    BY DEF TypeInv
  <2>1. ASSUME NEW a \in Accounts, NEW k,
               \A b \in Accounts : Exists(b) => account[b].key # k,
               account'[a].key = k,
               \A b \in Accounts : b # a => account'[b] = account[b]
        PROVE  OneAccountPerKey'
    BY <2>1 DEF OneAccountPerKey, Exists
  <2>2. ASSUME NEW t \in Requests, NEW a \in Accounts, NewAccountCommit(t),
               account' = [account EXCEPT ![a] = [status |-> "valid", key |-> task[t].new,
                                                  kid |-> task[t].kid]]
        PROVE  OneAccountPerKey'
    <3>1. \A b \in Accounts : Exists(b) => account[b].key # task[t].new
      BY <2>2 DEF NewAccountCommit, UniqueKey, Registered
    <3>2. /\ account'[a].key = task[t].new
          /\ \A b \in Accounts : b # a => account'[b] = account[b]
      BY <2>0, <2>2 DEF AccountOK
    <3>3. QED
      BY <2>1, <3>1, <3>2
  <2>3. ASSUME NEW t \in Requests, KeyChangeCommit(t) PROVE OneAccountPerKey'
    <3>1. /\ task[t].acct \in Accounts
          /\ \A b \in Accounts : Exists(b) => account[b].key # task[t].new
      BY <2>0, <2>3 DEF KeyChangeCommit, TaskOK, UniqueKey, Registered
    <3>2. /\ account'[task[t].acct].key = task[t].new
          /\ \A b \in Accounts : b # task[t].acct => account'[b] = account[b]
      BY <2>0, <2>3, <3>1 DEF KeyChangeCommit, AccountOK, Account
    <3>3. QED
      BY <2>1, <3>1, <3>2
  <2>4. ASSUME NEW t \in Requests, DeactivateCommit(t) PROVE OneAccountPerKey'
    <3>1. \A b \in Accounts : account'[b].key = account[b].key /\ (Exists(b)' => Exists(b))
      BY <2>0, <2>4 DEF DeactivateCommit, TaskOK, AccountOK, Account, Exists
    <3>2. QED
      BY <3>1 DEF OneAccountPerKey
  <2>5. CASE account' = account
    BY <2>5 DEF OneAccountPerKey, Exists
  <2>6. QED
    BY <2>2, <2>3, <2>4, <2>5 DEF AccountMoves
<1>3. QED
  BY <1>1, <1>2, TypeInvariant, PTL DEF Spec

-----------------------------------------------------------------------------
(* The ceilings.                                                           *)

\* A set that gains at most one element, and none when it is full, stays
\* within its ceiling.
LEMMA CountsUp ==
    ASSUME NEW S, NEW T, NEW x, NEW max \in Nat, IsFiniteSet(S), T \subseteq S \cup {x},
           Cardinality(S) <= max, T \subseteq S \/ Cardinality(S) < max
    PROVE  Cardinality(T) <= max
<1>1. Cardinality(S) \in Nat
  BY FS_CardinalityType
<1>2. CASE T \subseteq S
  <2>1. Cardinality(T) <= Cardinality(S) /\ Cardinality(T) \in Nat
    BY <1>2, FS_Subset, FS_CardinalityType
  <2>2. QED
    BY <1>1, <2>1
<1>3. CASE Cardinality(S) < max
  <2>1. /\ IsFiniteSet(S \cup {x}) /\ Cardinality(S \cup {x}) \in Nat
        /\ Cardinality(S \cup {x}) <= Cardinality(S) + 1
    <3>1. /\ IsFiniteSet(S \cup {x})
          /\ Cardinality(S \cup {x}) \in {Cardinality(S), Cardinality(S) + 1}
      BY FS_AddElement
    <3>2. QED
      BY <1>1, <3>1
  <2>2. Cardinality(T) <= Cardinality(S \cup {x}) /\ Cardinality(T) \in Nat
    BY <2>1, FS_Subset, FS_CardinalityType
  <2>3. QED
    BY <1>1, <1>3, <2>1, <2>2
<1>4. QED
  BY <1>2, <1>3

LEMMA FiniteTables ==
    /\ \A k : IsFiniteSet(AccountsOf(k)) /\ IsFiniteSet(RolloversOf(k))
    /\ MaxAccountsPerKid \in Nat /\ KeyChangeLimit \in Nat
<1>1. ASSUME NEW k PROVE AccountsOf(k) \in SUBSET Accounts /\ RolloversOf(k) \in SUBSET Rows
  BY DEF AccountsOf, RolloversOf
<1>2. QED
  BY <1>1, FS_Subset, AccountsAssumption

\* However many requests of however many processes pass the route together, a
\* credential has no more accounts than its lifetime quota and no more
\* rollovers in a window than its ceiling: both are counted in the transaction
\* that adds to them, and no row ever moves to another credential.
THEOREM CredentialCeilingsAreKept == Spec => []CeilingsHold
<1>1. Init => CeilingsHold
  <2> SUFFICES ASSUME Init, NEW k \in Kids PROVE Cardinality(RolloversOf(k)) <= KeyChangeLimit
    BY DEF Init, CeilingsHold
  <2>1. RolloversOf(k) = {}
    BY DEF Init, RolloversOf
  <2>2. QED
    BY <2>1, FS_EmptySet, AccountsAssumption
<1>2. TypeInv /\ CeilingsHold /\ [Next]_vars => CeilingsHold'
  <2> SUFFICES ASSUME TypeInv, CeilingsHold, [Next]_vars, NEW k \in Kids
               PROVE  /\ Cardinality(AccountsOf(k)') <= MaxAccountsPerKid
                      /\ Cardinality(RolloversOf(k)') <= KeyChangeLimit
    BY DEF CeilingsHold
  <2>0. /\ AccountOK /\ ChangedOK /\ TaskOK
        /\ \A a \in Accounts : Exists(a) => Exists(a)' /\ account'[a].kid = account[a].kid
        /\ AccountMoves
    BY StepsOfAccount, AccountWrites DEF TypeInv
  <2>1. Cardinality(AccountsOf(k)) <= MaxAccountsPerKid /\ Cardinality(RolloversOf(k)) <= KeyChangeLimit
    BY DEF CeilingsHold
  <2>2. \E x : /\ AccountsOf(k)' \subseteq AccountsOf(k) \cup {x}
               /\ \/ AccountsOf(k)' \subseteq AccountsOf(k)
                  \/ Cardinality(AccountsOf(k)) < MaxAccountsPerKid
    <3>1. ASSUME NEW t \in Requests, NEW a \in Accounts, NewAccountCommit(t), ~Exists(a),
                 account' = [account EXCEPT ![a] = [status |-> "valid", key |-> task[t].new,
                                                    kid |-> task[t].kid]]
          PROVE  /\ AccountsOf(k)' \subseteq AccountsOf(k) \cup {a}
                 /\ \/ AccountsOf(k)' \subseteq AccountsOf(k)
                    \/ Cardinality(AccountsOf(k)) < MaxAccountsPerKid
      <4>1. /\ account'[a].kid = task[t].kid
            /\ \A b \in Accounts : b # a => account'[b] = account[b]
        BY <2>0, <3>1 DEF AccountOK
      <4>2. AccountsOf(k)' \subseteq AccountsOf(k) \cup {a}
        BY <4>1 DEF AccountsOf, Exists
      <4>3. CASE task[t].kid = k
        BY <3>1, <4>2, <4>3 DEF NewAccountCommit, WithinQuota
      <4>4. CASE task[t].kid # k
        BY <4>1, <4>2, <4>4 DEF AccountsOf, Exists
      <4>5. QED
        BY <4>2, <4>3, <4>4
    <3>2. ASSUME NEW t \in Requests, KeyChangeCommit(t) PROVE AccountsOf(k)' \subseteq AccountsOf(k)
      <4>1. task[t].acct \in Accounts /\ account' = [account EXCEPT ![task[t].acct].key = task[t].new]
        BY <2>0, <3>2 DEF KeyChangeCommit, TaskOK
      <4>2. QED
        BY <2>0, <4>1 DEF AccountOK, Account, AccountsOf, Exists
    <3>3. ASSUME NEW t \in Requests, DeactivateCommit(t) PROVE AccountsOf(k)' \subseteq AccountsOf(k)
      BY <2>0, <3>3 DEF DeactivateCommit, TaskOK, AccountOK, Account, AccountsOf, Exists
    <3>4. CASE account' = account
      BY <3>4 DEF AccountsOf, Exists
    <3>5. QED
      BY <2>0, <3>1, <3>2, <3>3, <3>4 DEF AccountMoves
  <2>3. \E x : /\ RolloversOf(k)' \subseteq RolloversOf(k) \cup {x}
               /\ \/ RolloversOf(k)' \subseteq RolloversOf(k)
                  \/ Cardinality(RolloversOf(k)) < KeyChangeLimit
    <3>1. ASSUME \A r \in Rows : changed'[r] \in {changed[r], None}
          PROVE  RolloversOf(k)' \subseteq RolloversOf(k)
      BY <2>0, <3>1 DEF ChangedOK, RolloversOf
    <3>2. ASSUME NEW t \in Requests, KeyChangeCommit(t)
          PROVE  \E x : /\ RolloversOf(k)' \subseteq RolloversOf(k) \cup {x}
                        /\ \/ RolloversOf(k)' \subseteq RolloversOf(k)
                           \/ Cardinality(RolloversOf(k)) < KeyChangeLimit
      <4> DEFINE a == task[t].acct
      <4>1. a \in Accounts /\ Exists(a) /\ Cardinality(RolloversOf(account[a].kid)) < KeyChangeLimit
        BY <2>0, <3>2 DEF KeyChangeCommit, HoldsOldKey, WithinRolloverLimit, TaskOK, Exists
      <4>2. PICK r \in Rows : changed' = [changed EXCEPT ![r] = a]
        BY <3>2 DEF KeyChangeCommit
      <4>3. changed'[r] = a /\ \A s \in Rows : s # r => changed'[s] = changed[s]
        BY <2>0, <4>2 DEF ChangedOK
      <4>4. account'[a].kid = account[a].kid
        BY <2>0, <4>1
      <4> HIDE DEF a
      <4>5. RolloversOf(k)' \subseteq RolloversOf(k) \cup {r}
        BY <2>0, <4>3 DEF ChangedOK, RolloversOf
      <4>6. CASE account[a].kid = k
        BY <4>1, <4>5, <4>6
      <4>7. CASE account[a].kid # k
        <5>1. r \notin RolloversOf(k)'
          BY <4>3, <4>4, <4>7 DEF RolloversOf
        <5>2. QED
          BY <4>5, <5>1
      <4>8. QED
        BY <4>6, <4>7
    <3>3. ASSUME NEW r \in Rows, WindowMoves(r) PROVE \A s \in Rows : changed'[s] \in {changed[s], None}
      BY <2>0, <3>3 DEF WindowMoves, ChangedOK
    <3>4. CASE changed' = changed
      BY <3>1, <3>4
    <3>5. QED
      BY <3>1, <3>2, <3>3, <3>4 DEF Next, vars, NewAccountLookup, NewAccountCommit,
         NewAccountLoses, KeyChangeVerify, KeyChangeRecheck, KeyChangeDenied, DeactivateVerify,
         DeactivateRecheck, DeactivateCommit, RequestFails, Restart
  <2>4. QED
    BY <2>1, <2>2, <2>3, FiniteTables, CountsUp
<1>3. QED
  BY <1>1, <1>2, TypeInvariant, PTL DEF Spec

-----------------------------------------------------------------------------
(* Stale requests, and the length floor.                                   *)

\* An account is written only while it is valid, and its key only for a
\* request that the key itself signed: a keyChange or deactivation overtaken
\* by another, in this process or a second one, has no effect.
THEOREM RolloversAreCurrent == Spec => RolloverIsCurrent
<1> DEFINE Current ==
      \A a \in Accounts :
         Exists(a) /\ account'[a] # account[a] =>
            /\ account[a].status = "valid"
            /\ account'[a].key # account[a].key =>
                 \E t \in Requests : /\ task[t].pc = "rotate" /\ task'[t].pc = "idle"
                                     /\ task[t].acct = a
                                     /\ task[t].key = account[a].key
<1>1. ASSUME TypeInv, Next PROVE Current
  <2> SUFFICES ASSUME NEW a \in Accounts, Exists(a), account'[a] # account[a]
               PROVE  /\ account[a].status = "valid"
                      /\ account'[a].key # account[a].key =>
                           \E t \in Requests : /\ task[t].pc = "rotate" /\ task'[t].pc = "idle"
                                               /\ task[t].acct = a
                                               /\ task[t].key = account[a].key
    OBVIOUS
  <2>0. AccountOK /\ TaskOK /\ AccountMoves
    BY <1>1, StepsOfAccount DEF TypeInv
  <2>1. ASSUME NEW t \in Requests, NEW b \in Accounts, ~Exists(b),
               account' = [account EXCEPT ![b] = [status |-> "valid", key |-> task[t].new,
                                                  kid |-> task[t].kid]]
        PROVE  FALSE
    BY <2>0, <2>1 DEF AccountOK
  <2>2. ASSUME NEW t \in Requests, KeyChangeCommit(t)
        PROVE  /\ account[a].status = "valid" /\ task[t].pc = "rotate" /\ task'[t].pc = "idle"
               /\ task[t].acct = a /\ task[t].key = account[a].key
    <3>1. a = task[t].acct
      BY <2>0, <2>2 DEF KeyChangeCommit, AccountOK
    <3>2. QED
      BY <2>0, <2>2, <3>1, TaskFinishes DEF KeyChangeCommit, HoldsOldKey
  <2>3. ASSUME NEW t \in Requests, DeactivateCommit(t)
        PROVE  account[a].status = "valid" /\ account'[a].key = account[a].key
    <3>1. account' = [account EXCEPT ![task[t].acct].status = IF @ = "valid" THEN "deactivated" ELSE @]
      BY <2>3 DEF DeactivateCommit
    <3>2. account[a] \in Account
      BY <2>0 DEF AccountOK
    <3>3. QED
      BY <2>0, <3>1, <3>2 DEF AccountOK, Account
  <2>4. QED
    BY <2>0, <2>1, <2>2, <2>3 DEF AccountMoves
<1>2. TypeInv /\ [Next]_vars => [Current]_vars
  BY <1>1
<1>3. QED
  BY <1>2, TypeInvariant, PTL DEF Spec, RolloverIsCurrent

\* A short kid that a process accepts, or a request was admitted under, has
\* accounts.
FloorInv ==
    /\ \A p \in Procs : MeetsFloor(allow[p])
    /\ \A t \in Requests : task[t].pc = "create" /\ task[t].kid \in ShortKids =>
           AccountsOf(task[t].kid) # {}

\* A credential below the length floor that has no account never gets one,
\* although the floor is checked only when a process starts: what an allowlist
\* let in then, and any request admitted under it, still has its accounts.
THEOREM NoWeakCredentialIsIntroduced == Spec => WeakKidNotIntroduced
<1> DEFINE Kept == \A k \in ShortKids : AccountsOf(k) = {} => AccountsOf(k)' = {}
<1>1. Init => FloorInv
  BY IdleIsTask DEF Init, FloorInv
<1>2. TypeInv /\ FloorInv /\ [Next]_vars => FloorInv'
  <2> SUFFICES ASSUME TypeInv, FloorInv, [Next]_vars PROVE FloorInv'
    OBVIOUS
  <2>0. AccountOK /\ TaskOK /\ allow \in [Procs -> SUBSET Kids]
    BY DEF TypeInv
  <2>1. \A k : AccountsOf(k) # {} => AccountsOf(k)' # {}
    <3>1. \A a \in Accounts : Exists(a) => Exists(a)' /\ account'[a].kid = account[a].kid
      BY StepsOfAccount, AccountWrites
    <3>2. QED
      BY <3>1 DEF AccountsOf
  <2>2. \A A : MeetsFloor(A) => MeetsFloor(A)'
    BY <2>1 DEF MeetsFloor
  <2>3. \A p \in Procs : allow'[p] = allow[p] \/ MeetsFloor(allow'[p])
    BY <2>0 DEF Next, vars, NewAccountLookup, NewAccountCommit, NewAccountLoses, KeyChangeVerify,
       KeyChangeRecheck, KeyChangeCommit, KeyChangeDenied, DeactivateVerify, DeactivateRecheck,
       DeactivateCommit, RequestFails, Restart, WindowMoves
  <2>4. \A p \in Procs : MeetsFloor(allow[p])'
    <3> SUFFICES ASSUME NEW p \in Procs PROVE MeetsFloor(allow[p])'
      OBVIOUS
    <3>1. MeetsFloor(allow'[p])
      BY <2>3 DEF FloorInv
    <3>2. QED
      BY <2>1, <3>1 DEF MeetsFloor
  <2>5. ASSUME NEW t \in Requests, task'[t].pc = "create", task'[t].kid \in ShortKids
        PROVE  AccountsOf(task'[t].kid) # {}
    <3>1. ASSUME task'[t] = task[t] PROVE AccountsOf(task'[t].kid) # {}
      BY <2>5, <3>1 DEF FloorInv
    <3>2. ASSUME NEW u \in Requests, Finish(u) PROVE task'[t] = task[t]
      BY <2>0, <2>5, <3>2, TaskFinishes
    <3>3. ASSUME NEW u \in Requests, NEW p \in Procs, NEW k \in Keys, NEW d \in Kids,
                 NewAccountLookup(u, p, k, d)
          PROVE  AccountsOf(task'[t].kid) # {}
      <4> DEFINE v == [Idle EXCEPT !.pc = "create", !.proc = p, !.new = k, !.kid = d]
      <4>1. v.kid = d
        BY DEF Idle
      <4>2. task' = [task EXCEPT ![u] = v] /\ d \in allow[p]
        BY <3>3 DEF NewAccountLookup
      <4> HIDE DEF v
      <4>3. CASE t = u
        <5>1. task'[t].kid = d
          BY <2>0, <4>1, <4>2, <4>3 DEF TaskOK
        <5>2. QED
          BY <2>5, <4>2, <5>1 DEF FloorInv, MeetsFloor
      <4>4. CASE t # u
        BY <2>0, <3>1, <4>2, <4>4 DEF TaskOK
      <4>5. QED
        BY <4>3, <4>4
    <3>4. ASSUME NEW u \in Requests, NEW p \in Procs, NEW a \in Accounts,
                 \/ \E k \in Keys : KeyChangeVerify(u, p, a, k)
                 \/ DeactivateVerify(u, p, a)
          PROVE  task'[t] = task[t]
      <4>1. \E v : task' = [task EXCEPT ![u] = v] /\ v.pc # "create"
        <5>1. ASSUME NEW k \in Keys, KeyChangeVerify(u, p, a, k)
              PROVE  \E v : task' = [task EXCEPT ![u] = v] /\ v.pc # "create"
          <6> DEFINE v == [Idle EXCEPT !.pc = "rollover", !.proc = p, !.acct = a,
                                       !.key = account[a].key, !.new = k]
          <6>1. task' = [task EXCEPT ![u] = v]
            BY <5>1 DEF KeyChangeVerify
          <6>2. v.pc = "rollover"
            BY DEF Idle
          <6>3. QED
            BY <6>1, <6>2
        <5>2. CASE DeactivateVerify(u, p, a)
          <6> DEFINE v == [Idle EXCEPT !.pc = "deactivation", !.proc = p, !.acct = a,
                                       !.key = account[a].key]
          <6>1. task' = [task EXCEPT ![u] = v]
            BY <5>2 DEF DeactivateVerify
          <6>2. v.pc = "deactivation"
            BY DEF Idle
          <6>3. QED
            BY <6>1, <6>2
        <5>3. QED
          BY <3>4, <5>1, <5>2
      <4>2. QED
        BY <2>0, <2>5, <4>1 DEF TaskOK
    <3>5. ASSUME NEW u \in Requests, KeyChangeRecheck(u) \/ DeactivateRecheck(u)
          PROVE  task'[t] = task[t]
      <4>1. \/ task' = [task EXCEPT ![u].pc = "rotate"] \/ task' = [task EXCEPT ![u].pc = "deactivate"]
            \/ Finish(u)
        BY <2>0, <3>5 DEF KeyChangeRecheck, DeactivateRecheck, Finish, TaskOK
      <4>2. QED
        BY <2>0, <2>5, <3>2, <4>1 DEF TaskOK, Task
    <3>6. ASSUME NEW p \in Procs, Restart(p) PROVE task'[t] = task[t]
      BY <2>5, <3>6, IdleIsTask DEF Restart
    <3>7. QED
      BY <3>1, <3>2, <3>3, <3>4, <3>5, <3>6 DEF Next, vars, NewAccountCommit, NewAccountLoses,
         KeyChangeCommit, KeyChangeDenied, DeactivateCommit, RequestFails, WindowMoves
  <2>6. ASSUME NEW t \in Requests, task'[t].pc = "create", task'[t].kid \in ShortKids
        PROVE  AccountsOf(task[t].kid)' # {}
    <3>1. AccountsOf(task'[t].kid) # {}
      BY <2>5, <2>6
    <3>2. QED
      BY <2>1, <3>1 DEF AccountsOf
  <2>7. QED
    BY <2>4, <2>6 DEF FloorInv
<1>3. ASSUME TypeInv, FloorInv, Next PROVE Kept
  <2> SUFFICES ASSUME NEW k \in ShortKids, AccountsOf(k) = {} PROVE AccountsOf(k)' = {}
    OBVIOUS
  <2>0. AccountOK /\ TaskOK /\ AccountMoves
    BY <1>3, StepsOfAccount DEF TypeInv
  <2>1. ASSUME NEW t \in Requests, NEW a \in Accounts, NewAccountCommit(t),
               account' = [account EXCEPT ![a] = [status |-> "valid", key |-> task[t].new,
                                                  kid |-> task[t].kid]]
        PROVE  AccountsOf(k)' = {}
    <3>1. task[t].kid # k
      BY <1>3, <2>1 DEF FloorInv, NewAccountCommit
    <3>2. account'[a].kid = task[t].kid /\ \A b \in Accounts : b # a => account'[b] = account[b]
      BY <2>0, <2>1 DEF AccountOK
    <3>3. QED
      BY <3>1, <3>2 DEF AccountsOf, Exists
  <2>2. ASSUME NEW t \in Requests, KeyChangeCommit(t) PROVE AccountsOf(k)' = {}
    <3>1. task[t].acct \in Accounts /\ account' = [account EXCEPT ![task[t].acct].key = task[t].new]
      BY <2>0, <2>2 DEF KeyChangeCommit, TaskOK
    <3>2. QED
      BY <2>0, <3>1 DEF AccountOK, Account, AccountsOf, Exists
  <2>3. ASSUME NEW t \in Requests, DeactivateCommit(t) PROVE AccountsOf(k)' = {}
    BY <2>0, <2>3 DEF DeactivateCommit, TaskOK, AccountOK, Account, AccountsOf, Exists
  <2>4. CASE account' = account
    BY <2>4 DEF AccountsOf, Exists
  <2>5. QED
    BY <2>0, <2>1, <2>2, <2>3, <2>4 DEF AccountMoves
<1>4. TypeInv /\ FloorInv /\ [Next]_vars => [Kept]_vars
  BY <1>3
<1>5. QED
  BY <1>1, <1>2, <1>4, TypeInvariant, PTL DEF Spec, WeakKidNotIntroduced

=============================================================================
