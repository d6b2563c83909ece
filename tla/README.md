# A TLA+ verification of acme-adcs-ra

`acme-adcs-ra` is a registration authority: it speaks ACME (RFC 8555) to
internal clients and enrolls at a Microsoft ADCS certification authority (CA)
through the `/certsrv/` web pages. It holds no signing key. Two things make it
hard: the CA's issuance cannot be undone by a local rollback, and the RA learns
of it over a connection that can fail at any point. This project models the
path of an order from the account and the nonce behind it through issuance to
revocation, and the audit trail all of it leaves: the code in
`src/src/acme_adcs_ra/` and the sync agent in `src/scripts/`. TLC checks the models
and TLAPS proves their safety properties for every instance.

## 1. Inventory

| Component | State | Operations | Interacts with |
| --- | --- | --- | --- |
| Orders (`store.py`, `routes/orders.py`, `routes/authorizations.py`) | status, processing generation (the lease), pending ReqID, certificate URL | newOrder, challenge, finalize, expiry sweep | everything below |
| Finalize and enrollment (`finalize.py`, `enrollment.EnrollmentGate`, `app_state.py`) | the request on the event loop; `ActiveEnrollments`, `AccountIssuanceLocks`, `IssuanceHalt`; the executor | admit, authorize, submit, complete, quarantine | the leg, the store, reclaim |
| Certsrv leg (`enrollment.CertsrvEnrollmentLeg`) | deadline, watchdog event, ReqID and leaf known so far | four HTTP exchanges, disposition parsing | the CA |
| Certificate rows (`store.py`) | valid, revoked, quarantined; one row per order | record_issuance, quarantine_certificate, record_revocation | orders, revocation |
| Operator reclaim (`routes/admin.py`) | none | the only way back from `processing` | orders, the registry, a person at the CA |
| Accounts (`routes/accounts.py`, `routes/key_change.py`) | status, key thumbprint | newAccount with EAB and quota, deactivate, keyChange | the account issuance lock |
| Nonces (`store.py`, `server_jws.py`) | nonce table | mint, consume, sweep | every request |
| Rate limits (`rate_limit.py`, counts inside store transactions) | token bucket; audit rows used as counters | take; count-then-insert | newOrder, newAccount, keyChange |
| Revocation confirmation (`routes/admin.py`, `crl_evidence.py`, `issuer_recovery.py`) | `ca_crl_updated`, CRL watermark, evidence flights | list, confirm, recover issuer, reset watermark | sync agent, CRL distribution point |
| Sync agent (`scripts/Sync-Revocations.ps1`, `Revoke-Cert.ps1`) | none | list, revoke at the CA, confirm | RA, CA |
| Denial coalescer (`audit_coalesce.py`) | open windows, eviction count | record, extend, evict, close | audit table |
| Audit log and retention (`store.py`, `audit_retention.py`) | audit rows | append, update of a tally, export, prune | everything |
| SIEM forwarding (`siem.py`) | bounded queue, worker threads, counters | emit, probe, close | audit hook |
| Policy, CSR and certificate validation, JWS, HTTP, configuration, migrations | none, or read once at start | pure functions | all routes |

Hard behaviours: the event loop, the executor threads and (outside the
supported deployment) a second process interleave at SQLite transactions; the
process can be killed between any two of them; the CA's answer can be lost,
late, or *pending* until an officer decides; every store write can fail; and the
way out of a wedged order is a statement by a person. `PROJECT.json` lists the
hazards one by one at the line where they bite.

What makes each component correct:

- *finalize, enrollment, leases, reclaim*: an order never has two live
  certificates; a live certificate is never lost; a lease has one holder; a
  reopened order has nothing outstanding at the CA; every wedged order can be
  recovered;
- *certsrv leg*: no pending or issued request is reported as denied; the
  evidence of an issuance survives a failure of any later exchange; the call
  ends;
- *certificate rows*: order and row tell the same story at every commit; a
  client is only pointed at a certificate the RA recorded and did not reject;
- *accounts*: no enrollment reaches the CA for an account that was deactivated
  or re-keyed since the request was authorized;
- *revocation confirmation*: a confirmed certificate is revoked at the CA, on
  evidence that names it; the watermark only advances; every revocation is
  eventually reconciled; one live retrieval per certificate;
- *order intake*: no order is finalized before all its identifiers are
  authorized; concurrent validations do not leave an order behind; ceilings
  hold in a burst; a late challenge revives nothing;
- *account table*: a key names one account; lifetime quota and rollover ceiling
  hold; a request that was overtaken has no effect;
- *nonces*: used once, and minted only against a token or a spent nonce;
  *token bucket*: never more than burst and refill;
- *denial coalescer*: no recorded denial is dropped from the tallies or counted
  twice, and a gap in the chain of windows is marked; *SIEM queue*: its counters
  do not overstate what left the host.

## 2. Modules and how they correspond to the code

`LegContract` is the interface between the leg and the rest: what
`submit_csr` may report, given what the CA decided (`LegAnswer`). `CertsrvLeg`
models the implementation of that interface and is checked against it;
`Enrollment` uses only the contract. The composition is thus by contract: the
leg's eleven variables do not multiply the states of the issuance path.

| Module | Models | State |
| --- | --- | --- |
| `LegContract` | result and exception types of `enrollment.py` | none |
| `CertsrvLeg` | `CertsrvEnrollmentLeg.submit_csr`, `_parse_certfnsh_disposition`, `_read_capped_body`, the watchdog | local variables of the call (`call`, `issued`, `leaf`), the clock and the event |
| `Enrollment` | `finalize.py`, `routes/orders.py:finalize_order`, `EnrollmentGate`, `app_state.py`, the store transactions they use, `reclaim_processing_order`, account deactivation and keyChange | `order`, `row`, `acct` (tables), `named` (audit and emergency log), `task` (a finalize from the route through the worker thread and back), `reclaim`, `halted`, and `ca` (external) |
| `OrderLifecycle` | the states of an order as clients may rely on them (`store.OrderStatus` and every compare-and-set on `orders.status`) | `status`, `cert`; abstract |
| `OrderIntake` | `routes/orders.py:new_order`, `create_order_with_authz`, `routes/authorizations.py`, the expiry sweep | `order`, `challenged`, `authorized` (tables), `window` (rows a ceiling counts), `task`, and the history `interrupted` |
| `Accounts` | `routes/accounts.py`, `routes/key_change.py`, their transactions, the kid floor of a starting process | `account`, `changed` (tables), `allow` (each process's allowlist), `task` |
| `Nonces` | `create_nonce`, `consume_nonce`, the sweeps, `TokenBucket`, and where routes, `server.py` and `server_jws.py` mint | `nonce` (table), `bucket`, `task`, and the histories `admitted`, `granted`, `succeeded`, `window` |
| `AuditTrail` | `DenialCoalescer`, the audit rows, `SiemEmitter` with its HEC sink, the startup probe | `rows` (table), `windows`, `calls` (the clock), `evicted`, `inHand`, `emitter`, and the histories `recorded`, `raised`, `arrived` |
| `MCEnrollment`, `MCOrderIntake`, `MCAccounts`, `MCNonces`, `MCAuditTrail` | constants and symmetry of the TLC runs | none |
| `EvidenceGate` | `crl_evidence.CrlEvidenceGate` | `_inflight`, the futures, the awaiting callers |
| `Revocation` | `revokeCert`'s transaction, the pending list and the confirm route of `routes/admin.py`, `_crl_evidence_for`, `confirm_ca_revocation_with_audit`, `Sync-Revocations.ps1` and `Revoke-Cert.ps1` | `cert`, `watermark`, `trail` (tables), `request` and `flight` (confirm requests and their CRL retrievals), `agent`, and `ca`, `crl`, `last` (external) |
| `EnrollmentProofs`, `CertsrvLegProofs`, `RevocationProofs`, `EvidenceGateProofs`, `OrderIntakeProofs`, `AccountsProofs`, `NoncesProofs`, `AuditTrailProofs` | the theorems of section 5 | none |

In `Enrollment` one action is one SQLite transaction, one step between two
`await`s, or one external event. The location of a finalize (`task[t].pc`)
stands for the code that runs next: `admit` (before the ready-to-processing
CAS), `queued` (waiting for an executor thread), `locking` (waiting for the
account lock), `authorized` (lease re-check), `submit`, `calling`, `answered`
(exception branches of `_submit_enrollment_inner`), `terminate` (after the
orphan quarantine), `returned` and `recording` (`_finalize_complete`). The
registries of `app_state.py` are derived from it: `ActiveEnrollments` is
`IsActive`, `AccountIssuanceLocks` is `LockFree`, the gate's counters are
`GatePending` and `RunningWorkers`. A certificate is named by the CA request
that produced it.

`OrderLifecycle` is what the RA promises of an order: which moves exist, that
`invalid` and `revoked` are final, that a `valid` order can only be revoked and keeps
its certificate. `OrderIntake` implements it from creation to the start of a
finalize, `Enrollment` from there on; each does so through an
`INSTANCE OrderLifecycle WITH` its own order table projected on status and
certificate, and TLC and TLAPS check `Lifecycle!LifecycleSpec`. The two modules
share the moves at which they meet: `Enrollment` starts with orders that are
`pending` and takes the intake as one step, `OrderIntake` ends with `processing`.

In `OrderIntake` and `Accounts` the event loop runs one handler of a process at a
time, from one `await` to the next: while a task is in its synchronous section
(`BusyPC`, or any challenge step) nothing else of that process starts. What
interleaves inside a section is another process on the same store, which an
overlapping restart produces; at the account lock, which is awaited, other
requests of the same process run too.

Abstractions, and why they are sound for the properties:

- Wall-clock time: an order can expire, the reclaim age floor can have passed,
  and a CA call can time out, whenever the step is otherwise possible. This
  only adds behaviours.
- CSR, policy, and post-issuance checks are nondeterministic choices: a finalize
  that fails one of the first two changes nothing, and a certificate may always
  be rejected (`CompleteQuarantine`) or accepted (`CompleteRead`).
- The read of an order and the CAS that follows are separate steps although a
  single process has no `await` between them, and so are the checks of reclaim
  and its transaction. With two processes on one store the interleaving is
  real; with one it only adds behaviours.
- The executor is not FIFO in the model; the code's order is one of the
  model's.
- The EAB kid allowlist is fixed for the life of a process, so the re-check of
  the kid under the account lock cannot change its answer and is left out.
- Restart kills a process at any point. A graceful shutdown waits for the
  running requests, so it reaches no state that a kill does not.
- A pending page without a ReqID gives the marker `?`; the model writes the
  request itself, as the operator has to find it before asserting it resolved.
- What the CA decides is external; so is an officer's later decision on a
  pending request and the operator's manual revocation. The operator is
  truthful at the time of the check; `OperatorChecksOutstanding` says whether
  "no certificate was issued" is taken to cover requests not decided yet.
- In `CertsrvLeg` a page is reduced to the signals the parser looks for, and
  the configured locale is assumed to be the CA's. Aborting the socket, which
  the watchdog also attempts, is not modelled: the body loop must end without
  it.
- In `EvidenceGate` a worker thread returning and the event loop learning of it
  are separate steps, and so is the done-callback. Until the loop is told, the
  future is not `done()` and can still be joined: a caller may be handed what was
  fetched before it asked, and only a settled future is passed over. What such
  a caller then acts on is a matter of `Revocation`. A request that is shed
  changes nothing and is no action. The identity of a finished future is reused
  once nobody awaits it.
- In `Revocation` one CA key signs the CRLs at the configured URL; `Foreign` are
  the certificates of another one, for example from before a key renewal. A
  CRL is named by its position in the CA's sequence, which CRL number and
  thisUpdate follow, so `compare_to_watermark` is a comparison of positions. A
  CA restored from a backup is not modelled. Publishing a CRL with the content
  of the last one is left out: it is the same evidence again.
- The distribution point may serve any published CRL at any time. Evidence that
  is refused for its age, signature or size, that cannot be fetched or that is
  not configured is "failed"; the single flight per certificate is the one of
  `EvidenceGate`, and a shed request is a POST that fails.
- The repair of a missing chain and the read of the watermark, consecutive on
  one thread, are one step; the fetch, the delivery of what it found and the
  commit are separate ones, and a confirm request may join a retrieval between
  its fetch and its delivery.
- Issuer recovery scans at most 1000 rows and 64 candidate certificates
  (`issuer_recovery.py:64-65`). `HasIssuerSource` has no such bound: it is the
  recovery in a store the scan reads to its end.
- The agent does not wait for the RA's answer in the model, so its confirm
  requests can overlap; two agents, or a client timeout, do this in the field.
  A killed agent is one whose remaining steps fail. Revocation times are the
  order in which certificates became pending.
- A rolling rate-limit window is the set of rows still inside it, and a row may
  leave it at any time: every pattern of arrivals and pauses is one of these.
- `Names` in `OrderIntake` are the identifier entries of an order, each with its
  own authorization and challenge; that the challenge is validated without a
  probe (the RA authorizes by account and policy) is the code's.
- `KidLimit` has the per-kid overrides applied. A limit of 0 is off, as in the
  code.
- `Accounts` starts from every store an earlier release may have left within the
  limits, deactivated accounts included. A denied newAccount, and one that
  returns an existing account, change nothing and are no action.
- The token bucket counts in parts of a token and in ticks, so that fractions
  of a token are left over as they are with floating-point seconds; rounding
  is not modelled. A nonce may pass its TTL whenever it is unspent.
- `record` of the coalescer holds its lock throughout, so a call is one step
  with the outcomes the store gives it; handing the row to the emitter is
  another. Windows are a set, as the code's `dict` is, and `last_touch` orders
  them for eviction; the clock it reads is the number of calls, so no two
  touches tie. Windows lapse in the order in which they were opened (one window
  length for all). The code reads the clock before it takes the lock; two
  denials that swap places there fall in windows in either order, which the
  model has too.
- A step of the emitter is one section under its lock or one of the pool: taking
  a slot (`Export`), submitting to the pool (`Submit`), recording the outcome
  (`Deliver`, `SendFails`) and giving the slot back (`Release`) are separate, so
  that what another thread sees in between is in the model. A row that reaches
  the collector although its sender saw an error is possible (`SendFails`). The
  startup probe counts as delivered, as in the code.

## 3. Runs

All runs finish within five minutes on two workers.

| Run | Instance | What it shows |
| --- | --- | --- |
| `enrollment_single` | one process, two orders of one account, two requests, a diligent operator | the supported deployment: no double issuance, no lost certificate, reopened orders are clean, the account lock linearises, order and row agree |
| `enrollment_overlap` | two processes, one order, two requests, three generations, an operator who does not look for outstanding requests | what the durable lease alone guarantees when the registries of two processes do not see each other; every step is one of `OrderLifecycle` |
| `enrollment_live` | one process, two orders of one account, two finalizes on two threads, one request, two generations, fair threads and operator | enrollments that contend for the account lock end, and wedged orders are recovered |
| `certsrv_leg` | every page and every deadline, two languages | the leg keeps `LegContract`, carries its evidence, and ends |
| `order_intake` | two processes, two orders of two accounts with one kid and a ceiling of one, two identifiers, two requests | newOrders that race past the advisory check stay under the ceiling, `ready` means authorized, overlapping validations do not leave the transition to each other, no order is revived |
| `accounts` | two processes with allowlists of their own, three accounts and keys, a normal and a short kid, two requests | keys stay unique, quota and ceiling hold, overtaken requests change nothing, the kid floor lets no short kid in |
| `nonces` | three nonces, two requests, a bucket of two tokens that refills two thirds of a token per tick, a restart | a nonce admits once, every nonce is paid for, the bucket keeps its rate |
| `revocation` | two certificates, two concurrent confirms, two CRLs, a hold, the agent's word accepted without a CRL | nothing is confirmed that the CA never revoked, the trail claims what was seen, the watermark is exactly the newest CRL acted on, a confirmation is never rewritten |
| `revocation_live` | two certificates, one confirm slot, CRL evidence required, fair agent and CA | a strict RA records nothing on the agent's word alone, and every revocation that evidence can be found for drains |
| `evidence_gate` | three certificates, two callers, three futures, ceiling two, one worker | one live retrieval per certificate, the ceiling, capacity returns |
| `audit_trail` | two coalescing keys with an index for one, three denials, a queue of two, two sender threads, an archived row, a restart | tallies add up, gaps are marked, export slots and counters are right between any two lock sections |

One more run is expected to be violated. It states what a comment of the code
says, and TLC shows a behaviour of the code that differs:

- `stale_worker`: `quarantine_certificate` moves a `processing` or `ready` order to
  `invalid` without looking at the lease; a worker whose order was reclaimed
  and handed to a later enrollment ends that enrollment's order.

Other differences between the code and what is written about it are part of the
models and have no run of their own:

- The halt latch is looked at after the lease is taken
  (`routes/orders.py:330-336`); a refused order stays in `processing` until an
  operator reclaims it, while `test_security_review_2026_08_25.py:276-279` says of
  the 503 that a client retries after the restart.
- `ca_verified_no_issuance`, taken literally (`docs/operations.md:857-860`), does not
  exclude a request the CA has received and not decided; reopening then allows
  a second live certificate. `OperatorChecksOutstanding` is that difference.
- A confirmation reads the watermark before it fetches the CRL. One that was
  overtaken is committed as `crl-verified` on an older CRL than the watermark
  (`docs/operations.md:650-651`). The stored watermark stays right
  (`WatermarkIsNewestActedOn`).
- The pull returns the newest page of pending rows only (`store.py:2611`). A full
  page of certificates that cannot be confirmed keeps an older one from being
  offered to the agent; `revocation_live` has a page that holds everything.
- When two issuances of one order complete, `record_issuance` commits the second
  without a row: its serial is in an audit row only. With two processes the
  lease can be lost between the worker's lease check and its POST.
- A deadline that passes while the leg parses its first page drops the ReqID
  just parsed: the order stays in `processing`, and the operator has to search
  the CA by name.
- `post_challenge` commits the challenge, the authorization and the order one by
  one. A handler that ends in between (a store failure, a crash) leaves an order
  that stays `pending` until it expires, because the replay of a valid challenge
  returns before the lost steps; the comment there calls it "a finished,
  idempotent operation" (`routes/authorizations.py:112-121`). `PendingForAReason`
  says that this is the only way in which an order with all its challenges
  valid is left behind: `interrupted` remembers the identifiers whose handler
  ended after its first commit, until another handler of the same identifier
  gets to its end.
- A CRL older than the newest published one, but not older than the watermark,
  is accepted. If it lists a certificate that was released since, the
  confirmation is `crl-verified` on a CRL that does list the serial;
  `TrailMatchesEvidence` holds of it, and the code has nothing to notice it by.
- `update_account_status` compares the status and not the key: a deactivation
  that a rollover by another process overtakes after its recheck still takes
  effect. Its audit row is a commit of its own.
- `_check_rate_limit` skips a kid's override when the default limit is 0; the
  transaction applies it, so only the order of the refusals differs.
- A second worker process has its own coalescer and eviction count, so the
  chain of windows (`GapIsMarked`) is one of a process.

Bounds. Two finalize slots and two requests are the least in which one
enrollment overtakes another; the double-issuance and lease properties speak of
pairs. `MaxGeneration` = 3 lets an order be acquired, reopened and acquired
again, and the process may crash any number of times between. In
`enrollment_single` a gate of one (`MaxPending`) is filled by one order and refuses
the other, and its lease is handed back. `enrollment_live` admits both, so that one
worker waits for the account lock while the other holds it and a thread; its
gate is never full, and two requests of one order are left to the safety runs.
In `evidence_gate` three futures
give a retrieval, its successor and the duplicate an eviction would admit. In
`Revocation` two certificates and two confirms overlap on one and on different
certificates, and two CRLs let a stale one be served once the watermark has
moved; `PageLimit` scales the page of 500 rows down. The live run has no holds,
so that three CRLs are all the CA has news for and the bound never keeps it from
publishing. In `order_intake` a ceiling of one is the least that two concurrent
orders can exceed, and two identifiers the least of which one can lag; the
global ceiling is off there, and `CeilingsAreKept` is proved for both. In
`accounts` three keys let two requests claim the same one or a chain of them. In
`nonces` two tokens and steps of two thirds leave remainders, and a fault that
forgets one exceeds the rate within three ticks; three nonces let a free mint
show. In `audit_trail` an index for one window makes every second key evict, and
three denials give a window, its eviction and its successor.
Deadlock checking is off because the systems may come to rest: all orders final
and all requests used, a call returned, a gate closed, a bound reached.

Every property of a passing run has a mutant in `PROJECT.json`: a definition
marked "Fault" beside the one it stands in for, with the mistake the code avoids (a
dropped `WHERE` clause, a count outside its transaction, a check before the write
it depends on), under which TLC finds the property violated.

## 4. Fairness

`EnrollmentEnds` and `WedgedOrderIsRecovered` assume weak fairness of the route
(the event loop resumes it) and of the worker (each leg call has a total
deadline, which is what `LegEnds` shows), and strong fairness of getting an
executor thread and the account lock: neither starves a waiting thread for ever.
A worker at the lock may also fail on the store once it has it, never while it
waits. `WedgedOrderIsRecovered` also needs the people: officers decide what is
pending, the operator revokes by hand and reclaims; strong fairness of
`ReclaimWrite` says the operator repeats a reclaim that a restart interrupted.
`LegEnds` assumes no fairness of body reads, which may trickle for ever; the
watchdog timer fires, and waiting for response headers is bounded by the socket
timeouts. `CapacityReturns` assumes that retrievals end (`fetch_crl_evidence`
has a total deadline) and that the loop runs its callbacks. `RevocationsDrain`
assumes that the scheduler runs the agent again and the CA publishes what has
changed (weak fairness), and that what is attempted again and again succeeds at
times: certutil, the POST, the retrieval of the newest CRL, the delivery of a
result that lists the serial, the transaction (strong fairness). Failures may go
on for ever otherwise. It says that again and again no certificate is pending
that could be confirmed, which is the same as each of them draining: a
confirmation is never withdrawn, and a certificate becomes pending once. The
modules `OrderIntake`, `Accounts`, `Nonces` and `AuditTrail` state no fairness:
a handler that was cut short is never resumed, and what they promise is safety.

## 5. What is proved

Every safety property of the passing runs, invariants, action properties and
refinements alike, is also a theorem. The theorems hold for every value of the
constants, under the assumption each module names for them:

| Module | Assumption | Arbitrary |
| --- | --- | --- |
| `Enrollment` | `ConstantsAssumption` | processes, orders, accounts, requests, finalizes, limits |
| `Revocation` | `RevocationAssumption` | certificates, CRLs, concurrent confirms; either policy, with and without `EnforceMonotonic` and certificates of a foreign key |
| `EvidenceGate` | `GateAssumption` | certificates, callers, futures, workers, ceiling |
| `OrderIntake` | `IntakeAssumption` | processes, orders, identifiers, kids, limits |
| `Accounts` | `AccountsAssumption` | processes, accounts, keys, kids, requests, quota and ceiling |
| `Nonces` | `NoncesAssumption` | nonces, requests, burst, refill |
| `AuditTrail` | `AuditTrailAssumption` | keys, cap, queue, pool, rows, process starts |

`CertsrvLeg` has no constants: its run is exhaustive already, and its proof says
why it passes. Two assumptions go beyond the types of constants, and theorems
that need one state it: `SingleProcess`, where the guarantee rests on process
memory (the in-flight registry, the account lock), and `Supported`, which is
`SingleProcess` with `OperatorChecksOutstanding`, the operator who looks for
undecided requests before reopening an order. Without them the properties fail,
as section 3 says.

### Issuance (`EnrollmentProofs`)

- `TypeCorrect`: `Spec => []TypeOK`. `TypeOK` is not inductive, because a worker
  in `queued` or later writes to `task[t].order` and `task[t].req`. The
  strengthening `TasksBound` says that a task past `idle` has a process, an order
  and a key, and one past `calling` a request that is its own order's and
  generation's.
- `LeaseHasOneHolder` and `LeaseIsWorthOneRequest`, in any deployment. The
  generation of an order only grows, no task or request carries a generation
  the order has not reached, and only the CAS that increments it creates a
  holder. A second request under one lease would need a second holder, since a
  holder submits once.
- `AccountLockLinearises`, in a single process: no enrollment is between its
  account check and the end of its CA call for an account that is deactivated
  or has another key.
- `ClientsGetHonouredCertificates`, in any deployment: a `valid` order names an
  honoured row of its own. `record_issuance` and reclaim act on a certificate
  read in an earlier step, so the invariant (`RowInv`) says of every such reading
  that it is still true: rows are never deleted and an honoured row is never
  quarantined.
- `OrderHasOneLiveCertificate`, `NoCertificateIsLost`, `ReopenedOrdersAreClean` and
  `OrderAndRowTellOneStory`, in the supported deployment. None is inductive, and
  none can be proved without the others: one invariant (`IssuanceInv`) carries all
  four. It speaks of requests that are *outstanding* (sent, pending or issued)
  where the properties speak of issued ones, since the CA may decide at any
  time. An order has one outstanding request at most (`OneOutstanding`); while an
  enrollment runs it holds the lease (`ActiveHolds`), is the only one of its
  order (`OneActive`) and owns what is outstanding (`OthersResolved`), so a fresh
  lease starts from an order with nothing at the CA. Every outstanding request
  is on a row, named, or its order is in `processing` (`Accounted`). What a worker
  was told and what the operator was shown is still so when it is acted on
  (`AnswersTrue`, `ReclaimQuiet`): a reclaim the lease of which has moved on does
  nothing.

### The leg (`CertsrvLegProofs`)

- `LegTypes`, `LegKeepsItsContract`, `FailuresCarryTheEvidence`. The invariant
  (`LegInv`) follows the call: the page being read is one the CA shows for what it
  did, what it is parsed to is an answer the contract allows, and the ReqID and
  certificate in hand are those of the exchanges completed. The lemma on the
  parser goes through its patterns in the order in which the code tries them.

### Order state machine (`EnrollmentProofs`, `OrderIntakeProofs`)

- `EnrollmentImplementsLifecycle` and `IntakeImplementsLifecycle`: both modules
  implement `OrderLifecycle`. The initial states map to initial ones; every step
  changes one order at most, or expires a set of them, along an edge of the
  abstract order. The type invariants are needed, because a worker writes to
  the order its task names.

### Intake, accounts and nonces

- `IntakeWellFormed`: `TypeOK`, a task past `idle` works on an order that exists
  (`TasksBound`), and an id not yet drawn has no identifiers, no valid challenge
  and no place in the window (`FreshOrders`). The other theorems on the intake
  rest on it.
- `FinalizeNeedsAuthorization`: the write to `ready` comes a step after the read
  that justified it, so the invariant adds `AdvancesAuthorized`, which holds
  because authorizations are never withdrawn and identifiers never change.
- `CeilingsAreKept`: by the cardinality of the window before and after the one
  step that adds to it. `CredentialCeilingsAreKept` (`AccountsProofs`) is the same
  argument for accounts and rollovers of a kid; it also uses that an account
  keeps its kid.
- `LastChallengeAdvances` (`PendingForAReason`): the strengthening `Lagging` says
  that an identifier whose challenge is valid and whose authorization is not has
  a handler between the two commits, or is remembered as one whose handler ended
  there; `Posted` that a handler's identifier is one of its order's.
- `KeysNameOneAccount`, `RolloversAreCurrent`, `NoWeakCredentialIsIntroduced`
  (`AccountsProofs`), on a type invariant that bounds what a request in each
  location carries. The last needs `FloorInv`: what a process's allowlist lets
  in, and what a request was admitted under, still has its accounts, because
  accounts are never deleted.
- `NoncesTypeCorrect`, `NonceIsSingleUse` (a spent nonce has no row: `SpentOnce`),
  `BucketKeepsRate` (what was taken and what is left, refilled to now, stay under
  burst and refill: `WithinRate`) and `NoncesArePaidFor` (nonces minted and nonces
  owed to responses together are covered: `Paid`), in `NoncesProofs`.

### Revocation (`RevocationProofs`, `EvidenceGateProofs`)

- `RevocationTypeCorrect`, `TrailIsTrue`, `WatermarkIsTrue` and
  `ConfirmationIsFinal`. A confirmation is decided on evidence gathered earlier,
  so the invariant (`EvidenceHolds`) says that what a request carries is still
  true when it is used, `FlightHolds` that what a returned retrieval will deliver
  is: a published CRL never changes (`CrlsStay`). The watermark
  needs, besides, that a certificate with no confirmation has acted on no CRL
  (`Unrecorded`): otherwise the first confirmation could replace the record the
  watermark came from.
- `ConfirmedRevocationsHappened`: what the agent works on, and what any confirm
  request names, the CA has revoked at some time (`CarriedWasRevoked`). This is
  what a store that accepts the agent's word relies on. It needs that the store
  knows all that the agent or the CA acts on (`KnownToStore`): otherwise a later
  first recording would make such a certificate one that was just issued.
- `OneFlightPerCertificate`, `AdmissionIsBounded`: a live future is the one its key maps to (`LiveMapped`). Two live retrievals of one
  key would be two values of the map, and the live ones are no more than the
  occupied entries, which the ceiling bounds (`WithinCapacity`).

### Audit trail (`AuditTrailProofs`)

- `DenialsAreConserved`. A fold writes the window's own tally, not an increment
  of the row's, so the invariant relates the two: a window stands for the latest
  row of its key (`WindowsMatch`), and is ahead of it only by denials whose call
  raised and that no row tells of yet (`TallyInv`). That a fold of key `k` leaves
  the other keys alone is by the cardinality of the set of denials the rows
  tell of.
- `GapsAreMarked`. While the emitter is open the latest row of a key has its
  window, or the index has evicted, or the row was archived (`LatestIsKnown`); the
  row that succeeds it inherits the hand-off or the mark from that.
- `ExportBooksBalance`. A row is in one place at most: in hand, admitted, queued,
  being sent, or recorded with its slot not yet given back (`OnePlace`). Each lock
  section moves one row from one place to the next or into one counter, so that
  slots and rows on their way stay equal and the sum stays within the rows of
  the process.

### Only model-checked

The liveness properties `EnrollmentEnds`, `WedgedOrderIsRecovered`, `LegEnds`,
`CapacityReturns` and `RevocationsDrain`: the prover handles neither fairness nor
`ENABLED`. `EvidenceGate`, `Accounts`, `Nonces` and `AuditTrail` have their type
invariants in the proof modules, where they are needed; their runs check the
properties that an ill-typed state would break.

## 6. Plan

Done: every module of section 2, its run, and a theorem for each of its safety
properties; `OrderLifecycle` with both refinements. What further work could add,
in this order:

1. The pull page of `Revocation` as a bounded list that rows can be hidden behind,
   once the code has a remedy to state a property of.
2. A second sender of `AuditTrail` for syslog, whose interrupted send counts
   differently at shutdown.
3. Shorter proofs: the steps of `EnrollmentProofs` that leave an order alone repeat
   one argument per action.

## 7. Not modelled

- Cryptography, JWS and certificate parsing, policy and CSR predicates, HTTP
  plumbing, configuration: pure functions, or code that runs once and alone.
  Their verdicts are nondeterministic choices, and their limits are constants,
  of the modules above.
- Store migrations: they run alone before the server answers. The unique indexes
  they create are part of `Accounts` and `Enrollment`.
- Truncation of audit details and the samples of kids on a coalesced row:
  formatting. Pruning by age is refused by `create_app`, and its sweep has no
  caller, as has `reset_crl_watermark`.
- The JSON-lines sink with its rotation, and the syslog transport. Syslog shares
  the queue with a single sender thread; a send that `close` interrupts may be
  counted as delivered there, which is why `ExportsAccounted` speaks of an open
  emitter.
- A deployment whose nonce bucket is switched off, and `allow_weak_credentials`,
  which skips the kid floor: each drops a guard whose property then does not hold.
- Installation, reporting and laboratory scripts: deployment tooling.
