# Verification of the Tria SDK

TLA+ models of the Tria SDK (`src/src/tria`), the TLC configurations that check
them, and theorems about them that TLAPS proves. The SDK is a Python library: a
host application opens *relationships*, records what participants grant, consent
to, claim and agree, and asks the library, at the moment of an invocation,
whether an executor may be entered. The library keeps no background threads; a
host may call it from several threads, and several relationships, handles and
store instances of one process share one event store. The repository also holds
an experiment (`evals/agent_comparison_experiment`) that compares agents with and
without the SDK's reports and has a runner that spends money on model calls; its
stateful part is modelled too.

Paths below are relative to the repository; `core.py:93` stands for
`src/tria/core.py:93`, `pilot.py` and `harness.py` are in
`evals/agent_comparison_experiment/`.

## 1. Inventory

| Component | Source | State it keeps | Operations that change it |
|---|---|---|---|
| Event store | `store.py`, `events.py`, `core.py:83-105` (`_commit`) | append-only histories, an open transaction, a reentrant lock, a session shared by store instances | `append`, `append_many`, `execution_guard`, open, `close`, `_commit` |
| SQLite sessions | `store.py:68-185` | per process a registry of sessions with a lock of its own; per session a connection, a reentrant lock, a reference count and a `flock` on a file | open, `close`, `execution_guard`, fork and end of a process |
| Execution bridge and runtime | `execution.py`, `runtime.py`, `governance.py` | nothing of its own: reservation, resolutions and result are events | `execute`, `prepare`, `evaluate`, `record_plan`, `record_result` |
| Lifecycle and its authority | `core.py:178-200, 268-281`, `state.py:110-121, 182-183`, `governance.py:132-159` | lifecycle state, set of authorized participants (projected) | `transition`, `grant_lifecycle_authority`, `revoke_lifecycle_authority` |
| Permissions, delegation, races | `core.py:126-176`, `governance.py:80-130`, `causality.py`, `state.py:87-109` | permission records, ambiguity of unordered races (projected) | `grant_permission`, `revoke_permission`, `delegate_permission`, `check_capability` |
| Consent, policy, re-consent | `core.py:110-124, 202-247, 283-293`, `state.py:64-86, 122-159` | consents, policy versions, policy authority, required re-consent (projected) | grant and revoke consent, register, amend, adopt, revoke policies and authority |
| Claims | `core.py:249-266`, `state.py:160-181` | claims and disputes (projected) | `register_claim`, `dispute_claim` |
| Cross-boundary disclosure | `boundary.py` | disclosure, admission and derivation events of two relationships, a handle between them | `disclose_reference`, `admit_disclosure`, `derive_from_disclosure` |
| Portable replay | `portable.py` | a bundle outside the store | export, verification, import |
| Assessments | `integrity.py`, `diagnostic.py` | none kept; a report is put together from several readings of the state | `diagnose`, `assess_truth_integrity` |
| Differentiation | `differentiation.py` | none | comparisons of numbers, one `register_claim` |
| Provider adapters | `providers/` | none | none |
| Value types | `types.py`, `errors.py`, `immutability.py`, `compat.py` | none | none |
| Model pilot | `pilot.py`, `model_adapter.py` | a frozen plan, and on disk a journal of calls and results | `prepare_pilot`, `run_pilot` |
| Rubric and scenarios | `harness.py` | none | none |
| Other evaluations, playground, examples | `evals/unknown_unknown_challenge/`, `playground/`, `examples/` | none of the SDK's own | none |

### How they interact

All state is in the event store. A relationship handle keeps no copy: every
read lists the events again and reduces them (`state.py`, `reduce_events`), and
every change ends in `_commit`, which reads the head, reads the actor's
sequence and appends. Each of the three takes the store's lock on its own.
Operations that need authority first check it against a projection, then record
the decision (itself a commit) and then commit the change. So between a check
and the change it allowed there are up to three unlocked windows, unless the
host puts the call inside `execution_guard()`, which is the same reentrant lock.
The execution bridge does this itself for the part of `execute()` after
preparation. Callbacks that host code supplies run inside that part: a custom
governance engine, a custom store, the executor; since the lock is reentrant
they may commit, and they may call `execute()` for another request or the same.

`diagnose()` calls `Runtime.evaluate` and `assess_truth_integrity` without the
guard: each of their checks reduces the history anew, so one report is made of
readings of different states. The experiment builds a relationship from each
scenario, gives some agents the report of `diagnose()` on it, and scores the
answers by a rubric of its own; the pilot sends the resulting prompts to a model
client.

### What is hard, and what must hold

- **Store.** Interleaved commits of threads, reads through a connection with an
  open transaction, nested guards, partial batches, crashes, retries. Must
  hold: every history is one gapless chain; a batch is stored whole or not at
  all; what was acknowledged stays; a commit is refused only when it is stale;
  inside the guard it is never refused.
- **Bridge.** Two threads with one request; authority that changes while a request
  is prepared; callbacks that commit, or execute another request, between
  evaluation and handoff; exceptions and process death between effect and record.
  Must hold: at most one executor entry for a request; authorized at that moment;
  on record before it happens and answered after; a request made in a callback
  settled before the one around it goes on; the guard always released.
- **Lifecycle.** Check, decision and commit are separate. Must hold: each
  change is explained by a decision on record; inside the guard it is legal
  when it commits; the documents also want `DISSOLVED` to be final.
- **Permissions.** Grants and revocations of several actors without causal
  order; delegation whose basis is revoked meanwhile; a lifecycle that blocks and
  permits again. Must hold: an unordered race is closed; revocation dominates;
  nothing opens a permission but a grant, or a transition that permits again
  what was granted; delegation needs DELEGATE.
- **Boundary.** A handle travels through host code between two relationships,
  the source is read at admission, check and commit are separate. Must hold:
  each admission stands for one real disclosure to this relationship and each
  derivation for one admission; movement is never a grant.
- **Policy and consent.** Consent-impacting versions, renewed consent and
  adoption by several authorities in any order. Must hold: no invocation under
  a consent that a later policy version put in question.
- **Replay.** An export lists twice; an import races with a creation. Must
  hold: an imported history is the exported one or nothing.
- **SQLite sessions.** Two locks taken in two orders, a reference count, a file
  lock that a forked child inherits, processes that end anywhere. Must hold: one
  owner of the file at a time, as long as it has a store open and no longer; a
  guarded store stays open; every call returns.
- **Assessments.** A report from several states, decided by a core and by a
  host's engine. Must hold: every decision in it was right at some moment of the
  call; a clear report was earned; an assessment is never talked down.
- **Pilot.** It may die anywhere, the client may answer anything, plan and
  sources may be edited. Must hold: what was sent is on disk before and never
  sent again; no call beyond the limits or after a faulty answer; results say
  what the journal says.

`PROJECT.json` lists each hazard at its line and the properties that cover it.

## 2. Plan

The order puts what everything else relies on first.

| | Modules | Composes / refines | Status |
|---|---|---|---|
| 1 | `AppendOnlyLog`, `EventStore`, `EventStoreProofs` | `EventStore` implements `AppendOnlyLog` | done, all proved |
| 2 | `Handoff`, `ExecutionBridge`, `ExecutionBridgeProofs` | uses the store's promise (a commit is one step); implements `Handoff` | done, safety proved |
| 3 | `LifecycleRules`, `Lifecycle`, `LifecycleProofs` | same; its rules are also those of 4 | done, all proved |
| 4 | `Permissions`, `PermissionsProofs` | same | done, all proved |
| 5 | `Boundary`, `BoundaryProofs` | two histories and the handle between them | done, proved |
| 6 | `PolicyConsent`, `PolicyConsentProofs` | consents, policy versions, re-consent; gives `ExecutionBridge`'s `reconsent` its meaning | done, all proved |
| 7 | `Replay`, `ReplayProofs` | export and import between stores | done, proved |
| 8 | `SqliteSession`, `HostProofs` | opening, sharing, guarding and closing the store that `EventStore` begins with | done, safety proved |
| 9 | `Diagnosis`, `HostProofs` | `diagnose()`, claims, integrity, the rubric | done, all proved |
| 10 | `Pilot`, `HostProofs` | the runner of the experiment | done, safety proved |
| | `MC*` | instantiate them; `MCHost` holds 8, 9 and 10 | |

Two abstract specifications are stated: the append-only log, which `EventStore`
is proved to implement, and the handoff of a request to its executor, which
`ExecutionBridge` is proved to implement. The promises of the other components
are stated as invariants over what they leave on record, because that is all
they promise.

## 3. What is modelled

### `EventStore` and `AppendOnlyLog`

`log` holds the committed rows of each relationship, `rows` those of the open
transaction, `owner` and `depth` the reentrant lock, `pc` and `draft` a thread
inside `_commit` (`ReadHead`, `ReadSequence`), `batch` the events it appends.
`BeginAppend` is `append_many` up to `BEGIN IMMEDIATE` and the validation of
`_validate_append` (`Fits`), `InsertRow` one row of `executemany`, `CommitRows`
the `COMMIT`, `Rollback` the exception path (also an interrupt), `Return` the
acknowledgement, `Crash` the end of the process. `Resubmit` is a caller's retry
with the same events; `BuildBatch` a host's own batch, over one relationship or
two, also one whose second event is chained to the same head as the first. A
read returns committed and uncommitted rows, as it does on the shared
connection; that nobody sees the uncommitted ones is a property
(`PriorIsCommitted`) and not an assumption. Hashes are abstracted to
identifiers: a hash covers the event's content, so naming the predecessor's
hash is naming the predecessor.

`AppendOnlyLog` is what the rest of the SDK may assume. `EventStore` implements
it with `history <- log`; reads, lock, transaction, rollback and crash stutter.

### `ExecutionBridge` and `Handoff`

A call of `execute()` is a thread and a level: level 1 is a call of the thread's
own, level 2 one made in a callback of its level 1, and so on. `history` holds
the events of requests (`Proposed`, `Resolved`, `Reserved`, `Result`) and the
changes of the authority, of which `authority` is the projection. Preparation
(`Execute` to `Translate`) runs without the guard, each read and each commit a
step; from `AcquireGuard` to `RecordResult` the call holds it: duplicate check,
reservation, first evaluation, comparison with the snapshot, recorded decision,
second evaluation, handoff, executor, result.

The guard is a reentrant lock: `owner` is the thread that holds it and `entered`
the `with` blocks it is in, one for each call past `AcquireGuard` and, as level
0, one that the host itself put around its calls (`EnterGuard`, `ExitGuard`). A
thread inside the guard acquires it again and releases it with the outermost of
these blocks. `Callbacks` are the points of a call where host code runs
(governance engine, context resolver, adapter, store, executor), `Suspended` a
call that waits for one made in its callback (`Nesting`). `Reentrant` is host
code that changes the authority on the guard's holder; `OtherCaller` any other
thread; `Expire` the clock; `Abandon` a storage failure or interrupt under the
guard; `Crash` the end of the process. One consent and one capability requirement
stand for the lists of a request, read one after the other as the code does; the
several decisions of `record_plan` are folded into its resolution, which is the
last of them.

`Handoff` is what a host may rely on (`docs/execution-bridge.md`), without
threads, guard, history or evaluations: per request a stage, which goes from
`new` over `reserved` and `running` to `answered`, or ends in `withdrawn` (denied,
changed under the guard, or cut off before the entry) or `lost` (cut off after
it). There is no way back from these three. Requests in hand are nested: a request
that is reserved while others are in hand was made in a callback of the innermost
of them, which `around` records, and it is settled before that one goes on
(`Innermost`, `Settle`). `Halt` is the end of the process: everything in hand is
withdrawn or lost at once. `ExecutionBridge` implements it with
`stage[q] <- Stage(q)` and `around[q] <- Around(q)`: while a call has a request
past the duplicate check its program counter says the stage, otherwise the effects
and the history do. `Reserve`, `EnterExecutor` and `RecordResult` map to
`Reserve`, `Enter` and `Answer`; `DenyLast`, `Recheck` and `Abandon` to `Withdraw`
or `Lose` where they end an attempt, `Crash` to `Halt`; all else stutters.

### `LifecycleRules` and `Lifecycle`

`LifecycleRules` holds the two tables of `governance.py`: which transitions may
follow which state, and which capabilities a state permits. Each operation is
`Call`, check and record of the authority, for transitions check and record of the
transition, and the commit. `from` is the lifecycle `transition()` read before its
check and writes into the event. `EnterGuard` and `ExitGuard` put a sequence of
operations inside the execution guard.

### `Permissions`

The host grants and revokes without a check (the SDK's contract), a participant
delegates with one. An event's identifier is its position. `Ambiguous`
translates `ambiguous_permissions` with its causal order: an actor's own events
in sequence, or a chain of causal parents. `Open` is the record of a key, active
and not ambiguous; `AllowedAt` also asks whether the lifecycle permits the
capability, as `require_capability` does. `Transition` moves the lifecycle in one
step, decided outside the guard on any earlier state of the history, which covers
the stale transitions of `Lifecycle`. The projection of the first `n`
events is kept as an operator so that a property may ask what was allowed when a
decision was made.

### `Boundary`

Two or more relationships, each with a history; `disclose_reference`,
`admit_disclosure` and `derive_from_disclosure` as check, recorded decision and
commit; handles that a host keeps, may submit more than once and to the wrong
relationship, and may alter in any field, or make up from two (`Submitted`). The
host grants and revokes DISCLOSE, STORE and
DERIVE meanwhile.

### `PolicyConsent`

`state` is the projection, reduced event by event as `reduce_events` does it
(`Consent`, `Reconsent`, `Authority`, `Definition`, `Adoption`, `InForce`), next
to the `history` it must agree with. `Call` begins an operation whose scope is an
argument, `CallRevoke` a policy revocation, which reads its scope from the
adoption; `CheckAuthority` and `RecordDecision` are `_require_policy_authority`,
`ReadDefinition` is what `adopt_policy` reads after its check, `CommitChange`
the change itself. A policy stands for an identifier with its version;
registering and amending are checked and projected alike and are one operation.
`InitialAuthority` lets a model begin in a relationship whose host has already
granted policy authority.

### `Replay`

The copies of one relationship in several stores (`log`), the bundles that left
them (`exports`, each with the identifier of the decision that allowed it) and
the bundles whose restoration was reported (`restored`). An export is
`CheckDisclose`, `RecordAllow` or `RecordDenial`, `ListEvents` and
`ReduceState`: the two listings of `_build_replay_bundle` are two steps. An
import is `BeginImport` (verification, which only reads the bundle, and the
listing of the destination), `AppendEvents` or `RefuseAppend`, and
`CheckRestored`. `Damaged` is what a bundle may have become on its way: cut
short, without its root, with a changed event, with the projection of another
bundle. A bundle whose hashes are all computed anew is a different history, and
the repository does not promise to recognize it
(`docs/replay-edge-hardening.md`, "does not add ... external authenticity").
`Raise` ends an operation at any step: a stale commit, a storage failure, an
interrupt. Every event sets the projection's `last_event_id`, which is why any
commit between the two listings shows.

### `SqliteSession`

Processes with their threads, and the stores (`SQLiteEventStore` objects) of one
database file. Per process `registry` is the holder of `_registry_lock` and
`registered` the entry of `_sessions`; `session` are the sessions ever created,
each with its process, reference count, connection and the processes that have
the locked file open (`fds`): a `flock` belongs to the open file, so a forked
child has it too and it is free when the last of them is gone. `CallOpen`
continues as `OpenShared`, `OpenRefused`, or `LockFile` and then `Connect` or
`ConnectFails` (the file is no database: its lock is given back); `CallClose` as
`CloseNothing` or `CloseBegin` (with the registry lock, waiting for the
session's lock) and `CloseEnd`; `CallGuard` as `Enter`, which repeats the check
under the lock, and `Leave`. `Fork` copies the memory and the locks of a process
and one of its threads, `End` is the end of a process by itself or by a crash.
What happens inside a guard is `EventStore`'s business.

### `Pilot`

`plan` is what the host holds (a `PilotPlan`, which it may also make by hand
with any limits, `EditPlan`), `folder` what is on disk per output directory, and
`sent` what the client was given, which nobody but the provider knows. A run is
`Start` (digests verified, directory created), `Setup`, `Begin`, and per trial
one of the three skips or `StartCall` (counted, reserved, journaled), `Send`,
`Receive`, `FinishCall`; then `FinishRun` and `SaveResults`. `Receive` takes any
answer: a transport error, something that is no reply, a reply of another model,
with or without usage, within or above the bounds. `Die` ends a run at any step
and leaves what is on disk. Tokens cost one unit each; only the comparison of
costs with reservations matters.

### `Diagnosis`

`rels` is the sequence of states the relationship had since the call,
`Snapshot` the reading `diagnose()` begins with, `Evaluate` one check of
`Runtime.evaluate` on a reading of its own (`require_consent` makes two: the
core on one reading, then the host's engine on another), `Assess` one assessment
with its reading, `Report` the summary. `Core` is the `GovernanceEngine`, `Host`
an engine the host may have put in its place, which always answers the same;
`Decide` is how the two are combined. Other threads commit meanwhile: lifecycle
transitions, grants and revocations of permission and consent, claims
registered (`Admitted`) and disputed. `Built` is the relationship `harness.py`
builds from a scenario and `Rubric` its `rubric_decision`, so that the
experiment's own calls are among those checked. Those commits are one step: what
happens between their checks and their commits is the subject of the modules
above, and `diagnose()` sees only what is committed; a transition may have been
decided on any earlier state of the call, which covers the stale ones.

### What stands for what

A commit is one step in the modules above the store: `EventStore` shows that a
commit is atomic, that outside the guard it may be refused as stale (every
module has that refusal as an action) and that inside the guard it is not.
Payloads, purposes, conditions, names, reasons and timestamps are left out
unless a property tells them apart.

## 4. What the runs check

| Run | Bounds | Shows |
|---|---|---|
| `store` | 2 threads, 2 actors, 2 relationships, 3 events, guard nested twice | commits of several actors keep one chain (`ChainIntact`); nobody builds on uncommitted rows, a refusal means somebody else committed, none under the guard (`CommitsFit`, `TransactionExclusive`); batches are atomic through rollback, crash and retry (`AllOrNothing`); the store implements the log (`ImplementsLog`) |
| `bridge` | 2 threads, 2 requests, calls nested twice, 2 calls in all, 1 change of authority, 1 fault; fairness | at most one entry, authorized when made, the last check being last (`AtMostOnce`, `EntryAuthorized`, `LastCheckIsLast`); the history tells of every effect (`EffectsOnRecord`); the bridge implements the handoff, nested calls included (`ImplementsHandoff`); the guard is released and an entry is answered (`GuardReleased`, `EntryAnswered`) |
| `lifecycle` | 2 threads, 4 operations | changes are explained; guarded changes are legal |
| `lifecycle_terminal` | same | **violated**: see findings |
| `permissions` | 2 threads, 2 participants, 3 grantors, 2 capabilities of which DISSOLVING permits one, 3 operations with a causal parent | revocation dominates; only a grant opens a key, or a transition what was granted; delegation is explained; in the guard DELEGATE still holds |
| `races_unordered` | 3 grantors, 1 capability | **violated**: see findings |
| `boundary` | 2 threads, 2 relationships, 2 resources, 2 disclosures, 3 grants or revocations, 2 admissions or derivations | admissions and derivations are traced to what they name, also with handles altered in any field (`MovementTraced`); each movement had its own authority; in the guard it has it when it commits, and admits once |
| `policy` | 2 threads, 4 operations, 1 participant, 2 scopes, 1 policy | consent is relied on exactly when given after the last change of its terms; policy changes are explained; in the guard they are authorized when they commit |
| `policy_scope` | 1 thread, 2 operations, 2 participants with a scope each | **violated**: see findings |
| `replay` | 2 threads, 2 stores, 5 events | copies are sound and begin with a whole export (`CopiesOfExports`); an export carries its decision; one import of a store is reported; in the guard an export is whole |
| `replay_torn` | same | **violated**: see findings |
| `host`, session in focus | 2 processes, 3 threads, 2 stores, 5 calls, guards not nested; fairness | one owner, counted, that releases the file with its last store, and one thread in a guard (`Ownership`); a guarded store is closed only by the thread in the guard (`GuardedStoreStays`); every call returns but for the deadlock below (`CallsReturn`) |
| `host`, pilot in focus | 2 trials, 3 limits, 2 runs, 1 edit of the sources, any answer; fairness | `SentOnRecord`, `SpendingBounded`, `ResultsEarned`, `RunEnds` |
| `host`, diagnosis in focus | every scenario of the experiment's schema in which at most one of authentication, external authority and reversibility is missing or adverse; every set of evidence kinds; 2 commits of other threads; 4 engines | `ReportEarned`, `QuietReportExact`, `RubricAgrees`, `AssessmentStands` |

`host` is one run of three components that share no state: `focus` is chosen at
the start and the other two stay as they began, so its states are the sum of
theirs. Type invariants are proved; `host` checks its own too (with the bound
`run.calls <= Len(run.rows) + 1` of the pilot's counters).

**Why these bounds.** The hazards are between two threads, or a thread and a
fault: a third thread can only repeat what the second does, since at any moment
one of them holds the lock and the properties relate at most one check with one
commit. Three events of two actors let a head, a sequence and a batch each be
overtaken. In the bridge one change of the authority comes at every place between
two checks, outside the guard or from a callback inside it, and one fault ends an
attempt that another call retries. Two calls are one that races the other from
another thread, retries it, or runs in its callback, for the same request or the
other one; the invariants and the handoff are proved for any numbers and any
nesting. Four lifecycle operations are grant, move to DISSOLVING and two racing
moves. Three unordered actors are the fewest that mask a race; three operations
also grant, block by DISSOLVING and permit again. Three changes of authority and
two calls take a reference from its disclosure to a derivation, or revoke what an
operation has checked; two disclosures are enough to confuse one with the other,
and two resources to admit one as the other. Four policy operations define, adopt
and revoke a policy while a fourth takes the authority away or adopts it in
another scope. Five events are the root, a grant, two recorded decisions (so two
exports, two bundles and two imports that race) and one that overtakes an export
or an import. Five calls open both stores, put a thread in a guard and leave two
that open or close a store against it; the third thread is the other process, or
the child of a fork. Two trials are one that goes wrong and one that must not
follow; three limits cover both, one call too few, and one unit too little; two
runs are one that dies and one started again. Two commits revoke and restore, or
change two things between two readings of a diagnosis, of which the proofs allow
any number. Every such bound is a constant (`Max...`) named in the module and set
in the `.cfg`.

Threads are symmetric, and so are the relationships and actors in `store`, the
grantors that are no participants in `permissions`, the resources in `boundary`,
and the two scopes in `policy`, where the same participant governs both; the two
runs with liveness use no symmetry. `bridge` lets the first call be one thread's
for one request (`FirstCall`): the other choices are this one with the names
exchanged. Its view leaves out what no step or property reads any more, as what a
call that has returned was given. `store` compares states by a view that leaves
out the draft of a thread that is in no commit (it is overwritten before it is
read); `policy` by one that leaves out what an idle thread was last called for (it
is overwritten before it is read) and the projection (a function of the history).
Deadlock is checked except in `bridge` and `host`, where attempts, changes, calls,
runs and commits are used up and the system stops by construction of the bounds.

**Fairness.** In `bridge`, weak fairness of what the holder of the guard does
next in its innermost call, or, between calls, of leaving a guard of its own
(`HolderStep`). It waits for nobody (it has the lock), so being scheduled is
enough; that the executor returns is the executor's contract
(`docs/execution-bridge.md`), that other callbacks do, and that a host makes
finitely many calls in its own guard and then leaves it, is assumed of the host.
Nothing is assumed there about threads that wait for the lock (Python's `RLock`
is not fair), about the clock, or about changes and faults. In `host`, weak
fairness of each thread's next step inside a call of a store, and of leaving a
guard: a thread that can go on is scheduled, and what the host does under a guard
ends. It is weak, so a thread that finds a lock taken again and again is promised
nothing; with a bounded number of calls locks are free in the end, which is why
`CallsReturn` is about deadlock and not about starvation. And weak fairness of
a run's next step: `Receive` is among them, as the client is given a timeout with
each request and an exception is an answer.

Every property has a mutant in `PROJECT.json`: a definition of the model
replaced by a plausible bug of the code, under which the property fails.

## 5. What is proved

For every number of threads, participants, requests, relationships and events,
and with no bound on histories (the `Max...` constants are arbitrary naturals).
The assumptions are the named `ASSUME`s of the modules: the distinguished values
are no members of the sets they are told apart from, and the sets are not empty.

- **`EventStoreProofs`.** `TypeCorrect`; `TransactionAlwaysExclusive`;
  `ChainAlwaysIntact`; `Refinement`. The chain alone is not inductive: a commit
  is safe because the validation made at `BeginAppend` still holds at
  `CommitRows`. The invariant `IInv` therefore says that only the lock's holder
  has rows, that they are a prefix of its batch, and that the whole batch fits
  the committed log (`RowsValidated`); plus the acknowledgement part
  (`AcknowledgedStored`). Refinement maps every step to an extension, an
  acknowledgement or a stutter. `BatchesWhole` (of every batch all events are
  stored, or none) needs that identifiers are fresh and no two threads' batches
  share one (`IdsInv`). `CommitsAlwaysFit` is by `CommitInv`: what a commit has
  read is still in the log it is validated against, the prior somewhere, the
  sequence no earlier than the prior; since the identifiers of a chain occur once,
  an event that names the head has read its sequence from the whole history
  (`BuiltFits`), so only another event can make it stale.
- **`ExecutionBridgeProofs`.** `TypeCorrect`: the types, with exactly the calls of
  the guard's owner that are past `AcquireGuard` inside its `with` blocks
  (`GuardExclusive`), and every call but the innermost of a thread in a callback
  (`Nesting`). `AtMostOnceAlways` by `ReservationInv` (a call past the duplicate
  check has its request reserved and, before the handoff, without effect, and no
  two calls have the same one; the reservation is in the append-only history,
  which is why a crash does not reset it, and a nested call for the same request
  finds it). `EntryAlwaysAuthorized` by `EvaluationInv` (what the evaluation has
  read still holds unless something was committed, and the comparison of lengths
  would notice). `EffectsAlwaysOnRecord` by `EffectInv`: a call that may still
  enter has its reservation and its authorization on record already (`Cleared`),
  and one that has entered has no result yet, so that the result it records is
  the only one. `LastCheckAlwaysLast` by `LastInv`: from the last evaluation on the
  call keeps the length of the history it read, and every commit, those of its own
  callbacks and of the calls in them included, would show: in the guarded part
  another call commits only inside a callback of this one (`OthersCommit`).
  `Refinement` to `Handoff` rests on these invariants together: the calls of the
  guard's owner say the stages of their requests and every other request is
  settled (`StagesOfHolders`); what is settled only a reservation, an entry or a
  result changes (`SettledSame`); the call that takes a step is the innermost, and
  the calls around it are around its request (`ActiveIsInnermost`, `AroundOthers`);
  whoever leaves without a result leaves a request withdrawn before the entry and
  lost after it (`HolderSettles`, `HolderLeaves`).
- **`LifecycleProofs`.** `Invariance` of the type and of `CheckedInGuard` (each
  check a guarded operation has passed still holds), which rests on the lemma
  that a recorded decision changes neither lifecycle nor authority;
  `GuardedChangesLegal` follows. `ChangesAlwaysExplained` by `RecordInv`: an
  operation outside the guard carries what it has seen, at some length of the
  history (`OperationIn`); histories only grow, so it stays seen (`Extends`).
- **`PermissionsProofs`.** `TypeCorrect`, `DelegationAlwaysExplained`,
  `RevocationAlwaysDominates`, `OnlyGrantsOpen` and `DelegationHeldUnderGuard`.
  What a key's state is depends on the causal past of its events, a recursive
  function over the history. That the function exists (`ChainsExist`), has only
  earlier positions (`AncestorsBefore`) and the same value in every longer history
  (`AncestorsStay`) is proved by induction. It follows that the record of a key is
  opened by a grant of it alone (`SameRecord`, `Opening`) and that a decision
  leaves every answer as it was (`Unaffected`, `AllowedStays`); the lifecycle
  changes with transitions alone (`SameLifecycle`). The invariant
  adds that causal parents are committed (`PastOnly`) and what a delegation under
  way has seen (`DelegationInv`).
- **`BoundaryProofs`.** `TypeCorrect`, `MovementAlwaysTraced` (from
  `AdmissionAlwaysTraced` and `DerivationAlwaysTraced`) and
  `MovementAlwaysAuthorized` by the invariant `IInv`: a thread's draft is traced
  and, once checked, was authorized at some length of the history. It is
  inductive because histories only grow (`Growth`), so what was on record stays
  (`TracedStays`, `AllowedStays`). `GuardedMovementsAllowed` by `CheckedInGuard`.
- **`PolicyConsentProofs`.** `TypeCorrect`. `ConsentAlwaysFollowsTerms`: the
  incremental projection of consent and re-consent and the whole history stay in
  step, by cases on the event committed (`ReduceConsent`, `ConsentStep`); the
  equivalence is its own induction hypothesis, one direction alone is not.
  `GuardedPolicyChangesAuthorized` by `CheckedInGuard` and `InOperation`.
  `PolicyChangesAlwaysExplained` by `RecordInv`, like the explanation of changes
  in `LifecycleProofs`; a revocation's scope is traced to the adoption it read.
- **`ReplayProofs`.** `TypeCorrect`, `CopiesAlwaysOfExports` (from
  `CopiesAlwaysSound` and `RestoredAlwaysFromExport`), `ExportAlwaysOnRecord`,
  `ReportedAlwaysOnce`, `GuardedExportAlwaysWhole`, all from one invariant. A
  copy is only extended (`Grows`), so what a listing saw stays its beginning.
  That a verified bundle has all the events of its export (`VerifiedWhole`) needs
  `Whole`: the projection of an exported bundle is taken after its events, hence
  names none of them but the last, and a shortened list of events cannot match
  it. A restored batch has a root and so fits an empty history only
  (`AppendRestores`), which is why no two threads check one restored store.
- **`HostProofs`** holds the proofs of the three components of a host and of the
  host that `MCHost` composes of them. `HostImplementsParts`: a behaviour of the
  host is one of each component, so their theorems hold in it;
  `HostTypeCorrect`.
- **`SqliteSession`, in `HostProofs`.** `OwnershipAlways` and
  `GuardedStoreAlwaysStays`, for any processes that are spawned, forked and ended
  anywhere. `Ownership` is not inductive: it says nothing of a session that is
  being created, nor of the gap between `CloseBegin` and `CloseEnd`. `SessionInv`
  adds that at most one session has its file open anywhere (`OneLock`); that a
  session of a living process counts its open stores, also when a dead or forked
  process has others (`Counted`); that a registry entry of the process's own has an
  open store (`RegisteredInUse`), without which the next store would share a
  closed connection; what a thread inside `open` and `close` relies on, the registry
  lock and the store being its own (`CallsInOrder`); and that guards are of
  different sessions (`GuardsApart`). The steps of `open` and `close` change one
  session of their own process (`OnSession`), and the rest of the invariant is
  proved for all of them at once (`OthersKept`, `SessionChanged`).
- **`Diagnosis`, in `HostProofs`.** `DiagnosisTypeCorrect` (with: the claims of
  every state are such as `register_claim` admits), `ReportAlwaysEarned` and
  `AssessmentAlwaysStands`, for any calls, any purposes and any number of commits
  meanwhile. That findings are right (`AllTraced`) is not inductive because of the
  consent that is asked for twice: the host's engine, which may allow anything, is
  asked on a later reading than the core. `Floor` says that while it is the next
  to be asked, the core has found the consent active at a moment of this call. A
  clear report needs the bookkeeping of `Cover`: a finding denies, or each thing
  the request demands is still to be checked or was satisfied at some moment; when
  nothing is left to check, it was. `Assessed` says that an assessment was made on
  a status that can since only have become contested, and `Monotone` that
  `Condition` is monotone in status and evidence. `QuietReportAlwaysExact` and
  `RubricAlwaysAgrees` rest on a second invariant, `ExactInv`: the checks left are
  in the order of `Runtime.evaluate` (`InOrder`), so one that is made on the state
  read first is made where all before it allowed (`NextInTurn`), and what does not
  allow there is one verdict (`FindsVerdict`, `Quiet`); a report has the signals
  and unknowns of that state and of the assessments (`Summed`). For the rubric the
  state is the one built from the scenario, on which the verdict and the review
  say what the eleven rules say (`ScenarioVerdict`, `ScenarioReview`, `RulesAre`),
  for any number of missing or adverse observations; the run has one at most.
- **`Pilot`, in `HostProofs`.** `PilotTypeCorrect`, `SentAlwaysOnRecord`,
  `SpendingAlwaysBounded` and `ResultsAlwaysEarned`, for any number of trials,
  plans, directories and runs that die anywhere. The invariant has two parts.
  `Past` speaks only of what is on disk and was sent; since what is on disk is
  only added to (`OnlyAdded`), every step that sends nothing keeps it (`Kept`),
  and so does a death, which loses the locals of the run. `InRun` ties these
  locals to it: rows run ahead of the trials sent, a run that has no reason to
  stop has settled all its calls (`Settled`), and a call that is started is in
  the journal. A directory is used by one run, so a new run begins with an
  empty past. On top of it `Accounts` ties the sums a run keeps, what it reserved
  and what it will report, to those of the calls of its directory, its journal to
  what was sent, and a valid row to the answer that earned it (`ValidCall`); what
  is saved or was sent for another directory no step touches (`LastingKept`,
  `EarnedStays`). Sums are a recursive function (`Total`): that it exists
  (`SumsExist`), that one more element adds to it (`TotalGrows`) and another last
  element changes it by the difference (`TotalReplaced`) is proved by induction.

Induction is over sets of numbers: the library's theorem that `<` is well-founded
on the naturals gives every set of numbers a least member (`Least`), and from it
`Induction`. The library's own induction theorems take an operator as a parameter
and cannot be instantiated with the installed provers.

Every safety invariant and action property that a run checks is a theorem. Only
model-checked is liveness (`GuardReleased`, `EntryAnswered`, `CallsReturn`,
`RunEnds`), which needs fairness and ENABLED.

The recursive function `CausalPast` of `Permissions` occurs only in the violated
claim of `races_unordered`.

## 6. Findings

- **A transition can leave `DISSOLVED`** (`lifecycle_terminal`). A transition
  DISSOLVING to ACTIVE is allowed, another thread commits DISSOLVING to
  DISSOLVED, the first commits on the new head: `core.py:281` has no check of
  its own and `_commit` reads the head afresh, so the append is not stale. The
  lifecycle is ACTIVE again although "`DISSOLVED` is terminal in this projection
  version." (`docs/lifecycle-authority.md:33`). Inside the guard it holds, and
  that is proved.
- **A masked race** (`races_unordered`). `causality.py:22` compares only the
  last grant with the last revocation: with revocations of bob and then of
  carol, and a grant of carol, all without causal parents, bob's unordered
  revocation is not looked at, and the permission is open;
  `docs/delegation-and-races.md:11` says such a race fails closed.

- **A policy adopted outside its scope** (`policy_scope`). `adopt_policy` checks
  authority over the scope its caller names (`core.py:234`) and asks only that
  the policy is defined (`core.py:235`), not in which scope, although adopting
  "requires active authority for the policy's scope"
  (`docs/policy-authority.md:12`).

- **A torn export** (`replay_torn`). `_build_replay_bundle` lists the events
  (`portable.py:122`) and reduces the state from a second listing
  (`portable.py:123`); with a commit in between, the bundle that
  `export_replay_bundle` returns does not pass `verify_replay_bundle` and
  cannot be restored, although "TRIA relationships can be exported as
  self-contained replay bundles for verification" (`docs/portable-replay.md:3`).
  Inside the guard an export is whole (`GuardedExportWhole`).

The window of the first finding (a check, then a commit on a fresh head) is in
`delegate_permission` (`core.py:159`), the policy operations and the boundary
operations (`boundary.py:94`, `:104`) too: outside the guard a delegation can
commit after DELEGATE is revoked and two threads can admit one disclosure. Those
have no run of their own; that the guard closes the window is checked in each
module, and proved in `LifecycleProofs`, `BoundaryProofs`,
`PolicyConsentProofs` and, for exports, `ReplayProofs`.

### Observations without a run of their own

- **Opening or closing a store inside a guard.** `close()` takes the registry
  lock and then waits for the session's lock (`store.py:165`, `:168`); a thread
  in a guard that opens or closes a store of the process waits for the registry
  lock. Both wait forever, and with them every other open or close of the
  process. Two threads of plain Python show it: one constructs
  `SQLiteEventStore(path)` inside `a.execution_guard()` while the other is in
  `b.close()`. Nothing in the repository rules it out or promises otherwise;
  `CallsReturn` says exactly when a call may not return (`Deadlocked`).
- **Fork.** A child holds the lock of its parent's file through the descriptor it
  inherits, so the file stays locked after the parent is gone as long as the
  child lives (`LockReleased` allows it), and the child itself can use neither
  the inherited stores nor the file: the inherited registry entry refuses it.
  `docs/persistence.md:19` calls passing stores across a fork unsupported.
- **A clear report is not a moment's truth.** What it says was satisfied was so
  at some moment of the call each, not all at one moment (`ReportEarned`);
  without a commit meanwhile it is exact (`QuietReportExact`). Enforcement is
  `execute()`, which evaluates again under the guard.
- **The rubric and the engine differ** where a request has no purpose and the
  permission is bound to one (`PurposeGap`): `rubric_decision` answers EXECUTE,
  `Runtime.evaluate` blocks. No scenario of `scenarios.json` is of that kind, and
  `RubricAgrees` holds for all others.
- **The list of signals** in `docs/TRIA_DIAGNOSTIC_INTERFACE_v0.2.md:71-74` has
  four; a contested claim with harmless evidence makes a fifth,
  `truth_integrity_uncertainty` (`diagnostic.py:178`).

## 7. What is not modelled

- **A torn record at the end of the pilot's journal**, or of a database file: a
  record is written and synced in one step. Nothing reads the journal back.
- **Prompts, packets, scores and contrasts** of the experiment, and
  `run_experiment`, which is deterministic and keeps nothing: of contrasts only
  whether there may be any (`Complete`).
- **The checks of other threads' operations in `Diagnosis`**: each is one step
  there; the windows inside them are in `Lifecycle`, `Permissions` and
  `PolicyConsent`.
- **Differentiation**: comparisons of two numbers with floors and one claim
  registered by `register_claim`; no state or order of its own.
- **Purposes, conditions and expiry** of consents and permissions, and that a
  check also asks for a valid history: they block checks that are allowed here
  and allow none, and so does a host's own engine, which is asked after the core.
  What opens a permission is a property of `Permissions` only, which therefore has
  the lifecycle and the ambiguity of races too; `Boundary` asks for the record of
  the key alone, and what it shows is that movements had it. Expiry is in
  `ExecutionBridge`, purposes are in `Diagnosis`.
- **A callback that takes the execution guard around the calls it makes** outside
  the guarded part: a guard of the host's own is around calls of level 1.
- **Provider adapters**: pure conversions; their outcomes (a request, an
  exception, a wrong result) are choices in `Translate`.
- **Hash arithmetic and canonical serialization**: hashes are collision-free
  identifiers. Tampering with rows behind the SDK is not a behaviour of the SDK;
  that a changed event is recognized is the business of `verify_hash`.
- **`types`, `errors`, `immutability`, `compat`**: immutable data without state.
- **The other evaluations, `playground/`, `examples/`**: programs that call the
  SDK in one thread.
