# A verification project for Ostadix

Ostadix evaluates documents whose blocks are written in many languages. A
document is parsed and lowered to an operation graph, the graph is analysed and
admitted, a coordinator executes it over local workers, and admitted pure
operations may be executed by a remote *fabric* provider. Around that path stand
services that keep durable state: hosted sessions, a live-system supervisor, a
store of intent runs, peer records, a request cache. This project models the
parts where threads, storage and failures meet, in TLA+: TLC checks the models
on small instances, TLAPS proves the safety of the provider, the attempt driver,
the graph coordinator, the live-system supervisor, the session store, the request
scheduler, the run store, the peer store and the pairing for every instance. Paths
below are relative to `crates/ostadix-api/src`.

## The system

| component | state | operations | how it interacts | what is hard |
|---|---|---|---|---|
| parser, OIR, plan (`parser.rs`, `ir.rs`) | none | parse, lower, topological order | feeds HGraph | sequential |
| HGraph (`hgraph/`) | nodes, edges, state versions | project from OIR, solve, derive the schedule | feeds admission and the coordinator | order of state versions |
| evidence, admission (`evidence/`, `dispatch_model.rs`) | none | choose lane, adapter, failure class | freezes a plan for the coordinator | static |
| graph coordinator (`executor/coordinator.rs`) | run state of every operation, buffered results, publications, provisional groups, trace | dispatch, accept an event, settle, run on the coordinator, two teardowns | submits to the pool, answers callbacks of workers | completions in any order, speculation, teardown |
| worker pool, tasks (`executor/pool.rs`, `task.rs`) | outstanding count, event channel, threads | submit, receive, call back with a timeout | shared by consecutive executions of an evaluator (`eval.rs`) | capacity, late events, blocked callbacks |
| fabric provider (`hosted_remote/fabric/provider.rs`) | one control state per connection thread | `handle_submission`, `handle_query` | calls the ledger and the realizer | duplicates, expiring leases, concurrent threads |
| fabric ledger (`hosted_remote/fabric/ledger.rs`) | body in memory, snapshot file, poison flag | record, accept, mark, conclude, query, open | shared by all threads, survives the process | ambiguous writes, crashes, replay |
| fabric client (`hosted_remote/fabric/coordinator.rs`, `client.rs`) | attempts by generation, deadline | submit, poll, accept a terminal candidate | a driver of the coordinator | lost answers, fenced generations |
| live system (`live_system/`) | active set with revision and history, service processes, generations, package objects and aliases | install, activate, roll back, restart, invoke, reconstruct | supervises processes, shares the store with other supervisors | crash between steps, restarts racing activations, the exchange of the active set |
| hosted remote v2 store (`hosted_remote/v2/store.rs`) | session directories, journals, authority log, archives | append, repair, publish, close, authorize and complete a collection | under the session runtime | torn writes, two-phase collection, quota |
| hosted remote v2 runtime (`hosted_remote/v2/runtime.rs`) | session record, actor, operations, reservations | submit, execute, recover, reset, checkpoint, close, restart | clients, one actor per session, the store | restart between journal records, actor loss, ambiguity |
| mesh, LAN, pairing (`hosted_remote/`, `bin/o-node.rs`) | peer records, a pairing offer | discover, pair once, replace, open, route | TLS transport, one store per user | concurrent pairing, renames without a transaction |
| intent store (`intent/store.rs`) | attempt indices, objects, staging, leases, sequence | open, begin, finalize, reconcile, retain | one per workspace, shared by processes | orphans, retention against live runs, power loss |
| request scheduler (`scheduler.rs`) | buffer, workers, disk cache | execute a batch, flush, get, put | evaluator, other processes' caches | failures of one of several, concurrent puts |
| projects (`project/`) | graph of a selection, attempt trace, cancellation tokens, a thread per route | plan, launch, settle, cancel, select, replay the trace | route processes, the evaluator | races of alternatives, failures that end or admit the next one |
| codecs, world, placement, registry | none | encode, validate, digest | everywhere | sequential |
| O-core (`ocore/`, kernel in `ocore/runtime`) | compiler; kernel tables | compile; endpoints, capabilities | separate target | a system of its own |
| ports, apps, CLIs | | user interfaces | the library | none |

What makes the modelled components correct:

* **provider and ledger**: an attempt is executed at most once, never together
  with another that shares its nonce or its coordinate; nothing is executed that
  the snapshot does not already call running; every final answer is the same
  answer; nothing durable is ever taken back; attempts are decided.
* **attempt driver**: a logical task has one current attempt, the newest, and
  yields one result, whatever is resubmitted and in whatever order old attempts
  end; a receive never waits for nothing.
* **coordinator and pool**: whatever overlaps, the run is a serial one: same
  trace, same failure, same result; effects do not cross a group's boundary;
  inputs are real values; every run returns and leaves a pool the next run can
  use.
* **live system**: the active set is a register that supervisors exchange
  atomically; a stale supervisor is always refused; a service is borne by the
  generation the active set names; whatever is acknowledged is durable.
* **session store**: it reopens after any crash; what was confirmed stays, frame
  by frame; a collected session is either live or archived, and a completion is
  final; reserves and debits are exact.
* **session runtime**: memory is what the journal says; an operation gets one
  verdict, and "not started" is true; a generation that was lost never acts
  again; state continues from the checkpoint it claims; the mandatory failure
  records always fit.
* **request scheduler**: every request of a batch gets its own answer; one
  failure does not spoil another; the cache holds whole results.
* **run store**: every index's objects are there; retention never takes a live
  run's; every orphan is settled; a settled run never changes its verdict.
* **projects**: the trace a run leaves passes the replay its readers make; a route
  runs only after its prerequisites and, unless it is admitted, never after the
  effects of a failed alternative; the result returned is the one the policy
  promises, whatever order the threads end in; every run ends.
* **peers and pairing**: a record that says it is paired is whole; no pinned identity
  changes without a replacement; a code serves one exchange and both sides mean
  the same one.

## Modules

| module | role |
|---|---|
| `FabricLedger` | the ledger's methods as operators from a body to a result |
| `FabricProvider` | connection threads, mutex, snapshot, faults, crashes; the properties and the inductive invariant |
| `AttemptRegister` | the abstract promise: attempts execute and are decided at most once |
| `FabricProviderProofs` | the theorems about `FabricProvider` |
| `MCFabricProvider` | submissions for TLC |
| `AttemptDriver` | `RemotePureAttemptDriver` over a worker pool, its properties and inductive invariant |
| `AttemptDriverProofs` | the theorems about `AttemptDriver` |
| `GraphExecutor` | coordinator, worker pool, callbacks, teardown; the properties |
| `GraphExecutorProofs` | the theorems about `GraphExecutor` |
| `SerialExecutor` | the abstract promise: operations finish one by one in ordinal order |
| `MCGraphExecutor` | a plan for TLC |
| `LiveSupervisor` | supervisors, their workers, and the active-set file they exchange |
| `LiveSupervisorProofs` | the theorems about `LiveSupervisor` |
| `ActiveSet` | the abstract promise: a register changed by compare-and-exchange |
| `SessionStore` | the hosted session store: journals, authority log, archives, on a disk that can lose writes |
| `SessionStoreProofs` | the theorems about `SessionStore` |
| `DurableLog` | the abstract promise: a log whose confirmed prefix survives and whose end is final |
| `HostedSession` | one hosted session: clients, record, actor, journal, recovery |
| `RequestScheduler` | a batch of requests over worker threads and the disk cache |
| `RequestSchedulerProofs` | the theorems about `RequestScheduler` |
| `RunStore` | the intent run store shared by processes |
| `RunStoreProofs` | the theorems about `RunStore` |
| `LanPeerStore` | the stored record of one LAN peer and its three writers |
| `LanPairing` | the one-shot pairing exchange of two nodes |
| `LanProofs` | the theorems about `LanPeerStore` and `LanPairing` |
| `ProjectCoordinator` | the coordinator of a project selection, its route threads and the replay of its trace |
| `MCAttemptDriver`, `MCLiveSupervisor`, `MCSessionStore`, `MCHostedSession`, `MCRequestScheduler`, `MCRunStore`, `MCLanPeerStore`, `MCLanPairing`, `MCProjectCoordinator` | instances for TLC |

### FabricLedger, FabricProvider

`Submission` stands for `FabricAttemptBindingV1`: the digests that tie a
submission together are its identity, and only the fields the replay indexes,
the lease and the target check read are visible (`issuer`, `attempt`, `nonce`,
`principal`, `incarnation`, `issued`, `expires`). `flaw` says which of the
thread-local checks the submission fails: authentication, or reconstruction of
its source.

Each method that mutates the ledger is an operator returning `changed`, `same`
or `error` (`MutationV1` and `Err`). `with_mutation` is in `FabricProvider`:
`WithMutation` is the call that returns, `PersistFails` the one whose
`persist_snapshot` fails with the rename done or not, `VerifyFails` the one
`lock_verified` refuses, `LedgerUnavailable` the one that finds the ledger
poisoned. An action is one critical section of the ledger mutex or the local
code up to the next one, so every interleaving of threads the mutex permits is
a behaviour. `Crash` loses memory, threads and connections; `Open` is
`FabricAttemptLedgerV1::open`, and `OpenFails` its failure after the rename.
`realized` and `final` are auxiliary: how often the realizer ran, and which final
answers were written to clients.

Clients are not modelled yet; the environment is the most general one, which
submits and queries anything, by any peer, at any time.

### AttemptDriver

An `Attempt` is a `PhysicalAttemptCoordinateV1`: a logical task and a generation.
`lifecycle` and `token` are the vector `remote_attempts` as functions (an attempt
occurs in it at most once, because reuse is refused); `running` and `ended` count
the copies of each submission before and after `worker_loop` sends its
completion. Worker order is free, so taking any sent completion covers every order
of the event channel. `PlanRemoteSubmission` is `plan_remote_submission` when it
finds nothing to refuse; `SubmitFails` is every early return of `submit`, of the
plan and of the pool. `call` is the receive the coordinator is inside of:
`DeliverRemote`, `DiscardRemote`, `AcceptLocal` and `DeliverRequest` are the
branches of `accept_event`, and `LoopOn` decides whether the loop around it goes
on. The coordinator is the most general one; today's submits each operation once,
and the driver is what makes a retry safe.

### GraphExecutor

Operations are numbered in ordinal order; an operation stands for all its
outputs, which the code always materializes and withdraws together. `Kind` is
the admitted adapter with its failure class, `Deps` the producers of its inputs,
`Member` its autonomous group (`autonomous_member`), `Region` the operations of a
group's source region. `PlanAssumption` is what the plan guarantees: dependencies
point backwards in the topological order, and a region is contiguous in it (the
order is post-order).

`pc` follows `drive`: `poll` (the `try_recv_event` loop), `settle`
(`settle_buffered_results`, one operation per step), `decide` (the branches in
the code's order), `wait` (the blocking receive), and the teardown: `drain`,
perhaps `settle` again, `discard`. `mode` tells the teardowns apart: `stop` is
`discard_started_workers` after an error at the frontier, `abort` is
`abort_after_worker_error`, which settles the prefix it can. `verdict` fixes, per
behaviour, what an operation evaluates to, so that a failure can be compared with
the serial execution; a task may in addition always end in an infrastructure
abort. `lazy` are the operations whose inputs turn out to hold an unforced Eval
request (`render_inputs_pure`).

Workers are threads of their own: `Ask`, `AskTimeout` and `TaskEnds` interleave
with the coordinator.

### LiveSupervisor, ActiveSet

A supervisor process holds what it read of the active set, its revision, and one
worker per service. The file is modelled with its two lives: what readers see and
what survives a power loss; a rename separates them until the directory is
synced. The steps of an operation are those between which another supervisor or a
crash can act: stage and health-check a worker, take the store lock, read and
compare, rename, sync, and only then swap the workers in memory. `Reconstruct` is
`reconstruct`, after a crash or after a publication of unknown outcome. The
refinement maps the visible file to the register of `ActiveSet`: every change of
it is one successful exchange of the content the supervisor compared with. A
behaviour starts from a file found on disk (`Found`: an activation and a rollback
root), so that every operation has something to act on within few revisions.

### SessionStore, DurableLog

A file is the frames readers see and how many of them are synced. A kill leaves
what was written, torn or whole; a power loss leaves, of every unsynced append,
any prefix or an incomplete frame, and of an unsynced rename the old name, the new
name or both. `Open` is the whole of the start-up: the scan, the cut of a torn
tail with its journalled intent, and the settlement of a pending collection.
A successful sync after a failed one is taken to cover the earlier bytes. The
collection of a closed session is two-phase: `authorize_closed_session_gc` signs
length and digest into the authority log, completion renames the journal into the
archive. The refinement reads a session as a log: confirmed frames are a prefix
that survives, and a completed collection ends it. A behaviour may start with closed
sessions on disk (`Found`). The history variable `fault` says what it met: `"none"` as
long as nobody was killed, however often power was lost, `"killed"` after a kill, and
`"exposed"` after a loss of power that follows a kill. The store promises nothing of an
exposed state (see below), so the properties are stated for the others (`Unexposed`);
the bound `LossAfterKill` keeps TLC from exploring what they do not speak of.

### HostedSession

`disk` is the fold `reconstruct_session` computes of the journal, `mem` the
`SessionRecordV2` the process holds; an append changes both or, when it fails,
neither. Every frame is one byte against `StateBytes`, and the reserves are small
numbers with the code's inequalities. The worker's steps are those of the actor
thread (start record, execution, terminal record), the calls of clients are
submissions, retries with the same identity, recoveries, resets, checkpoints and closes. A
crash drops memory and actors; `Restart` is `load_durable_sessions` with its
classification of what was running.

### RequestScheduler

Processes share one cache directory. Entries are inodes: a writer that holds the
temporary file it opened keeps writing into it after another process renamed it
into place. A result has one of two lengths, so that a partial overwrite is
visible. A request's function may fail, panic or ask for an evaluation on the
coordinating thread; dependents of a failed request are answered with its
failure.

### RunStore

Each process opens the store, begins a run and finalizes it. Every transaction
runs under the store lock, in the code's order: reconcile orphans, sweep leases,
collect, allocate, stage objects, publish the index, retain. Leases are locks a
dead process no longer holds. Directories have a visible and a synced state, and
a power loss chooses between them item by item. Objects count one byte each.
`left` is what remains of the faults a behaviour was given (`Budgets`).

### LanPeerStore, LanPairing

A record is a directory of files. `store` and `open` write into it under the lock in the
code's order, `replace` stages a new directory and exchanges it with two renames; each
call to the file system may fail and the process may be killed between any two. The code
never syncs these files, so no claim about power loss is made or checked. `LanPairing`
is the frame exchange of `pairing.rs` in lockstep with the verification and storage in
`o-node.rs`; SPAKE2 is external: two sides agree on a key exactly when they used the
same code for the same offer. Timeouts and lost connections may end either side at any
frame.

### ProjectCoordinator

`Projects` are resolved selections: a policy, a contract, and for each alternative
the order in which `plan_route` visits its prerequisites. `Plan` and `Graph` are
`from_bundle_with_scheduling` and `project_unvalidated`: operations in plan order,
and for each the nodes it consumes (values, completions and resource states) and
produces. A turn of the coordinator's loop is one action: `Prepare`, `SpawnRoute`,
`RunRoute`, `CompareRouteResults`, `SelectRoute`, `Receive` and `Stall` are what a
turn can do, and each ends with `cancel_race_losers` where the code does. `ValidProjection` is
`validate_projection`, which `validate_source` calls before anything runs: a plan whose
resource transitions (`ResourceInputs`) make an operation wait for a value or a
completion that is not a dependency of it is refused. A writer after a reader, and
ambient routes next to each other, are such plans. Route
threads share nothing with the loop but the token of their branch and the channel.
`Replays` is `validate_project_semantics`: it reads the plan and the events and
nothing else, so `TraceReplays` compares two independent computations, the
coordinator's memory and the reader's fold. What a route does is data: a status, a
duration where one is compared, and whether outputs agree.

## Runs

One run per module asks all its questions at once; a property is the conjunction
of the parts that make one statement, each a definition of its own with its
comment.

| run | instance | properties |
|---|---|---|
| `fabric_provider` | 2 threads; a submission, one reusing its nonce whose lease starts late and whose source does not reconstruct, one for the next incarnation under the first one's coordinate, one unauthentic; 2 entries, 2 incarnations, 2 clock values | `SingleExecution`, `DurableBeforeEffect`, `FinalRepliesAgree`, `DefensesIdle` (the ledger's own defences never fire), `DurableProgress`, `EveryAttemptDecided`, `ImplementsRegister` |
| `attempt_driver` | 2 logical tasks, 3 generations, 2 tokens, 3 slots | `OneCurrentAttempt`, `DeliveredOnce`, `SlotsExact`, `DriverProgress` (receives return, attempts are delivered or superseded) |
| `graph_executor` | 10 operations: loads, renderers, an autonomous group with nested shims, a persistent member and a foreign load, coordinator operations; 2 workers, a callback | `SchedulerSound` (inputs, expected events, slots, no stall), `EffectOrder`, `CleanReturn` (complete trace, quiet pool, a semantic failure is never hidden by an infrastructure fault), `RunReturns`, `ImplementsSerial` |
| `live_supervisor` | 2 supervisors, 2 packages, 3 digests, 4 revisions; crashes, failing syncs, power loss | `FileSound` (the file is well formed, generations are unique, what was published is durable), `RevisionDetectsStaleness`, `BearersCurrent`, `ActsAsRegister` |
| `session_store` | 2 sessions, a reserve of 2; losses of power, then kills, failing writes and syncs | `RestartAgrees` (every unexposed state reopens; heads, debits and torn tails are exact), `ConfirmedDurable` (until the first kill), `KeepsPromise` (implementation of `DurableLog` while unexposed) |
| `hosted_session` | 2 operations, 2 calls, 3 tiers, 14 bytes of state, 4 commits, 2 faults, 2 restarts | `RecordSound` (memory is the replay of the journal, and a preparation holds until its commit), `VerdictsTrue` (what ran is never reported as not started, verdicts stay), `StateKept` (fenced generations, continuous state, checkpoints hold what was promised), `HeadroomHolds`, `SessionProgress` |
| `request_scheduler` | 2 processes, 5 requests in chains, one malformed, one evaluated; a fault, a kill | `BatchSound` (answers were produced for their request, coverage, containment, nothing twice), `BatchEnds` |
| `run_store` | 2 processes, 3 runs, 2 attempts and 2 objects of retention; a kill, an outage or a failing call | `StoreSound` (objects present, live attempts protected, staged files kept, retention bounded, orphans reconciled), `PromisesKept` |
| `lan_peer_store` | 2 processes, 2 identities, an enrolment bundle; three failing calls, or one and a kill | `PeersSound` (a paired record is whole and results are true; after at most one failing call no key is left behind and, without a kill, a pairing stays), `OperationsEnd` |
| `lan_pairing` | 2 offers, 2 joiners | `PairingSound` (one use, same code, the offerer first), `ExchangesEnd` |
| `project_coordinator` | 14 selections: every policy, 2 or 3 alternatives, a prerequisite, declared reads and writes, an ambient route; two of them are refused (`ValidProjection`) and 12 start | `TraceReplays`, `EffectsFenced` (prerequisites first, leases exclusive, continuation admitted), `SelectionSound` (policies honoured, stalls explained), `RunEnds` |
| `session_headroom` | a session, an operation, a fault and a restart | expects `StaysReadable` to be violated |

The largest (`session_store`) has 1.8 million distinct states and takes two to
three minutes on two workers; every other run ends within about two.

### Bounds

Two threads suffice for every race of the ledger: a critical section relates one
thread to the shared body, and the permit argument is about pairs. Two
incarnations contain a crash at every point and the retry after it; the proofs
remove these bounds. Two clock values let a lease be premature, valid and expired
at its checks. Two workers let completions overtake each other and let both slots
be taken; the plan contains each adapter and each kind of dependency between
them. Three generations give a task a predecessor that is fenced before it ends,
one fenced after, and a current one, and three slots hold all of them.
`MaxCalls`, `MaxGeneration`, `MaxTime` and the other `Max...` constants bound
otherwise infinite behaviour and appear only in guards.

The storage models follow one rule: enough processes for a race (two; every
writer holds one lock or none, so a race is between a pair), enough crashes for a
crash during the recovery from a crash (where one is given, the recovery is
itself one transaction), and quotas so small that they bind (`Headroom`,
`StateBytes`, `MaxAttempts`, `MaxBytes`). Three failing calls in `LanPeerStore`
fail a step, its rollback, and the rollback of the rollback. Where all kinds of
faults together are out of TLC's reach (`LanPeerStore`) a behaviour draws
one of several budgets. In `RunStore` it does because a death followed by a loss of power
breaks the store, which `SnapshotDurable` shows; in `SessionStore` that order is excluded
by name (`Unexposed`), and `LossAfterKill = TRUE` lets TLC run into it.

Deadlock checking is off where a bound ends behaviours: a crashed provider at its
last incarnation, a session out of commits, a scheduler out of batches, a run
store out of run ids, a pairing out of offers; a project that ended has no more
to do. Executor, driver, supervisor,
session store and peer store are checked for deadlock.

Symmetry is used in `live_supervisor` and `run_store`, which check no liveness.

### Fairness

`fabric_provider` assumes that a thread that has work keeps taking steps:
connection threads are operating-system threads and the mutex is released on
every path. Nothing is assumed of clients, of storage, of the clock, or of the
process being restarted. `attempt_driver` assumes that tasks end (remote attempts
have a deadline, local ones are scope reads), that a receive in progress takes
the events there are, and that a coordinator with tasks outstanding comes back to
receive, which both `drive` and its teardown do. `graph_executor` assumes that
the coordinator thread runs and that a task that is not waiting for a reply ends:
backend operations carry deadlines (`process.rs`). The callback timeout is *not*
assumed to fire, so termination does not rest on it. `hosted_session` assumes
that the actor, the classification at start-up and a client's call proceed;
`request_scheduler` that a live process takes its next step; `lan_peer_store`
the same, and strong fairness of taking the advisory lock (`flock` blocks, the
holder always releases it, the kernel wakes waiters in turn); `lan_pairing` that
either side takes its step or times out, which its socket deadlines ensure;
`project_coordinator` that the coordinator thread runs and that every route ends,
which the wall-clock deadline of `spawn_route` ensures. No
crash, fault or power loss is assumed to happen or not to happen: they are
bounded.

## Proofs

`FabricProviderProofs` proves, for all submissions, observations, threads, peers
and all bounds:

| theorem | statement |
|---|---|
| `TypeCorrect` | `Spec => []TypeOK` |
| `Invariance` | `Spec => []Inv` |
| `AtMostOnce` | `Spec => []SingleExecution` |
| `WriteAhead` | `Spec => []DurableBeforeEffect` |
| `OutcomesBacked` | `Spec => []OutcomeBacked` |
| `AnswersAgree` | `Spec => []FinalRepliesAgree` |
| `DurableOnlyAdvances` | `Spec => DurableProgress` |
| `DefensesAreIdle` | `Spec => []DefensesIdle` |
| `Refinement` | `Spec => ImplementsRegister` |

The assumptions are those of the modules: the entry bound is positive,
observations are not mistaken for reasons, there is a submission and a peer, and
the bounds are naturals. Nothing is assumed finite except where the model itself
counts entries.

None of the properties is inductive alone. That an attempt runs once needs that
the permit to run it is held by one thread (`PermitExclusive`), that the holder's
submission is `Accepted` or `Running` *in the snapshot* (`PermitDurable`), that
whatever was executed is past `Accepted` in the snapshot (`ExecutedRecorded`), so
that no later `consume_and_accept` grants a second permit, and that memory is the
snapshot while the ledger is healthy (`Coherent`): this last conjunct is what
poisoning protects, and `PersistFailsUnpoisoned`, the mutant without it, breaks
it. `NoCollision` extends the argument to submissions that share a nonce or a
coordinate. `AnswersDurable` ties every final answer, written or on its way, to
the snapshot, and since terminal entries never change (`DurableOnlyAdvances`)
answers agree. The proof has one lemma per group of actions; each is a case
split on the ledger operator the action applies.

`AttemptDriverProofs` proves, for all tasks, tokens, generations and capacities:

| theorem | statement |
|---|---|
| `DriverTypeCorrect` | `Spec => []TypeOK` |
| `DriverInvariance` | `Spec => []Inv` |
| `CurrentAttemptUnique` | `Spec => []OneCurrentAttempt` |
| `AtMostOneDelivery` | `Spec => []DeliveredOnce` |
| `NoUnknownCompletion` | `Spec => []CompletionsKnown` |
| `AwaitedInFlight` | `Spec => []ActiveInFlight` |
| `SlotsAreExact` | `Spec => []SlotsExact` |

The assumptions are a positive capacity and that the mark of local tasks is not an
attempt. That a task is delivered once rests on `OneCurrentAttempt` (so there is no
second attempt to deliver) and `DeliveryRecorded` (the count is what the map says);
that a completion is always known rests on `ActiveInFlight` and `LocalInFlight`,
which in turn need `TokensBound`: tokens and logical tasks correspond one to one,
and no token is both local and remote. There is one lemma per action.

`SlotsExact` counts the tasks of the pool with multiplicities, which would be a sum. The
invariant makes the sum a cardinality: no task is both on a worker and in the channel, or
in the channel twice (`HeldOnce`), so the slots are as many as the members of `Held`, and
a submission, an end and a receipt add, keep and remove one member (`Counted`).

`DefensesAreIdle` needs a second invariant, `Defended`: every body is within its
bound, what is incomplete in it belongs to its own incarnation, and a thread past
its first target check has a target that stays valid, because the incarnation of an
open ledger does not change. From it every defensive refusal has nothing to refuse.

`GraphExecutorProofs` proves, for every plan (any number of operations, groups,
adapters, dependencies on earlier operations, verdicts) and every number of workers:

| theorem | statement |
|---|---|
| `ExecutorInvariance` | `Spec => []Inv` |
| `SchedulerIsSound` | `Spec => []SchedulerSound` |
| `EffectsAreOrdered` | `Spec => []EffectOrder` |
| `ReturnIsClean` | `Spec => []CleanReturn` |
| `ExecutionIsSerial` | `Spec => ImplementsSerial` |

`PlanAssumption` is what lowering and admission guarantee: dependencies point
backwards, a group's region is an interval that contains its members, and a shim
belongs to a group. `Inv` says what each stage of `drive` and of the two teardowns may
find (`Stage`), ties the state, the task, the outcome and the visible outputs of one
operation together (`OpSound`), allows one completion of a task in flight and nothing
of any other in the channel (`ChannelSound`), makes the trace the list of settled
operations (`TraceSound`) and the slot count the number of operations in flight.
`Verdict` is the part without which `CleanReturn` is not inductive: once the result is
an infrastructure error, the first operation that did not finish has not failed and
never will. The refinement adds that the finished operations are a prefix of the plan in
plan order (`Prefixed`). The abstract log is therefore read off the trace by position
(`FinishedAt`, `Nth`) rather than by filtering a sequence, and where an induction over
operations would be natural the proof takes a least operation (`LeastOp`).

`LiveSupervisorProofs` proves, for any number of supervisors, packages, services and
manifests and all quotas:

| theorem | statement |
|---|---|
| `SupervisorInvariance` | `Spec => []Inv` |
| `FileIsSound` | `Spec => []FileSound` |
| `RevisionIsComplete` | `Spec => []RevisionDetectsStaleness` |
| `BearersAreCurrent` | `Spec => []BearersCurrent` |
| `FileActsAsRegister` | `Spec => ActsAsRegister` |

Assumed are a manifest per digest with at most one service at a position, natural
quotas (`SupervisorAssumption`), and that the set found at the start is sound
(`FoundAssumption`), which `reconstruct` checks before it uses one. `Good` is the
shape of a set: records are those of their manifest, a service has one owner and no
generation occurs twice. It holds of the file, of what a power loss leaves, of every
memory and of every proposal. A proposal is also related to the memory it was computed
from (`Proposed`): it renews a record or replaces one with the next generations. Since
memory that carries the file's revision is the file, in all that an exchange reads
(`Seen`), an exchange that passes the revision check applies exactly that change to the
file.

`SessionStoreProofs` proves, for any number of sessions and frames, any reserve and any
number of kills and of losses of power:

| theorem | statement |
|---|---|
| `StoreInvariance` | `Spec => []PowerSafe` |
| `ConfirmedIsDurable` | `Spec => []ConfirmedDurable` |
| `StoreIsSound` | `Spec => []StoreSound` |
| `RestartIsExact` | `Spec => []RestartAgrees` |
| `PromiseIsKept` | `Spec => KeepsPromise` |

`ConfirmedIsDurable` is about losses of power up to the first kill; after a kill it is
false, as `PresentedDurable` shows. `RestartIsExact` and `PromiseIsKept` say nothing of
a state that is exposed (a loss of power after a kill): there a start may fail. Per
session its invariant, `Durable`, says that what was confirmed is synchronised under a
durable name (`Kept`), that an archive exists only of a session whose authorization is
durable (`Archives`), when names may differ from the durable ones (`Settled`), and what
a presented session and a mutation in flight rest on (`Presented`, `InFlight`). Across
sessions it says what each step of a collection has already made durable (`Collecting`),
that an unsynchronised authority frame is believed only if it is a repair (`Believed`),
and that a completion is written, and stays, for a session that is gone (`Completing`,
`Final`). `Believed` is what makes a power loss during a collection harmless: no archive
rests on an authorization that the loss can take back.

`RestartIsExact` needs a second invariant, which kills keep as well: `Sound` relates
files, names, cached heads, the debit and the mutations in flight. A loss of power keeps
`Sound` only because of `Durable`, which holds until the first kill, and of `Lasting`: a
retired session, and every session while no node serves, is durable to its last frame,
so what the loss cuts off is what no later frame rests on. The debit is a fold over the
authority journal. What the fold does when a frame is added or a tail is cut is an
induction over its length, which the provers cannot instantiate; the lemmas take the
least length at which the claim would fail instead, since a non-empty set of naturals
has a least member. The refinement of `DurableLog` follows from the three invariants:
its log is the file of a session, its confirmed prefix what was acknowledged, and each
action is shown to be a step of it or a stutter, one lemma per group of actions.

`RequestSchedulerProofs` proves, for any number of processes, requests and threads and
any bounds on batches, faults and kills:

| theorem | statement |
|---|---|
| `SchedulerInvariance` | `Spec => []Inv` |
| `BatchIsSound` | `Spec => []BatchSound` |

Assumed (`SchedulerAssumption`): finitely many requests and processes, and that the
source relation is well founded, that is, every non-empty set of requests has one whose
source is outside it. The code builds a request from a source that exists already
(`Request` owns its source by value), so a cycle cannot be constructed. The closure of a
flush is defined as the least set that contains the roots and is closed under sources,
which is what the depth-first collection computes. `Inv` has two halves. Of the disk: an
inode belongs to one key whatever opens and renames have made of its names (`Owned`), and
a file that parses holds a result of that key (`Contents`). This is why an answer from
the cache is a result of its request although two processes share the temporary name of
a key. That a fresh inode exists for every create is a counting argument. Of a batch:
how its closure is split into looked-up, pending, running, resolved and failed requests
(`Split`, `Wave`), and how often each ran (`Counted`). A batch that stops with requests
left over has contained its failure: were one of those untouched by it, the well-founded
source relation would give a first one, and that one could have run.

`RunStoreProofs` proves, for any number of processes, run ids and planner snapshots and
any limits of retention, where `OneFate` says that a behaviour has either losses of power
or deaths and failing calls, any number of them:

| theorem | statement |
|---|---|
| `RunStoreInvariance` | `OneFate /\ Spec => []Inv` |
| `RunStoreIsSound` | `OneFate /\ Spec => []StoreSound` |
| `PromisesAreKept` | `OneFate /\ Spec => PromisesKept` |

`OneFate` is needed: with a death and a later loss of power `StoreSound` is false
(`SnapshotDurable`, below). Assumed are a finite set of run ids (they are 256-bit
values) and natural limits. The invariant has a part for the directories and a part for
each process. `Good` is a directory that can be restarted from: within the limits, every
object it names present, sequences distinct, the order and the results that were
returned still in it. It holds of the visible directory always and, where power may be
lost, of the one on disk (`Durable`); between transactions the two are equal and inside
one they differ in at most one attempt, so that whatever a loss of power keeps is one of
the two. `Flushed` says the same of the objects: a publication that finds its object in
place syncs nothing, so the object must have been on disk already. `Local` follows a
process through its program points: the lease and the staged files of its attempt
(`Leased`), the attempt it is ending (`Ends`), what it has published before an index
names it and the room that retention made (`Published`), that the attempt it begins is
new (`Fresh`), and which orphans it still has to reconcile (`Reconciles`). The proof is
by rely and guarantee: `Rely` says what a step leaves to every other process, one lemma
shows that this keeps `Local` of the others, and each action proves `Local` of its own
process and `Rely` of the rest. The store's lock makes `Rely` easy for most steps; the
steps outside it (staging, unlocking and unlinking a lease) are where `Leased` and the
distinctness of run ids are used.

`LanProofs` proves, for any number of processes and identities and any budget
of failing calls and kills:

| theorem | statement |
|---|---|
| `PeerStoreInvariance` | `Spec => []Inv` |
| `PeersAreSound` | `Spec => []PeersSound` |

Assumed: paired and enrolment material differ, paired material carries a receipt key,
and the marks of an absent file, directory or process are none of the real ones
(`MaterialAssumption`, `BoundsAssumption`, `AbsentAssumption`). The lock is held by
exactly the process inside an operation, so `Holding` can describe the directory at each
program point of that process: untouched, written up to a file, swapped out, swapped in,
or abandoned with what the rollback left. That a rollback restores the pairing it found
rests on `FoundPaired` and on counting the failures of the operation against the budget.
`PeersSound` holds of every state, but two of its parts are conditional: `KeysContained`
speaks of operations that met at most one failing call, and `PairingStays` of behaviours
without a kill and with at most one failing call.

It also proves, for any number of offers and joiners:

| theorem | statement |
|---|---|
| `PairingInvariance` | `PairingSpec => []PairingInv` |
| `PairingIsSound` | `PairingSpec => PairingSound` |

Assumed is only that the mark of no frame is neither an offer nor a joiner. An offer
serves one connection (`ServedOnce`, `AcceptedServed`), so the frames under way belong to
one joiner (`OfferFrames`); with the wrong code a joiner stops at the first
confirmation and the offerer before its commit (`WrongCodeStops`), and a stored record
names an offer that served its joiner (`RecordsEarned`).

Every property these theorems state, the four refinements included, is checked by TLC
on the instances above as well. The type invariants, the
inductive invariants, `OutcomeBacked`, `CompletionsKnown` and `ActiveInFlight` are left
to the proofs; the inductive invariants were found with TLC on the instances above.

Only model-checked:

* liveness under fairness, which is out of this prover's reach: `EveryAttemptDecided`,
  `DriverProgress`, `RunReturns`, `SessionProgress`, `BatchEnds`, `OperationsEnd`,
  `ExchangesEnd`, `RunEnds`;
* what is a fold over a sequence, and would need an induction over data: `TraceReplays`
  (the replay of the trace) of `ProjectCoordinator` and `RecordSound` (memory as the
  replay of the journal) of `HostedSession`;
* what is not proved yet: `VerdictsTrue`, `StateKept` and `HeadroomHolds` of
  `HostedSession`, whose invariants rest on `RecordSound`; `EffectsFenced` and
  `SelectionSound` of `ProjectCoordinator`.

## What the checks say about the code

One run expects a violation. It states what a document of the repository says and
shows a short behaviour of the code that disagrees; `PROJECT.json` quotes the
lines.

* `session_headroom`: a crash between `ActorStateLost` and `OperationInterrupted`
  counts the bytes of the former twice, and the next start refuses the session.

Modelling met more places where the code and its words differ. The models show
each of them; where the statement is a definition it is named, its comment says
that it does not hold, and adding it to the module's configuration gives the
behaviour.

* `live_system/supervisor.rs:596`: activating the digest that is already active
  acknowledges a rename whose directory sync failed (the comment at line 1806
  promises both barriers before an acknowledgement).
* `hosted_remote/v2/store.rs:784`, `PresentedDurable`: a start presents, and
  confirms to a client that repeats its request, frames and sessions a killed
  process never synced; a collection may be authorized over such a journal
  (`authorize_closed_session_gc` syncs nothing of it) or rest on an authorization
  of that kind, and a loss of power then makes every start fail. With
  `LossAfterKill = TRUE`, `Reopens` as an invariant gives the behaviour.
* `hosted_remote/v2/store.rs:1693`, `CompletionReachable`: a tail repair between
  the authorization and the completion of a collection spends the reserve the
  completion needs.
* `hosted_remote/v2/runtime.rs:6293`, `AmbiguousBlocks`: an actor-loss recovery
  makes a session ready that still holds an ambiguous operation, which nothing
  can resolve any more.
* `hosted_remote/v2/runtime.rs:3975`, `JournalReadable`: a recovery admitted after
  startup could not fence a lost actor writes a journal that no start can replay.
* `scheduler.rs:151`, `CacheWhole`: two processes share the temporary file of a
  key, so an entry can be empty or overwritten; a reader takes it for a miss
  (`AnswersProduced`, a part of `BatchSound`, holds).
* `intent/store.rs:1220`, `Undisturbed`: a lease unlinked outside the lock makes
  another process's open or begin fail.
* `intent/store.rs:1377`, `SnapshotDurable`: a process dies after it renamed a terminal
  index and before it synchronized `attempts/`. The next process to open the store
  deletes the planner snapshot that only the replaced index named, and synchronizes
  that; a later loss of power can restore the running index without its snapshot. The
  comment at line 1378 promises that "a superseded snapshot stays durable until the
  terminal index is committed". `StoreSound` is therefore stated for behaviours with
  deaths or with losses of power.
* `hosted_remote/lan.rs:1119`: a kill between the two renames of a replacement
  leaves no pairing; `PairingStays` is stated for behaviours without one, and
  `PeersSound` shows only that the record is then not a mixed one.
* `bin/o-node.rs:1310`, `ReplacePermitted`: the choice between store and
  replacement is made before the lock.
* `bin/o-node.rs:993`, `BothSaved`: the offering side reports that both nodes
  saved when the joiner may not have.

All checked properties hold. Some of them show that code is defensive rather than
needed: `validate_body` never refuses what a ledger call computed and the
`target-binding-stale` rejections of a recorded attempt are unreachable
(`DefensesIdle`); `drive`'s stall branch and the "invalid state" and "invalid task
token" errors are dead (`SchedulerSound`), and so are the driver's "unknown remote
attempt" and "multiple active task generations" errors (`CompletionsKnown`,
`OneCurrentAttempt`). `EveryAttemptDecided` is stated only for a healthy ledger for
a reason: after an ambiguous write no attempt is decided until the provider is
restarted.

## What is left out

* Connection loss in the driver of the coordinator (`recv_event` returning an
  error): the local pool cannot produce it, because `worker_loop` turns panics
  into completions and holds a sender while it runs. It belongs to the remote
  driver.
* Cryptography, encodings, the realizer and file-system hardening: their verdicts
  are nondeterministic inputs.
* The wall clock never runs backwards in the model.
* A panic inside a ledger critical section (the mutex' own poison) is covered by
  `VerifyFails`, which has the same effect.
* `record_abandoned` (tests only).
* **Live system**: the object store (`live_system/store.rs`), whose publication the
  supervisor takes for granted; the manifest grammar, payload hashing, the activation policy and
  the codec of the worker protocol are verdicts.
* **Session store and runtime**: migration between providers, lease nonces and the
  placement-refusal journal, admission of new sessions, quotas across sessions,
  publication of immutable blobs, status views. A refusal by the total quota
  changes nothing and is not an action.
* **Scheduler**: the scheduler without a disk cache, and the fork of group
  requests in `eval.rs`, which shares only the cap on parallelism.
* **Run store**: read-only inspection, the record schema, the decisions of
  `reuse.rs`.
* **Projects**: progress observers, the legacy runtime (`run_selection`,
  `run_route`), world-bound launches and deployment digests, receipts and their
  measurements, bundle discovery and the resolution of a policy.
* **Peers**: discovery over UDP, the bootstrap service, node selection and the
  routing of the project mesh.
* **Not modelled at all**: the parser, the value and world codecs, evidence and
  admission, the realization planner, the compilers (`olangc`, `ocore/`), the
  ports and the command lines. They are sequential transformations of large data
  structures, tested by round trips and golden files; a TLA+ model of them would
  transliterate the program. They make up most of the repository's lines, which
  is why the map covers a small share of it.

## Plan

1. Proofs still open: `EffectsFenced` and `SelectionSound` of `ProjectCoordinator`; the
   parts of `HostedSession` that are not folds, once the replay of the journal is stated
   as a relation between consecutive records.
2. The object store of the live system; the fabric client composed with
   `FabricProvider` (it submits once and polls, so what it can observe is already
   `FinalRepliesAgree` and `EveryAttemptDecided`); migration of hosted sessions;
   HGraph state versions as a source of plans for `GraphExecutor`.
