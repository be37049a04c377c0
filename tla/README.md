# Verification of the execution core of Unica

TLA+ models, TLC instances and TLAPS proofs for the parts of Unica
that decide whether a tool call runs, how often it runs, and what its caller is
told afterwards.  The models follow the Rust code under `src/crates/`;
`PROJECT.json` maps every definition to the lines it stands for.

## The system

Unica is an MCP server for 1C development.  A thin front end talks to a long-lived
daemon.  The daemon accepts an *invocation*, records it durably, runs it in a
worker, and answers with a result (*Direct*) or, past a time limit, with a *Task*
that can be observed later.  A client that lost an answer repeats the request
under the same key.  A caller can cancel at any time, also before its request
arrives, and confirms (*acknowledges*) a Direct result so that it may be dropped.

| Part | Where | State, and what may change it |
| --- | --- | --- |
| Receipt store | `unica-execution/src/receipt_store.rs`, `receipt_store/*` | One row file per key, a generation file, a catalog in memory; about twenty operations under one mutex, and recovery at open |
| Receipt runtime | `receipt_runtime.rs`, `receipt_ledger_actor.rs` | Workers, cutoff timers, cancel commands, startup reconciliation; it calls the stores |
| Task store, lifecycle links | `task_store.rs`, `lifecycle_link_store.rs` | Durable Task records and the link from receipt to Task |
| Execution contract | `unica-execution-contract/src/lib.rs`, `storage.rs` | None: a pure decision on one invocation's record |
| Execution coordinator | `unica-execution/src/coordinator.rs`, `coordinator/*` | One slot per invocation, its queue, its pending commit; permits handed out |
| Execution file store | `unica-execution/src/store/*`, `unica-workspace/.../execution_store.rs` | A namespace directory with its bootstrap files, two locks, one row file per invocation |
| Shared work | `unica-work-control/src/shared_work.rs` | A registry of running producers by exact key, with leases |
| Cancellation token, processes | `unica-work-control/src/cancellation.rs`, `unica-process` | A signal, a gate in front of protected effects, two recorded facts |
| Daemon | `unica-daemon`, `unica-coder/src/daemon` | Endpoint ownership, connections, client retries |
| Workspace | `unica-workspace` | An actor per workspace; the compile transaction, a multi-file apply with rollback |
| Artifact delivery, LSP, bootstrap | `unica-artifact-delivery`, `unica-lsp`, `unica-bootstrap` | Downloads, documents, installation |
| Designers, parsers, formats | `unica-*-designer`, `unica-bsl*`, `unica-xml-format`, ... | None: transformations of data |

There are two execution cores.  The receipt store and its runtime serve the
product today.  The contract and the coordinator are their successor; the rules
`arch/rules/runtime/execution-authority.md` and `execution-delivery.md` describe
them, with the note that the productive routes are not connected yet (#1743).
Both are modelled, because the guarantees are the same ones: an invocation starts
at most once, a recorded fact is not withdrawn, and a crash loses nothing that
was answered.

## Modules

**SharedWork** models the single-flight registry.  A step is one critical section.
`entries` is the registry (weak references, so an entry lives while some actor
holds it: `Strong`), `owners` and `requested` are the ownership record, `cancelled`
the producer's signal, `state` the entry's result, `pc` and `at` the place of every
thread.  The registry mutex is explicit (`lock`) where the code nests another mutex
inside it.  `JoinLookup`, `JoinStart`, `JoinAttach`, `SpawnProducer` and
`SpawnFails` are `join_or_start`; `Wait`, `WaitTimeout`, `DropLease` and
`SignalCancel` the lease; `Finish`, `Notify` and the `Retire*` steps the end of a
producer.  The constant `OwnerBound` is the code's lifetime policy.

**SharedFlight** is what the registry promises, without threads, mutexes or
references: one flight per key, shared by whoever asks meanwhile, one outcome for
all sharers, a stop only after the last of them left.  **SharedWorkRefinement** maps
the registry to it: a key's flight is the entry the registry names, its sharers the
clients whose lease counts.

**ExecutionContract** is the pure function `decide`: `Decide(k, s, e)` gives an
error, nothing, or the next state with its intent and the payloads to store.  One
operator per event (`DecideSubmit`, `DecideCancel`, ...).  `Extends` is the rule by
which the storage layer admits a successor record; `FromRecord` rebuilds a state
after a restart.

**ExecutionCoordinator** is the single owner of all invocations.  Each public
method is a step.  Beside it run the storage adapter (`Publish`, then one of the
`Complete*` resolutions: committed, rolled back, read back, failed, unknown), the
workers that hold permits, the callers, and restarts (`Crash`; `Reopen` after a
quiescent close, in the same process, where old permits survive).

**ExecutionDelivery** extends the coordinator with the body reads of
`hydration.rs`, which leave the decision loop between prepare and complete, and
with the front end's choice between a built Direct response and a Task.

**ReceiptLedger** is the receipt store.  `disk` and `generation` are what a crash
leaves, `catalog` and `unavailable` are in memory.  Every mutating operation first
publishes a row (`PublishRow`), then the generation (`PublishGeneration`), then
settles (`Settle`): the acknowledgement witness becomes a tombstone, a deletion
witness is unlinked.  `op` is the operation that holds the writer mutex.  `Fail`
latches the store after a storage error at any point; `Crash` may follow any step,
and recovery (`HealGeneration`, `HealAcknowledgement`, `HealDeletion`) is itself a
sequence of durable steps that a crash may cut.  Each lifecycle operation is an
action under its own name.  `issued`, `answered` and `inflight` are history.

**TaskRecords** holds the three durable records of one invocation, the receipt row,
the Task and the lifecycle link between them, and the versioned writes that their
stores accept.  **ReceiptRuntime** is the runtime of one invocation above them.  Its
threads are the session handler that answers the call, the pipeline worker that
admits, binds, begins and hands over, the inline worker that executes, and a cancel
command by key or by Task; `pc`, `ver` and `rec` are where a thread stands and what
it has read.  `slot` is the cell through which handler and worker settle who owns
the call at the cutoff, `token` the registered cancellation.  An execution begins and
returns in two steps (`InlineStart` and `InlineReturn`, `Execute` and `ExecuteReturn`),
so cutoff, cancel and stop can come while it runs; `Returned` classifies its end by the
token, the stop and whether it left facts behind, which `authority` keeps.  Every store
call is a step of its own and may fail (`Fail`), which in the code either fails the call
or latches the stop of the whole process; a failed call of another invocation latches
it too (`StopElsewhere`).  **ReceiptRecovery** adds the crash, the exit
of a latched process, and the startup that reconciles the three stores before it
listens.  The startup's writes are steps too, so that a second crash can cut it.

**ProtectedDispatch** is the cancellation token with the code that makes it matter:
the spawn and the poll loop of a managed process, the handoff of a launched client,
the execution of a saved apply plan, and the classification of an outcome.  Raising
the signal and crossing the dispatch boundary take the same gate.  A stop of the
process raises the same signal as a client's cancel.  A plan's publication commits,
changes nothing, is refused, or leaves an incomplete rollback (`Publications`); the plan
keeps its result and repeats it to a later call.  Only a commit is recorded as a fact:
the error of an incomplete rollback stays cancellable in the code, so a cancel may
replace it, and `EffectKept` does not cover it.

**CompileTransaction** is one saved apply: prepare, publish one path after another
by one file-system call each, validate, finalize, or take everything back.  A path
has four names (target, recovery, quarantine, stage), a name holds an inode, an inode
the bytes: a hard link gives an inode two names.  `published` lists what was published,
newest first, which is the order in which the rollback visits it.  The rollback looks
again at what it moved aside: a file it cannot confirm is put back as foreign.  The
clean-up after either end covers staged files, recovery directories and the parent
directories made for the plan, and any of them may stay behind.  The publication lock is
advisory, so `Edit` writes, replaces or deletes a target between any two steps, and every
step may meet an I/O error.

**ExecutionFileStore** is the execution file store on a device that loses power.
`boot` and `rows` are the entries a process sees; `bootMaybe` and `rowsMaybe` hold
what a power loss may leave of each, and a directory sync makes them one.  `gate` and
`lease` are the two file locks, which a process loses when it dies.  `ResolveFresh`,
`Place`, `Flush` and `Open` make and open a namespace, `Scan` and `Recovered` load
it, `StartCommit`, `Seal`, `Rename`, `SyncRow` and `Answer` publish one row.
`FailBefore` and `FailAfter` are the two answers to an error of a write, `BootFails`,
`OpenFails` and `ReadFails` the errors of making, opening and reading.  `Show` answers a
read, and a commit that expected another revision.  `Drop` leaves a worker behind that
still publishes.

`MC*` modules and `.cfg` files give the instances, `*Proofs` modules the theorems.
`ExecutionRightsProofs` holds the first half of the argument about the coordinator's
rights, `ExecutionDeliveryProofs` the second half and the result delivery.

### How they fit together

The runtime takes each call of a store as one atomic step that may fail, which is
what `ReceiptLedger` and the thread in front of it provide for the receipt.  The
coordinator takes a commit as one step with an unknown result and a restart as a
reading of the stored records; `ExecutionFileStore` shows how far the files provide
that: a confirmed commit holds and a refused one never appears (`AnswersHold`), one
process at a time has the namespace (`OwnerSeesDisk`), but a row may be shown before
it is safe (see Divergences).  The outcome that the runtime's inline worker reports is
the one `ProtectedDispatch` classifies.

A definition whose comment begins with "Variant" is a plausible defect of the
definition after it.  Nothing in a specification uses it: it takes the
definition's place to see that a property notices the difference.

## What the runs check

| Run | Instance | Question |
| --- | --- | --- |
| `shared_work` | 2 clients, 2 entries, 1 key, owner-bound | Does at most one attempt run for a key, is every step of the registry a step of the abstract service, and is no wake-up lost: the cancel signal, the end of a wait? |
| `coordinator_join` | a read and a joining request, 2 epochs, 2 events behind a commit | Is the confirmed record the stored one, is a reported outcome kept, is a shared run cancelled exactly when all its holders cancelled, and is nothing left without an owner? |
| `coordinator` | 2 mutations with one task id, 2 owners, 3 epochs | Does an attempt start at most once over repeated restarts, do its stored facts stand, can the catalog always be recovered, does a reported outcome become durable and recovery end? |
| `delivery` | a read and a joining request | Is everyone told the same result, and is nothing shown as Direct after its acknowledgement? |
| `ledger` | 2 keys, 6 mutations, 2 crashes | After a failure or crash at any step: is no sequence reused, does what was answered survive, do cancellation, begin and terminal stand, does the store open again? |
| `ledger_collision` | 3 keys sharing ids, 1 crash | Do the rows stay recoverable when an admission reclaims other receipts and stops half way? |
| `recovery` | 1 invocation, 2 cancels, 1 failed store call, 2 crashes | Is there one home for the call, one execution, an end that tells what happened; does a staged terminal win, does a cancel reach the Task; does a startup settle what it finds, refusing only for known reasons; is every call answered and does it come to an end? |
| `recovery_lag` | 1 cancel, 2 crashes | Does a startup that was cut off reconcile Task and link? Ends in a counterexample. |
| `dispatch` | 2 calls of any kind | Is a recorded effect never reported as cancelled, is Cancelled told only to a client that asked, does nothing start behind a cancel, and does a cancelled read end although its process hangs? |
| `compile` | a create, 2 replaced files, a removal, a guard; 2 edits, 2 errors | Are neither original nor foreign bytes lost, and does the reported outcome say what the files hold? |
| `compile_leftover` | the same plan | Does a leftover of the clean-up keep the kind of the error? Ends in a counterexample. |
| `store` | 2 processes, 1 key, 3 commits, 2 bootstraps, 1 kill, 1 power loss, 1 error | Does what a commit answered hold, and is the one owner's cache the directory? |

`CallSettles` of the run `recovery` promises an end or, after a second crash, a
startup that refuses: the divergences 1 and 5 below are such refusals.
`RefusalsKnown` says that they are the only reasons for which a startup refuses,
apart from a failed store call.

### Bounds

Every bound is a constant whose comment begins with "bound".

- `SharedWork`: two entries of one key let one retire while a second is registered
  for the client that joins meanwhile; two clients let one leave while the other waits
  or joins.  Keys do not interact except through the registry mutex.  Entry identities
  are reused once freed, so behaviours are not bounded in length.  Safety and the
  refinement are proved for any number of each.
- `ExecutionCoordinator`: `MaxQueue` 2 puts an outcome behind another event behind a
  commit; `MaxEpoch` 2 and 3 give one and two restarts, hence a recovery and its
  interruption; `MaxGeneration` 2 lets a holder leave and join again.  The two
  mutations of `coordinator` have a task id in common, so one is refused wherever the
  other holds the id, also after a restart that claims only what is stored.
- `ExecutionDelivery`: one read per key in flight, and no queue.  Two reads of one
  key do not interact, since completion consults only the coordinator.
- `ReceiptLedger`: six mutations take one receipt through submit, bind, begin,
  terminal, acknowledgement and reclamation, or two receipts half way; two crashes
  give a crash within the recovery from a crash.  The theorems below do not depend
  on these numbers.
- `ReceiptRuntime`: invocations do not share rows, links or Tasks, so one is enough.
  Two cancels let one come by key and a later one by Task, or repeat; two crashes cut
  the startup that repairs the first one.
- `ProtectedDispatch`: tokens are independent; two calls meet only on the lane of a
  saved plan and on the stop of the process.
- `CompileTransaction`: two replaced files give a file published before and one not
  yet published when a step fails.  Two edits can hit the same path twice or two
  paths, and two errors let the rollback fail as well.
- `ExecutionFileStore`: three commits give a confirmed row, one in flight and one by
  the next owner; two processes give an owner and a successor or a rival.  Rows of
  different keys do not interact.  The theorems do not depend on these numbers.

Deadlock is checked for the compile transaction, which always returns, and not for
the others: a producer may wait for ever for a cancellation, an owner that failed in
its last epoch does nothing, and so do a latched store, a finished invocation and a
file store whose bounds are spent.

### Fairness

- `SharedWork`: weak fairness of threads that are inside the registry's code.
  Nothing is assumed of the work itself, and callers need not wait or leave.
- `ExecutionCoordinator`: weak fairness of each key's commit, published and then
  confirmed.  The storage worker serves its queue in a loop; a store that fails for
  ever stops the owner, which both properties allow.
- `ReceiptLedger`: weak fairness of recovery.  `open` runs it to the end or returns
  an error; crashes are bounded.
- `ReceiptRecovery`: weak fairness of each thread, of the startup and of the exit of a
  latched process, which is started again.  That an operation which was entered returns
  (`InlineReturn`, `ExecuteReturn`) is an assumption: the code gives it no deadline of its
  own.  Cancels, failed calls, a stop from another call and crashes are free to happen or
  not.
- `ProtectedDispatch`: weak fairness of the threads and of a cancel that was asked
  for.  None of the process: it may hang for ever.

## What is proved

TLAPS checks these for every value of the constants that satisfies the named
assumptions, with no bound on keys, clients, entries, crashes or mutations.

**SharedWork** (`SharedWorkProofs`; assumptions `ActorsDistinct`,
`LifetimeIsBoolean`, `FinitelyManyClients`, `SomeKey`): `TypeCorrect`,
`SingleFlightHolds`, `OwnersExactHolds`, `RegistrationHolds`,
`CancelSparesOwnersHolds`.  None of these properties is inductive: that the
registered entry is the leased one depends on where a thread in retirement stands
and on who holds which mutex.  `IInv` adds that a thread past a check still holds
what it checked: who holds the registry mutex (`LockHeld`, `LockedCurrent`), that a
running entry has its producer or a client about to spawn it
(`RunningHasProducer`, `SpawnOnce`), that a thread past the terminal check works on
a finished entry (`PastTerminalCheck`), and that the owner count is the
cardinality of the set of leases (`OwnersCounted`).  `NextInv` has one
named step per action.

**SharedFlight** (second part of `SharedWorkProofs`; the same assumptions):
`ImplementsSharedFlightHolds`, the registry implements the abstract service.  The
initial states map to the initial state, and one lemma per abstract step says what
the registry must have done for it: joining a live entry is `Share`, registering a
new one `Start`, finishing `Settle`, returning from a wait `Receive`, dropping a lease
`Depart`, removing the registration `Forget`; everything else leaves the abstract
state alone.  Besides `IInv` this needs only that a wait which returned stands on a
finished entry (`WaitedSettled`).

**ReceiptLedger** (`ReceiptLedgerProofs`; assumption `LedgerAssumption`):
`TypeCorrect`, `RecoveryAlwaysAccepts`, `CatalogAlwaysMirrors`,
`SequenceAlwaysFresh`, `FactsAlwaysStand`, `CancelAlwaysStopsBegin`,
`TerminalAlwaysStands`, `ReopenAlwaysExact`.  `TerminalAlwaysStands` assumes
`Retained = {}`: with a retained task the property is false (see Divergences).
The inductive invariant says which rows can be on disk in each phase: sequences
are distinct and at most one ahead of the generation (`SequencesDistinct`,
`SequencesBounded`), ids are distinct (`IdsDistinct`), a pending witness is the
last mutation (`WitnessLast`), no sequence was issued beyond the disk and
generation (`IssuedOnDisk`), the catalog agrees outside an operation
(`QuietClean`), and the parts that an interrupted operation or recovery may leave
(`CuttingClean`, `HealingClean`, `WorkPlanned`, `KindsFit`, `Remembered`).  The
argument has two halves.  Every operation publishes a row that is `Admissible` for
its key, and publishing an admissible row keeps the invariant; one lemma per
operation shows the first half and `PublishKeeps` the second.  Every other step
leaves unchanged what the disk stands for (`Settled(disk[k])`), so that the three
action properties follow from `Admissible` alone.  TLC checked `IInv` on both
ledger instances first.

**ProtectedDispatch** (`ProtectedDispatchProofs`; assumption `NoCallAssumption`):
`TypeCorrect`, `EffectAlwaysKept`, `CancelledOnlyToAskers`,
`NeverStartsAfterCancel`, for any number of calls.  The invariant follows one call:
who stands inside the gate saw the signal down and it stays down (`GateOrders`), past
the gate the fact is recorded (`FactRecorded`), what the classification saw is what
the publication sees (`Classified`), and a raised signal has an author
(`SignalHasAuthor`).

**ExecutionFileStore** (`ExecutionFileStoreProofs`; assumption `StoreAssumption`):
`AnswersAlwaysHold` and `OwnerAlwaysSeesDisk`, for any number of processes, keys, commits, kills, power losses
and errors.  That an answered row survives depends on more than its own sync: its
directory and the namespace must not go either.  `BootInv` says that both are on the
device before the manifest can be seen, hence before anybody serves; `RowInv` bounds
everything a power loss may leave in a row; `WorkInv` ties the commit in flight to
the cache and says that it is in no row before its rename; `LockInv` says who has
which lock.  `Quiet`, `Settled` and `Idle` name what most steps leave alone, so that
each part is argued only for the steps that touch it.

**ExecutionContract** (first part of `ExecutionCoordinatorProofs`; assumption
`NoneAssumption`: the marks for an absent owner or begin, and for a begin that nobody
can join, are no owner and no authority): `DecideFollows` and `DecideAdvances`.  From a valid record, or the empty one of a slot
just claimed, every transition that `decide` proposes is a valid record of the next
revision which keeps every fact (`Grows`), and it grants the right to run only when it
records the first begin.  The proof has one named step per event; `Sound` gives each of them what the
record's validation already excludes.  `DecideAdvances` says how an event may move the
facts that rights depend on: a begun attempt gets its outcome only from a report or a
recovery, a right to accept, run or cancel is granted with the fact it rests on, and a
cancelled read was cancelled by all of its holders (`Settled`, `Advances`).

**ExecutionCoordinator** (`ExecutionCoordinatorProofs`; that assumption and
`CoordinatorAssumption`): `RunsAtMostOnce`, `ConfirmedMatchesStore`,
`CatalogAlwaysRecovers`, `StoredFactsAlwaysStand`, for any keys, ids, owners, queues,
joins and epochs.  That an attempt starts once is not inductive: a run is granted when
a commit is confirmed, long after `decide` saw that nothing had begun.  `SlotInv` ties
the two together: a pending transition starts from the confirmed record
(`Proposed`), the store holds one or the other end of it, and a granted run is
confirmed as begun.  A retry drives from the confirmed record again, so it cannot
grant a second run.  `GroupsApart` says that claimed keys share no id, and that stored
keys are claimed, so a restart claims no more than was claimed before.  `DriveSlot`
argues once for the queue behind a commit; one named step of `NextInv` per kind of
step follows.

**Rights over an attempt** (`ExecutionRightsProofs`, `ExecutionDeliveryProofs`; the
same assumptions): `CancelAlwaysNeedsEveryHolder`, `CancelAlwaysReachesWorker`,
`OutcomeAlwaysKept`, `NeverOrphaned`.  The four properties look at the confirmed record,
but rights are spent when an event is queued and granted when a commit is confirmed,
and between the two the right is nowhere but in the slot.  `RInv`, inductive next to
`IInv`, says for every slot where it is.  A held `RunPermit` belongs to a begun run
without an outcome; an outcome among the events of the slot is the reported one, and
its permit is spent; a run without an outcome has its permit, its report or its
recovery (`Core`).  Somebody may still begin or reject an accepted attempt (`Held`).
A pending candidate moves the facts as `Advances` says, so whatever the queue
decided before is undone by a rollback together with its event, which is queued again
(`RetryRights`).  During recovery no slot has a permit or a queue (`Recovering`), and
a restart establishes that from the stored records (`RestoreRights`).  `RInv` is stated
over a state and a set of events, `Core(k, s, ev)`, so that `DriveEvents` can argue once
for any prefix of the queue.

**ExecutionDelivery** (`ExecutionDeliveryProofs`; the same assumptions):
`ResultsAlwaysAgree` and `NeverDirectAfterAck`.  `DeliveryInductive` carries `IInv` and
`RInv` over to the composition, whose extra step acknowledges a built response, and adds
`DInv`: a read in flight carries the outcome of the record it was prepared from, and
what was told of a slot is what the store says (`Told`).  It stays so because a stored
outcome and a stored primary view are never replaced, which is `StoredFactsAlwaysStand`
of the coordinator.

**CompileTransaction** (`CompileTransactionProofs`; assumption `PlanAssumption`: the four
parts of the plan are sequences without a common or repeated path, not all empty):
`NothingEverLost` and `OutcomeHonest`, for any plan and any number of edits and I/O
errors.  The
inductive invariant `CInv` gives every path its place: not published (`Unpublished`),
published (`Installed`, `Removed`), or at one step of its rollback (`Visit`), and says
what each of its four names may then hold.  `Holds` states the bytes at the target as
the editor sees them: what the editor left there last, or else what the transaction put
there; `Kept` is `NothingLost` of one path.  The control part says that the record of
published paths and the paths still to visit have no repetitions and do not meet, but
for a removal that was moved and not yet compared.  One lemma per step shows what it
does to the names of its own path; `FailInv` argues once for every error that starts the
rollback.

TLC checked each of these invariants on the instances of the runs first.

Only model-checked: all liveness properties (fairness and ENABLED are out of the
prover's reach), and the properties of the runtime with its recovery (`OneHome`,
`RunsOnce`, `HonestEnds`, `StagedWins`, `CancelReachesTask`, `EarlyCancelHolds`,
`RecoverySettles`, `RefusalsKnown`).  The latter need an invariant over three stores, a
crash between any two of their writes and every stage of a startup, and nearly every
part of it meets nearly every step; a proof of that size is not part of this project.

## Divergences

In twelve places the code does something else than a rule, a comment or a test of the
repository says.  None was observed in the product; each is an order of steps that the
code admits.  The first two are runs that end in a counterexample, and `PROJECT.json`
quotes the lines.  The other ten are formulas in the modules.  No run is kept for
them; TLC refutes each one under the bounds given with its group.  Paths below are
relative to `src/crates/unica-execution/src/` and, for rules, to `src/arch/rules/`.

1. `TerminalReconciles` (run `recovery_lag`).  A process dies after it started a Task
   and before it advanced the link; the startup ends the Task and dies before the link.
   The Task is then two versions ahead of the link, and every later startup refuses.
2. `LeftoverKeepsKind` (run `compile_leftover`).  A leftover that could not be removed
   turns the error into RollbackFailed although every published change was taken back.
   In the shortest trace it is a parent directory made for the plan.

Receipt store.  Instance of `ledger` with `MaxCrashes` 1, for 4 also
`Retained = {"a"}`.  No productive caller takes these two paths today.

3. `NoLiveWitness`.  `is_expired_deletion` (`receipt_store.rs:1102`) omits
   `ExpiredTaskReceiptDeletion`.  If the process stops after this witness is written
   and before it is unlinked, recovery keeps it as a row; the first operation that
   reads it finds it Corrupt and latches the store.  The recovery calls such a row a
   "durable commit witness for logical removal" (`receipt_store.rs:1524`).
4. `TerminalStands`.  `retain_begun_task_after_link_capacity`
   (`receipt_store.rs:3948`) accepts a handoff with a staged terminal and writes a row
   without it; its sibling refuses because that would "drop that evidence"
   (`receipt_store.rs:3518`).

Receipt runtime.  Instance of `recovery` with `MaxCancels` 1, `MaxFaults` 0, and
`MaxCrashes` 2 for 5, 1 for the others.

5. `PromiseRecovers`.  A startup that dies while it materializes a promised Task
   leaves a link which the next startup does not adopt (`receipt_runtime.rs:3034`);
   `runtime/task-recovery.md:16` says that a saved promise restores its Task.
6. `UnboundPromiseEnds`.  A cancel that races the settlement of an abandoned promise
   makes an exact write miss its version, which stops the whole daemon
   (`receipt_runtime.rs:4143`); the comment at line 4105 promises a failed terminal.
7. `RejectionStopsNobodyElse`.  The same race with a rejected prepare
   (`receipt_runtime.rs:5397`); by `runtime/admission-failure-isolation.md:5` a Task
   holds up only itself.
8. `CancelEndsAdmission`.  A cancel between the actor bind and the Begun mark fails
   the attempt and leaves the call without an end until a restart
   (`receipt_runtime.rs:4377`); line 12 of the same rule says that it ends cancelled.
9. `HandoffOutcomeKept`.  A cancel between the cutoff handoff and the staging of a
   finished outcome drops the outcome (`receipt_runtime.rs:5040`), and a restart later
   calls it uncertain; by `runtime/invocation-handoff.md:9` it becomes the Task's end.
10. `BegunIsCancellable`.  A cancel between the Begun mark and the registration of the
    token never reaches the operation (`receipt_runtime.rs:4673`); the comment at line
    4670 says "cancellable ... from `Begun` on".

Execution file store, not connected to the product yet.  Instance of `store` with
`MaxCommits` 2, `MaxBoots` 1, `MaxFaults` 0.  One directory sync at open would close
both.

11. `ConfirmedReopens`.  A namespace whose manifest was renamed and not synced is opened
    and answers commits; after a power loss it cannot be opened
    (`store/namespace.rs:428`).  `runtime/execution-delivery.md:6` says that an accepted
    right to a result survives a restart, and leaves the proof of durability open.
12. `ShownStands`.  A row that was renamed and not synced when its owner died is
    answered from, and a power loss undoes it (`store/file.rs:163`); by
    `runtime/execution-authority.md:14` only an exact confirmation permits an outside
    action.

## Abstractions

- Requests, results and digests are members of small sets; a digest identifies its
  body.  Encoding, sizes and byte accounting are left out, so the capacity refusals
  of the stores are left out too.
- Times are left out.  A caller passes the epoch it observes, so a row whose
  lifecycle has a retention may or may not be expired for it.
- In `ReceiptLedger` a rename and the directory sync after it are one step, and the
  versions a caller presents for comparison are the current ones: an operation with
  a stale version is refused without a change.
- In the coordinator, permits and commit tokens are linear values of the code that
  cannot be used twice, so a stale completion is not a step.
- In `ReceiptRuntime` identities, epochs and retention never change and are left out;
  so is the version of the link, which only the thread that owns the attempt rewrites.
- In `CompileTransaction` a removed tree is one file and its snapshot the bytes.  Making
  parent directories is not a step; that one of them cannot be removed again is.
- In `ExecutionFileStore` a record is a number and a kind; a row never synced reads
  as torn after a power loss; a file system keeps the order of nothing it was not
  told to sync, except that an entry goes with its directory.
- Batch envelopes of the receipt store exist only with its test-support feature, and
  the row form `ExpiredDeletion` only in older data; neither is modelled.

## Not modelled

- Of the receipt runtime: retirement of old records, one read shared by several
  holders, panics of the executing thread, Tasks owned by their receipt.  Of the Task
  and link stores: files, quotas, expiry, listing.
- Of the workspace: the retained-apply path, acquisition of its locks, creation of
  parent directories (their removal may fail), edits inside the recovery directories,
  permissions, the actor's queue.
- Of the file store: encoding, provisioning of the root, replacement of its
  directories from outside.
- Of process control: pipes, draining, process trees and system calls per platform.
- Endpoint ownership and framing of the daemon, documents of the language server, job
  directories, installation and downloads: mostly system calls and protocol
  plumbing above the components here.
- The transformations of 1C sources (designers, parsers, formats), tool schemas and
  argument checks are most of the repository.  They hold no concurrent or durable
  state, and their inputs are far beyond small instances.
- Analyzers and the 1C platform are external programs.
