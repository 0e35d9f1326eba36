# Specifications of bfo, the batch offloader

bfo takes LLM tasks over HTTP, keeps them in a queue and turns each into a batch
of an LLM provider. This directory holds TLA+ models of its core, the TLC runs
that check them on small instances, and TLAPS proofs for every instance.

    tlc -workers 2 -config task_safety.cfg MCTaskService.tla
    tlapm TaskServiceProofs.tla

| module | models | composes or implements | proofs |
|---|---|---|---|
| `TaskService` | PUT of a task, the queue, the event loop | | `TaskServiceProofs` |
| `ResourceDispatch` | the resource service and its shared rows | | `ResourceDispatchProofs` |
| `SlotLedger` | abstract: slots reserved, confirmed, released, leaked, forgotten | | `SlotLedgerProofs` |
| `ResourceLedger` | the refinement mapping | `ResourceDispatch` implements `SlotLedger` | `ResourceLedgerProofs` |
| `SlotAccount` | histories: what became of every slot | extends `ResourceLedger` | `SlotAccountProofs` |
| `TokenMath` | token default, estimate and sum | gives `ResourceDispatch` its tokens | `TokenMathProofs` |
| `Delivery` | abstract: accepted, queued, submitted, settled | | |
| `Offload` | the whole process at work | `TaskService` and `ResourceDispatch`; implements `Delivery` | `OffloadProofs` |
| `Startup` | the calls of `AppContext.Init` that can fail | | `ServeProofs` |
| `Serve` | the life of a process, the bucket PUT | extends `Startup` | `ServeProofs` |

## The system

| component | source | state | operations |
|---|---|---|---|
| tasks service | `pkg/api/business/tasks` | none of its own | `DispatchTask`, `PickUpNextAvailableTask`, `UpdateTaskBucket` |
| resource service | `pkg/api/business/resources` | providers and resources of the process | `AddResource`, `Init`, `FindBestAvailableResource`, `DispatchTask`, `TryProcessTask` |
| repository | `pkg/api/adapters/repository` | none | rows of `task_statuses`, `resource_states`, `task_buckets`; the task queue |
| DynamoDB store | `pkg/api/adapters/dynamodb_store` | the tables, shared by all replicas | `EnsureTableExists`, `GetItem`, `UpsertItem`, `DeleteItem`, `ListItems` |
| SQS queue | `pkg/api/adapters/sqs_queue` | the queue, shared | `CreateQueueIfNotExists`, `SendMessage`, `ReceiveMessages`, `DeleteMessage` |
| application context | `pkg/api/adapters/appcontext` | the services of the process | `Init`, `Tick` |
| HTTP API | `pkg/api/adapters/http` | one goroutine per request | PUT task, PUT task bucket |
| serve command | `cmd/serve` | an HTTP goroutine and an event loop | start, stop |
| providers | `pkg/api/adapters/providers` | none | `CreateBatch`, files, listings |

A PUT of a task writes a status row, then sends a message. In every replica one
event loop calls `Tick` without end: it receives up to ten messages and gives
each to `TryProcessTask`, which finds a resource with a free slot, reserves the
slot in the shared row of that resource, calls the provider and, if that fails,
writes the reservation back. What the call returns decides whether the message
is deleted or comes back after its visibility timeout.

What is hard: several replicas and many request goroutines share a queue that
delivers at least once and in any order, and rows that are read and written with
no condition; every remote call can fail with its effect applied; a process can
die, and is started again, between any two calls. No test in the repository
exercises any of this.

In the source the wiring of the resource service is commented out in
`AppContext.Init` (appcontext.go:166-207), so at this commit `Tick` calls a method
of a nil service, which panics. `ResourceDispatch` models the service as it is
written, and `Offload` has both: `Wirings` says whether `Init` makes the service.

## What makes each component correct

* tasks service and queue: an accepted task is not lost; it is handled at last;
  a message goes away only after a result that allows it; a queued task has a row.
* the two together: a task leaves the queue only when a provider holds a batch for
  it. That it gets one batch only is not so; see below.
* resource service: a row counts no more batches than its limit and none below zero;
  it is off from the batches that exist only by the slots of a lost answer, a reset, a
  failing put or a crash, and by no more than those; a refusal leaves no trace; a call
  makes at most one batch; rows are initialised once. Not all of this is so with
  several replicas; see below.
* start-up: a replica serves only when its queue and table exist; replicas that
  race to create them all come up.
* serve command: a shutdown at any moment ends both goroutines, or the process; a PUT
  that was answered 200 is stored.

## Modules

### TaskService (MCTaskService, TaskServiceProofs)

Any number of replicas, HTTP clients, tasks and messages.

| variable | code |
|---|---|
| `status` | rows of `task_statuses`; only the status column matters |
| `place`, `body`, `holder` | the queue: where a message is, its task, who has its latest receipt handle |
| `loop`, `batch`, `current` | the event loop: where it is, the records left of this tick, the record at hand |
| `handlers` | request goroutines, each before one of `DispatchTask`'s two calls |
| `acked`, `disposed` | history: tasks answered 200; messages with a deleting result |

`ReceiveRequest`, `PutTaskStatus`, `EnqueueTask` are the PUT handler cut at its
remote calls. `PickTaskFromQueue`, `StartRecord`, `ProcessFnReturns`,
`DeleteTaskFromQueue` are the loop cut the same way; `processFn` may return any
result with or without an error. `UpdateTaskStatus` changes nothing, because its
body is commented out. `VisibilityTimeout`, `Crash`, `Start` and `ForeignMessage`
are the environment. A body that does not unmarshal fails the receive and ends the
loop (`stopped`); the body `null` becomes a nil task, whose use panics. What the
library processfx does when the loop returns an error, or on a panic, is not in
the repository: the model keeps the process running with its loop stopped, and
`Crash` covers the other outcome.

Fault kinds are a constant, so that a run says which faults it allows. In each, a
call that fails may have had its effect.

### ResourceDispatch (MCResourceDispatch, ResourceDispatchProofs)

`table[k]` is the row of resource k with the three columns that decisions or
accounts depend on; `old[k]` is the row before the last write, for reads that are
not consistent. `pc` and the registers `todo`, `key`, `task`, `snap` are the locals
of a call, cut at every remote call, so that other replicas act in between.
`created`, `confirmed` and `booked` are history of the provider. The limits are the
constants that `AddResource` puts in every row. The range over a Go map has no
order: `CheckResource` takes any resource left. `calls[t]` counts the calls made for
task t, up to the bound `MaxCalls` for each task.

`Spec` lets the replicas interleave as they like. `TurnsSpec` is the same service
where no two replicas are, for the same row, between the test of it and the end of
`DispatchTask`, or between the read and the put of `AddResource` (`TakeTurns`). No code
brings that about, so no result about several replicas rests on it: it delimits the one
run `dispatch_exact`, which shows that the rollback is right by itself, and it is what
the lemmas about a single replica use of there being no other. `dispatch_race` and
`dispatch_limit` show what several replicas really do.

### SlotLedger and ResourceLedger (MCResourceDispatch, their Proofs)

`SlotLedger` is what the counters of a resource promise: `Reserve` tests the limit
and takes a slot in one step, `Confirm` puts a batch in it, `Release` gives it back,
`Leak`, if leaks are allowed, loses the caller of a slot, and `Forget`, if resets are,
starts the counters of a resource again while no caller holds a slot of it. `ResourceLedger` maps
`ResourceDispatch` to it:

| ledger | ResourceDispatch |
|---|---|
| `used[k]`, `load[k]` | `active` and `load` of the row, 0 with no row |
| `hold[r]` | resource and tokens of the call of r in "creating" or "rollingback" |
| `confirmed`, `booked` | the same |
| `Leaks` | puts may fail or processes die |
| `Resets` | a read of a start-up may fail |

A successful `WriteState` is `Reserve`, a successful `CreateBatch` is `Confirm`, a
successful `RollBack` is `Release`; a put that fails or a crash is `Leak`; the put of an
initial row over one that is there is `Forget`; everything else stutters. This holds of
a single replica whose reads return its last write. Several replicas do not implement
the ledger: `dispatch_race` and `dispatch_limit` are how. `confirmed` counts the batches
whose answer arrived: that a batch whose answer was lost looks released in the ledger is
what `SlotAccount` is for.

### SlotAccount (MCSlotAccount, SlotAccountProofs)

The rows count reservations, the provider holds batches, and nothing in the code compares
the two. `SlotAccount` adds history variables to the steps of `ResourceDispatch`, in the
actions named `...Noted`, and changes nothing else (`AccountSpec` implies its `Spec`).

| history | what it notes |
|---|---|
| `placed[k]` | every batch that k's provider made, its answer lost or not |
| `unheard` | the calls about to roll back although their batch exists |
| `freed[k]` | slots that such a rollback gave back |
| `forgotten[k]` | slots counted by a row that a start-up reset |
| `leaked[k]` | slots left by a put that reports an error, or by a crash, with no batch in them |

`SlotsAccounted` says that the counters of a row plus what was freed and forgotten are
what was placed plus what leaked plus the call in hand, slots and tokens alike. So the
count is too low by the lost answers of `CreateBatch` (service.go:284-293) and by resets
(service.go:86-102), too high by failing puts and crashes, and by nothing else. It is
about one replica; of several, `dispatch_race` refutes even `SlotsCovered`, which only
asks that the confirmed batches are counted. A rollback that is not put at all looks like
one whose put failed; that the code makes it is what `ImplementsLedger` shows in
`dispatch_exact`, where no put fails.

### TokenMath (MCResourceDispatch, TokenMathProofs)

`MaxTokens` is defaulted when the task is accepted, the estimate when a resource is
looked for, and the sum is taken in an `int` before it is compared as an `int64`.
`Wrapped` is that addition for an int up to `MaxInt`; TLC's numbers have 32 bits, so
the runs use `MaxInt = 7`, and the proof is for any. The runs give `Tokens` of
`ResourceDispatch` the function `TaskTokens`, so that every dispatch run takes its
numbers from here.

### Delivery and Offload (MCOffload, OffloadProofs)

`Delivery` is the promise to a client: a task is `Send` (and the client told, or
not), `Submit`ted any number of times while it is queued or after it was submitted
before, and `Settle`d only after that.

`Offload` extends `TaskService`, instantiates `ResourceDispatch` as `R` with its own
variables, and joins their actions: the replica r of both is one process.

| Offload | code | TaskService | ResourceDispatch |
|---|---|---|---|
| `InitResources` | `a.Resources.Init`, when wired | | `StartInit`, `AddResource`, `InitializeState` |
| `Serve` | end of `Init`, the loop starts | `Start` | |
| `Receive`, `TakeRecord`, `Delete` | the loop | `PickTaskFromQueue`, `StartRecord`, `DeleteTaskFromQueue` | (a nil task: `Die`) |
| `Call` | processFn calls `TryProcessTask` | | `TryProcessTask` |
| `CallNil` | the same with no service | `Die` | `Die` |
| `CallStep` | inside `TryProcessTask` | (a missing row: `Die`) | its steps |
| `TryProcessTaskReturns` | processFn returns | `ProcessFnReturns` | `Return` |
| `Kill` | the process ends | `Die` | `Die` |
| `Elsewhere` | handlers, timeouts, other producers | the same | |

The refinement forgets the messages: a task is queued when a message of it is
visible or in flight, accepted when its PUT was answered 200, and has as many
batches as the providers made, reported or not.

### Startup and Serve (MCServe, ServeProofs)

`Startup` has the calls of `AppContext.Init` that may fail: load the configuration of
the SDK (`Start`), get or create the queue, describe or create the table, wait for it. A failed call panics in `main`,
and the container is started again. A table that DynamoDB is still creating counts as
existing.

`Serve` extends it with what follows `Init`:

| variable | code |
|---|---|
| `server` | the goroutine "http-server": starting, serving, failed to start, closed |
| `eloop` | the goroutine "event-loop": before its select, in the long poll, returned nil, returned an error |
| `cancelled` | the context of both is done |
| `ended` | main returned, or panicked |
| `requests`, `stored`, `answered` | PUTs of a bucket under way; rows of `task_buckets`; buckets answered 200 |

`Boot` is a step of `Init` that, when it was the last, starts both goroutines.
`Cleanup` is the deferred call of the clean-up function, which is nil when the server
did not start. `Receive` ends a long poll with messages, with a cancelled context,
which `ReceiveMessages` takes for an empty answer, with an error, or with a panic of the
process: `Tick` calls the resource service, which is nil at this commit, for any
message, and a body `null` is a nil task; nothing in the source recovers. So a process
may panic with no failed call before, and a shutdown ends it by the exit or by a panic.

processfx and httpfx are not in the repository. Assumed of them: a signal cancels
the context; `Wait` returns when it is done; `Shutdown` waits for the goroutines; a
clean-up returns; after a goroutine returned an error the context may be cancelled
or not. In `Serve`, `pc[r] = "up"` says that `Init` has succeeded, and a `Killed`
process that had ended is its container started again.

## Runs

| run | instance | what it shows |
|---|---|---|
| task_safety | 2 replicas, 1 client, 2 tasks, 3 messages, all faults | types; no accepted task is lost; the row precedes the message; only its processor deletes a message |
| task_liveness | 2 replicas, 1 client, 1 task, 2 messages, transient faults | every accepted task is handled |
| dispatch_shared | 2 replicas, 2 resources, 2 tasks, 2 calls for each, limit 1, all faults | types; counts are not negative; the two counters of a row stay together; one batch per call, and only of tasks that fit |
| dispatch_single | 1 replica, 2 resources, 4 tasks (two alike), 1 call for each, limit 2, all faults but stale reads | the slots are accounted for; the limit is kept; only fitting tasks are submitted; implements the ledger with leaks and resets |
| dispatch_exact | 2 replicas that take turns, 3 resources (1 disabled), 3 tasks, 2 calls for each, refusals only | rows are an exact account; implements the ledger without leaks |
| dispatch_race | 2 replicas, no faults | violated: an update is lost |
| dispatch_limit | 2 replicas, no faults, limit 1 | violated: the last slot is given twice |
| dispatch_rows | 1 replica, fresh table | violated: no row is created |
| dispatch_reset | 1 replica, failing start-up reads, crashes | violated: a row that counts a batch is reset |
| serve | 2 replicas, 1 bucket, 3 faults before and 2 errors after start-up | types; up means provisioned; an answered bucket is stored; all come up at last; a shutdown ends |
| offload | 2 replicas, 1 client, 1 task, 2 messages, 1 resource, 2 calls, wired or not | types of both parts; only submitted tasks are disposed of; a submitted task has a status row; implements `Delivery` |
| offload_duplicates | 1 replica, 1 message, a delete that fails | violated: a task gets a second batch |

Bounds. Two replicas and three messages give every pair of overlapping steps: a
message handled twice, one received with a bad one, one sent twice by a client that
retries, while another is in flight. Two requests of one client overlap when the
first was cut off, and what matters of more clients is more messages. `Msgs` and
`MaxCalls` bound the length of a behaviour; a request is only taken when a message
is left for it, so the bound refuses requests and never makes a send fail. Two calls
for each of two tasks let one replica reserve, another overwrite and a restarted one
reset, and a task be retried; `dispatch_exact` has six calls over two rows that take
tasks, and two calls on different rows still overlap at every step. `dispatch_single` has
three calls that take slots (`small`, `again`, `huge`) over two rows, and a limit of two
so that the last free slot is not the first: leaked, freed and used slots mix in one row,
and a start-up may reset it at any moment between two calls; a call more for each task
changes the length of a behaviour and no kind of step. `small`
leaves its numbers to the default and the estimate and fits a batch, `large` does not
by one estimate of its own, and the sum of `huge` does not fit an int. In `offload`
two messages let a task be sent twice, or be in flight at one replica while the other
crashes, and two calls let a redelivered one be submitted again; failing batches and
puts need no fault kind there (a refusal is always possible) or are in
`dispatch_single`; the put of a status row may fail, as `SubmittedHasStatus` is about
a request that goes on without one. `MaxFaults` lets both replicas of `serve` fail and one of them
twice, which covers two processes that create at the same time, one that loses and
one that restarts; `MaxErrors` lets both goroutines of one process fail.

Deadlock is checked except where the model really stops: a run without crashes has
nothing to do after `MaxCalls` calls, and `serve` ends with processes that were told
to stop and the faults used up.

Symmetry (replicas, tasks, messages, resources) is used in runs of safety properties
only; the refinements are among them, since `SlotLedger` and `Delivery` have no fairness.

Fairness. `FairSpec` of TaskService asks for weak fairness of each loop, which is a
bare `for` around `Tick`, of the restart of a stopped container (compose.yml), and of
visibility timeouts. Strong fairness stands for what the other parties must grant:
the queue hands out a visible message some time, crashes do not come first every
time, and processFn does not fail on a task for ever. `TransientFaults` leaves out
failing receives and foreign messages, after which the loop ends and nothing in the
source restarts it. `ServeFairSpec` asks for weak fairness only, since its faults are
bounded: of the table becoming active, of each process in `Init`, of both goroutines
and of main. The scheduler runs all of these, and a long poll ends after
`WaitTimeSeconds`. Nothing makes a signal or a request come. No run checks liveness
of the composition: `MaxCalls` bounds it, and an accepted task whose calls are used
up stays queued.

## Where code and comments disagree

* `UpdateTaskStatus` does nothing (repository_task_statuses.go:120), though its
  callers say that they record progress: the row of a task says `pending_queue` for
  ever. No run states this; the model of the method is as empty as the method.
* "Idempotency in task processing is crucial" (tasks/service.go:188), and nothing
  makes it idempotent: `offload_duplicates` submits one task twice.
* `Version` is "For optimistic locking" (types.go:16) and nothing compares it: two
  replicas lose a reservation.
* `DispatchTask` reads the row again and does not repeat the limit test of
  `FindBestAvailableResource`. Optimistic locking would not help here.
* `AddResource` creates a row on an error and not on a missing row, so a fresh table
  stays empty and a row that cannot be read for a moment is reset.

## Proofs

Everything below is proved for all values of the constants that satisfy the named
assumptions of each module: limits that are natural numbers, a positive batch size
of a receive, null values outside the sets they are null for. Every listed theorem is about `Spec`,
either for any number of replicas that interleave as they like or for one replica; none
assumes that replicas take turns. Assumptions of single theorems are named definitions:
`Solo` (there is one replica) and `Fresh` (a read returns the last write, which the code
does not ask of DynamoDB: dynamodb_store.go:245) in `ResourceDispatchProofs`, `~Leaks` and
`~Resets` in `SlotLedgerProofs`, `Sane` (the constants of the ledger) there too,
`Crashes` and `ServiceConstants` (the constants of the service are what its module
asks for, since an instance states them anew) in `OffloadProofs`. `BatchesCounted` and
`CountedBehindQueue` ask for a finite number of replicas, because they count them.

* `TaskServiceProofs`. `IInv` joins the type invariant with six facts. `RecordHeld`
  is needed for `disposed` to keep its type; `DeletesDisposed` and `GoneIsDisposed`
  carry the result of processFn over to the delete and beyond; `UnsentIsEmpty` and
  `AckedIsSent` say that a task answered 200 has a message and that no send takes
  its body away; `RowBeforeSend` carries the row from the first call of a request to
  the second. `NoAcceptedTaskLost`, `StatusRowPrecedesMessage` and
  `OnlyItsProcessorDeletes` follow.
* `ResourceDispatchProofs`, first part: any number of replicas, under every fault and
  every interleaving. Types and non-negative counts (`NeverNegative`): what a rollback
  writes is what its own call wrote less one, and that was at least one.
  `LoadBounded`, from `LoadInv`: a row in the table, or replaced there and still
  returned by a stale read, is `Plausible` (no more load than its batches could hold),
  and the snapshot of a call is so even without the task of that call, which is what a
  rollback would write; with the task it is then too, since the task fits. `BatchesCounted`, from `Counted` (the calls of a task
  are at least its batches and the calls that may still make one) and `FitInv` (the
  test against the batch size is remembered from the choice of the resource to the
  batch); each step moves one replica into or out of `Pending`, which `PendingCount`
  counts.
* `ResourceDispatchProofs`, second part: one replica with fresh reads, under every other
  fault. `TurnsInv` has `SlotKnown`: a row whose slot was seen free has it free until it
  is written, since nobody else may write it, which carries the limit test over the
  second read (`AloneInBounds`, with rows that start-ups reset). `KnownInv` adds
  `RowKnown`: what a call is about to write is the row of the table with its own task
  reserved, and what it wrote is still there until it returns (`AloneKnows`). The lemmas
  are about `TurnsSpec`, because that nobody else is at the row is all they need of there
  being one replica; `SoloTakesTurns` gives it to them.
* `SlotLedgerProofs`. The ledger is `Bounded` by an induction that adds one holder
  or takes one away at a time, for any finite number of replicas; without leaks and
  resets it is `Balanced`.
* `ResourceLedgerProofs`. `AloneImplements`, under `Solo` and `Fresh`: `KnownInv` says
  that the row written is the row tested plus one slot, so that `WriteState` is a
  `Reserve`, and that no call holds a slot of a row that a start-up resets, so that this
  is a `Forget`. `SlotsBounded` carries the ledger's bound back to the rows.
* `SlotAccountProofs`. `AloneAccounted`, under `Solo` and `Fresh`. The equation of
  `SlotsAccounted` is proved for each resource and step from `KnownInv`: the put of a
  rollback restores the counters from before its reservation, whatever the outcome
  of the batch, so the difference goes to `freed` or to nobody, and a put or a process
  that fails leaves it in `leaked` once. `unheard` needs an invariant of its own: only a
  call that is rolling back is in it.
* `TokenMathProofs`. `SubmitsOnlyFitting`, with any number of replicas and faults: a
  call that has chosen a resource has a task whose sum passed the test, and a sum in
  the range of an int is the sum that was tested.
* `OffloadProofs`. `PipelineInside` and `ServiceInside` show that each step of the
  composition is a step of each part or leaves it alone, so that `IInv` of
  `TaskServiceProofs` and, by an instance of `ResourceDispatchProofs`, the types of
  the service hold of it (`OffloadTypeCorrect`). `Crashes` (the fault
  kinds of both parts include crashes) is needed because a panic of one half ends the
  other. `OInv` adds `Bodies` (what reached processFn carries a task) and `Coupled`: a
  call under way is for the record at hand (`InCall`), a call that has succeeded has
  made a batch (`Made`), a process that is down holds nothing (`DownIsClear`).
  `DisposesSubmitted` follows, and with it each step implements a step of `Delivery`
  (`Delivers`); `AcceptedIsDelivered` is the promise of `Delivery` itself.
  `SubmittedIsKnown` joins the two halves: a batch is of the task of the record at hand
  (`Coupled`), whose message was sent after its row was written
  (`StatusRowPrecedesMessage` of `IInv`), and no step takes a row away (`StatusStays`).
  `RowsKeptBehindQueue` and `CountedBehindQueue` bring the theorems about the service to
  the composition, by an instance of `ResourceDispatchProofs` (`InstanceConstants`,
  `SameService`, `SameSize`): what is proved of the rows holds with redelivered messages
  and panics of the loop.
* `ServeProofs`. Each step of `Init` carries what the steps before it established
  (`UpIsProvisioned`), and no step of `Serve` takes that away (`StartupInside`).
  `AnsweredBucketStored` needs that a table that can be used stays so.

Only model-checked are the three liveness properties, which need fairness and with it
ENABLED, beyond the prover (`AcceptedTaskIsHandled`, `AllUpAtLast`, `ShutdownEnds`), and
`dispatch_exact`: `ExactAccounting` and `ImplementsLedger` of replicas that take turns.
Every other property of a passing run is a theorem; `LimitRespected`, `ImplementsLedger`
and `SlotsAccounted` of one replica, as they are checked.

## Not modelled

Configuration, logging, metrics, JSON and HTTP wire formats; reading, listing and
deleting of task buckets, reading of task statuses, deleting of resource rows, which
no code path does; files and listings of providers, which no code path asks for; the
generated provider mock; `cmd/cli`, which prints. The tables `task_statuses` and
`resource_states` are not created by the program (the calls in repository.go are
commented out): the models assume that somebody created them. Completion of batches
is a TODO in the source, so slots are never released. `RetryPolicy` is read by no
code, so there is no retry limit to model. `TokensPerMinute` is a TODO.

## Plan

Done: the pipeline, the resource service, start-up and shutdown, the token sum, the
composition, the two abstract specifications they implement, the account of the slots,
and proofs of their safety properties. Next: the parts of the liveness arguments that are
safety (what each waiting state has enabled, and the measure that each fair step lowers),
stated as invariants; an account of the slots for several replicas, with a history of the
updates that a write or a rollback loses. The rest needs code that is not there yet: when
batches complete, `Confirm` gets a successor in `SlotLedger`; when status rows are updated,
`status` gets a transition system of its own; when the put of a row tests its version, that
test takes the place of `Solo` and `Fresh`.
