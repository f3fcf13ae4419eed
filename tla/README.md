# Lake in TLA+

Lake separates the storage of an LLM's KV cache from the nodes that compute
with it.  This directory models the parts of Lake whose correctness depends on
the order in which several actors take their steps, checks small instances of
these models with TLC, and proves the most important invariants with TLAPS for
all instances.

## 1. The system

| part | state | operations | talks to |
|---|---|---|---|
| control plane (`rust/controlplane`) | blocks, locations, reference counts, quotas, models; the numbered log of view updates | register, deregister, report references, admit, evict, discard, reconcile, checkpoint and restore, subscribe | routers (view stream), storage agents, workers |
| router (`go/router`) | mirror of the view, load table, priority queue, node states | generate (choose a node, queue, execute, retry), apply updates, scale up, drain | control plane, workers |
| storage agent (`rust/storage-agent`) | puts in progress, holds, registered blocks | put start, put end with commit, flush, location events | tier engine, control plane |
| tiered store (`rust/tiered-store`) | blocks per tier, pins, segments, writeback queue | put, promote, demote, evict, write back | storage agent |
| transfer (`rust/transfer`) | segments, batches, publications with a fence number | submit, pull, publish | storage agent, workers |
| kvcm daemon (`kvcm/kvcm`) | intent tables, queue and gate, handles, ledger of task rows and keepalive rows | submit an intent, prefetch (check, admit, copy, poll, verify), abandon, renew, remove, rebuild after a restart | a Mooncake store over RPC and HTTP, SQLite |
| precopy tools (`kvcm/demo/precopy`) | none between runs | resolve a worker's segments, compute keys, copy, verify | the same store, processes and sockets of a host |
| worker (`python/lake`) | requests waiting, running and in flight, slots of the pool, lifecycle | submit, schedule, prepare, execute, apply results, commit, finish, stop | router, pool |

The rest is a prototype (`src/`), a simulator and a cost model (`tools`,
`bench`), demonstrations and scripts.  `PROJECT.json` lists every part with its
status.

What is hard here:

* **Copies of one state.** Routers mirror the control plane's view through a
  stream with a bounded replay buffer and a lossy broadcast channel.  Streams
  break, receivers lag, the control plane restores a checkpoint or restarts.
* **Cancellation.** The router's queue preempts executions and clients give up
  on them; kvcm cancels asyncio tasks for a timeout and for shutdown, at
  whatever await the task is in.
* **Threads and loops.** RPC threads of kvcm insert into tables the event loop
  owns; the router's loop holds its lock in several short sections; the worker's
  step thread shares a queue and a flag with its callers.
* **Working ahead.** The worker schedules batches before the results of earlier
  ones are known, and sweeps and waits use listings and measures taken earlier.
* **Restarts.** The kvcm process may die at any await; a ledger and the tasks in
  the store are what the next one starts from.
* **Partial failure.** A copy of n keys is n calls of which some fail; a put
  goes through bytes, tiers and control plane; consumers die of exceptions.
* **Accounting.** References, quotas, pins, and the places of gates and queues.

## 2. The modules

| module | models | theorems |
|---|---|---|
| `ViewLog` | `view.rs`: numbering, the bounded buffer, `replay_after`, `reset` | |
| `ViewSync` | the authority's writes, restore and restart; `subscribe_view`; the router's `viewSyncOnce` and `ViewMirror.Apply` | |
| `ViewSyncProofs` | | `LogHasNoHole`, `ReplayComplete` |
| `PQScheduler` | `pq.go` | |
| `PQSchedulerProofs` | | `TypeCorrect`, `NothingLost`, `NoSecondExecution`, `LimitHeld`, `NoLostWakeup` |
| `TaskEngine` | `task_engine.py` | |
| `TaskEngineProofs` | | `OneRunPerKey`, `GateStaysBalanced`, `NobodyIsUnknown` |
| `Authority` | `authority.rs`, `quota.rs` and `reconcile.rs`: registration, references, quotas, eviction | |
| `AuthorityProofs` | | `IndexIsFree`, `ReferencedIsFrozen`, `ChargesAreExact`, `CountsAgree`, `ReclaimIsBounded` |
| `PrefetchFlow` | `prefetch.py` with `copy`, `query_task` and `abandon` of `backend.py` | |
| `Recovery` | `PrefetchFlow` in a process that starts, crashes and stops: `daemon.py`, `rebuild`, `track_in_background`, `gc_tasks` | |
| `RecoveryProofs` | | `EveryIssueRecorded`, `ReadyIsTrue` |
| `VerdictProofs` | | `VerdictsHold`, `HandlesAreSettled`, `ConflictRowsStay` |
| `Keepalive` | `loops.py`, the keepalive table of `ledger.py`, `remove` | |
| `KeepaliveProofs` | | `LeasesLapse`, `WindowsHold`, `DropsAreDue` |
| `KeyPlan` | `engines/vllm/keys.py` | |
| `RankTopology` | `engines/vllm/topology.py` | |
| `MasterAdmin` | `instances.py`, `http_admin.py`, `admin_main.py` and the parsing in `client.py` | |
| `CopyPath` | one intent from start-up to verdict, on top of `KeyPlan` and `MasterAdmin`: admission and verification in `backend.py`, the wait in `task_engine.py`, the check in `daemon.py` | |
| `Precopy` | the tools of `demo/precopy`, beside `CopyPath` on one store, with `RankTopology` | |
| `PoolAgent` | `pool_iface.py` over `agents/memory.py` | |
| `NodeScheduler` | `node_scheduler.py`, as operators on a record | |
| `WorkerEngine` | `worker_engine.py` with `lifecycle.py` and the limits of `model_runner.py` | |
| `RequestService` | what `submit` promises: the specification `WorkerEngine` implements | |
| `MC*` | the instances TLC checks | |

### View subscription

`ViewLog` has the log's two variables, `updates` and `nextSeq`.  `ViewSync`
extends it with the authority's content (`auth`: block to place), one
subscriber's task in the control plane (`rx` is its broadcast receiver, `last`
its dedup watermark, `todo` what it is about to send), the stream (`chan`) and
the router's mirror.  A write handler is one action, because it holds the
authority's write lock until it has broadcast.  Subscribing is two: the receiver
is created before the snapshot is read (`Connect`, `ReadInitial`), and batches
committed in between arrive twice.  `Broadcast` overwrites the oldest messages
of a full channel, as tokio's channel does, and the receiver then finds itself
lagged.  A failed restore leaves its events in `pending`, from where the next
write commits them.  Two history variables are no part of the code: `epoch`
counts replacements of the authority's content, and `skipped` remembers that
the stream will end in a stale view.

The many RPCs that write are one action: what they do to the view is a batch of
upserts and deletions.  One router is modelled, since routers do not interact.

### Priority queue

One action per critical section of `pq.go`: `Submit` (insert), `MaybePreempt`
(its own section, after the insertion), `GiveUp` (the client's context ends),
`StartEligible`, `ArmTimer`, the wake-ups of `Run`, the two sections of
`finishOne` (`FinishOne`, then `Requeue` or `Deliver`), and the setters.  The
queue is a set: its order is a function of priority and of the sequence number
a request keeps for life.  `exec` is the goroutine of an execution: running,
or blocked in the send to `s.finished`.  `cause` is what cancelled its context
first.  Time is one action, `Expire`, that ends a model's backpressure.  The end
of the process, at which `Run` returns, is left out.

### Authority

Every handler holds the authority's write lock from its first read to its last
write, so one handler is one action; what can go wrong is the order of handlers.
A namespace is a model with its revision.  `view` is `by_flat`, `refs` is
`global_refs`, `held` is `node_refs`, `inactive` the eviction index, `used` is
`used_bytes`.  The history variable `stale` marks blocks whose namespace was
deregistered under their holders.

`Plan` is `plan_admit`: the bytes asked for against hard and soft quota, how
many of its own idle blocks the namespace gives up, and what others must return
of what they borrowed.  `CommitAdmit` is `commit_admit`: the victims are any
leaves of the index, since frequencies of use are not modelled.  `RegisterBlocks`
then registers the batch; `RegisterUnsettled` is the same request failing in its
durability test, which comes after the commit.  A report carries one kind and one
sign for a piece of a chain, which is how the storage agents send them.
`ReconcileDeadNode`, `Discard`, `GcCold` and `RestoreCheckpoint` follow
`reconcile.rs`; a request of several of these is a sequence of steps.  Whether a
block is durable is left open wherever the code looks at it.  Locations by tier,
orphan marks, hit counts and the events for the view (these are in `ViewSync`)
are left out.

### Task engine

Records are numbered submissions; `slot` is `_records`, `receipts` is
`_finished`.  `submit_intent` is three steps of an RPC thread, because another
thread or the event loop may run between them.  On the event loop an action
runs from one await to the next, but the last statement of `_finish` is a step
of its own (`FreeSlot`), since a status query reads the two tables from another
thread.  The consumer's steps follow the awaits of `_run_prefetch` and
`_wait_then_run`; `Crash` is any unexpected exception at any of them.  Shutdown
cancels all consumers at once; `CancelLost` is the cancellation that meets
`_drain_copy` and is passed on to a submission which answers all the same.  Such
a consumer (`deaf`) works on until its next `_drain_copy`, or until the event
loop is closed.

### Prefetch flow

Two asyncio tasks and the ledger's single thread.  `cancelled` is a cancellation
that has been requested and takes effect when the copy task runs next.  The
module states the rules of asyncio it uses: what cancelling a gather, a shield
and a task that awaits another task does.  Ledger writes do not fail, the
process is shut down at most once, and polls that answer RUNNING, or fail with
QueryError, change nothing and are left out.

### Recovery

`Recovery` extends `PrefetchFlow` with the process.  `phase` is how far `_serve`
has come, from `connect` to `closed`; `rpc` are the calls in the threads of the
RPC pool, which go on when the coroutine that awaits them is cancelled or stops
waiting after its timeout, and need not return; `task` and `replica` are the
store.  `Vanish` is what a crash takes away: the handles,
the watch set, the writes the ledger's thread had not done, and the coroutines
of a flow that was not over, which is `gone` from then on.  `Rebuilt` restores
a handle only when all its rows are there, puts the conflicts among them back
into the watch set, and starts the tracking loop, which polls as the flow does
and is modelled by the flow's polling half.  `Collectable` rows are deleted at
every start.  What READY brings with it, the keepalive row and the published
event, are `kept` and `told`.

### Keepalive

The sweep of `KeepaliveLoop` is cut at its awaits: list, next record, the check
that the row is still there, renewal, deletion.  An existence check whose
awaiter has gone is executed all the same (`late`), and renews the lease.  Any
call of the sweep may raise, which ends the sweep and not the loop.
Time is a bounded clock; `lease` is when the store may let go of a prefix.  The
history variables say when a row was opened, whom a removal may blame, and what
the store answered in this sweep.

### Copy path

`CopyPath` is about numbers, names and answers, where `PrefetchFlow` is about
cancellation: a job fixes the arguments of process and intent, the store and its
other tenants change, the admin endpoint fails or answers badly.  The expansion
of keys and the plan are operators (`KeyPlan`), and so is the reading of the
master's answers (`MasterAdmin`); an operator that raises returns `Raise(why)`.
A hash is the pair of its parent and its tokens, a key the record of the fields
its text is made of, JSON is what the parsers tell apart.  `Ask` is taken twice,
outside the transfer gate and inside, before `Submit` hands the copies to the
store, which may refuse them.  `RankTopology` models a host by its
processes, titles, sockets and by which of `/proc`, `ps`, `ss` and `ssh` work.
`Precopy` adds the tools, which have their own copies of these functions.  A
process is either the daemon with an intent, or one of the tools.

### Worker

The pool and the scheduler belong to the step thread, so their methods are
operators on records (`PoolAgent`, `NodeScheduler`); `WorkerEngine` has the
threads.  Every place where the step thread takes the lock, looks at the queue
or at the stop flag is a step.  `submit` is two steps, because the step thread
empties the queue and sets the flag without taking the lock.  `Roles` are the
configurations: overlapped or not, token budget, chunk, length limit, places,
partial sets, pull budget, warmup.  Tokens are counted, not named.  Any call of
the pool may raise, and so may the forward pass: `PrepareBatch` and
`ExecuteBatch` are sets of outcomes, and a batch of results may raise after any
number of its entries (`ResultRaises`).
`RequestService` has the three variables a caller can see; the refinement
mapping reads a call's status from `call` and `live`.

## 3. What TLC checks

| run | instance | shows |
|---|---|---|
| `view_sync` | 2 blocks, 3 batches, buffer and channel of 2, 1 replacement, 1 break | `StreamIsSound`: what is on its way takes the mirror to the authority's content, unless a restore failed or a replay went onto a replaced base; the mirror's gap branch is pure defence; a replay is exactly what was missed.  `LogContiguous`: the buffer has no hole.  `Converges`: every router catches up for good |
| `view_restore` | 1 restore | violated `CaughtUpAgrees`, see 5 |
| `pq` | 2 requests of 2 priorities, limit changing between 1 and 2, 1 backpressure | `OnePlace`: nothing lost, nothing in two places; `SuccessIsFinal`: no second execution; `NeverOverCommits`: cancelled executions keep their slot; `NeverSleepsOnWork`: no lost wake-up; `ServedUnlessPaused`: without backpressure everybody who waits is answered |
| `pq_timer` | 2 requests | violated `EveryWaiterServed`, see 5 |
| `task_engine` | 2 keys, 2 submissions, 2 consumers, gate, queue and ring of 1 | `NoDoubleRun`, `GateBalanced`, `NeverUnknown`, and `EveryIntentSettles`, also after crashes of consumers, in shutdown, and when a consumer misses its cancellation |
| `recovery` | 2 keys, 2 faults (crash, stop signal, failed start) | `IssuedIsRecorded`, `HandleIsSettled`: nothing the store has begun is forgotten while the process lives; `VerdictsAreTrue`: ready and failed mean what they say, also after a restart; `ConflictStaysFailed`; `RestartSettles`: what a start finds running is settled; `FlowEnds`; `ShutdownEnds`: no call that never returns holds up a shutdown |
| `prefetch_orphan` | 3 keys | violated `NothingLeftRunning`, see 5 |
| `keepalive` | 1 prefix, a window and a lease of 2 ticks, 4 ticks, 2 faults | `LeaseLapses`: a removal that waited is not refused because of the sweep; `WindowHolds`: no stretching of the window; `OnlyAbsentDropped`: an answer that did not come is not a no; `EveryRowEnds` |
| `copy_path` | 21 jobs of the daemon and about 80 of the tools, 2 segments of 3 bytes and the name of one on another host, 2 troubles; 42 hosts with 9 states of their tools | `KeysAndPlan`: keys against the product of their ranks, plan against the division of ranks; `VerdictsAreTrue`: ready, missing, stopped and present are what was seen; `AdmittedFits`; `BatchesExact`: the greedy packing of request lines; `ResolutionIsSound`: a segment belongs to the rank it is resolved for, and to a living worker; `ToolsAgree`: the tool resolves and plans as the daemon does |
| `worker` | 3 calls, 2 of them with one id, 5 configurations | `NoDoubleWrite`, `CountsExact`, `NoStaleResult`: batches ahead of results keep apart; `SlotsAreReturned`; `StrandedAtMostOne`: when the step thread is gone, whatever it died of, at most one caller is without an answer; `ImplementsService`: refinement of `RequestService`; `EveryRequestAnswered` |
| `authority` | 2 namespaces (a chain of two blocks of 1 byte, a block of 2 bytes), 2 nodes, 2 kinds, 2 quotas, an index of 1 per pool, a pool of 2 bytes, 2 references | `UsedExact`: charges never drift; `RefsAgree`: counts are the sums of what nodes hold; `Frozen`: what is in use stays; `ReclaimOnlyBorrowed`: nobody is pushed below the soft quota by more than a block |
| `authority_hard` | 1 node, 1 kind, soft and hard quota of 1 | violated `HardCeiling`, see 5 |

Each module also states its types (`TypeOK`); they hold in these instances and
are left out of the configurations, which hold only what says something about
the code.

Bounds.  Three batches against a buffer of two make the buffer drop one and
leave a resume point below, at and above its floor; a channel of two makes
receivers lag.  With one slot, one request runs, is preempted by the other and
waits; with two, both run and the limit drops under them.  Two submissions give a
duplicate in flight, a key submitted again after it ended, a full queue and a
receipt pushed out of the ring.  With two keys in `recovery` one call can have
returned and the other be in flight or not begun; `prefetch_orphan` has three.
Two faults are a crash and another in the recovery from it, or a crash and a
stop.  In `keepalive` the second prefix of a sweep is only a delay to the
first; four ticks let a window end, a lease lapse after it, and a row be opened
anew in between.  In `copy_path` a request line holds two keys of rank 0 or one
of a higher rank, which alone is longer than the bound; a segment has room for
the keys of an intent only if others use little; two troubles are a failed
answer and an eviction, or a failure in each of two waits.  The hosts have four
processes, of which one is not the worker's, in two trees with four ways to
bear titles and five to share sockets.  In `worker` the prompts are cut into
chunks by one configuration and not by others, two pulls exceed the budget, and
one call comes back with the id of another that has ended or is still there.
In the authority the index holds one block per pool, so
that it is full when a second block becomes idle; the pool holds two bytes, so
that one namespace must reclaim from the other; a block of two bytes and one of
one byte make the division round up; two references let two nodes, or two kinds,
meet on one block.  DRAFT pools are not in the instance: they are two indexes
of one namespace that are emptied in order, and the proofs include them.
Symmetry is used only in `authority`, a safety run, on nodes, which no
definition tells apart.

The authority never rests, as quotas may always be set, and neither does the
queue, whose limit may always be set again.  The other runs do not check
deadlock: the bounds on inputs, faults and time, and shutdown, end them.

Fairness is only on what the program itself does, and weak except for the cases
of a Go `select` (strong: a case that is ready again and again is taken): tokio
tasks, the router's reconnect loop, goroutines, the event loop, the ledger's
thread, the threads of the RPC pool and the worker's step thread run; a call to
the store is answered or given up, because the client bounds its wait, while its
thread may stay; a deadline passes, the clock goes on; a process that died is
started again.  Nothing makes clients
submit, networks break, executions fail or processes stop.

## 4. What is proved

For every value of the constants:

* `LogHasNoHole` (`LogContiguous`): the buffer holds the latest batches,
  numbered without a hole and no more than `LogCap`.  `LogInv` adds the types of
  the log to it and is inductive: a commit appends the next number, and dropping
  from the front, which the lemma on `Bounded` is about, keeps a suffix.
* `ReplayComplete`: when `replay_after` accepts a number, every batch after it is
  in the buffer.  It follows from `LogInv` by arithmetic.
* `TypeCorrect` (`TypeOK`) of the priority queue.
* `NothingLost` (`OnePlace`) and `NoSecondExecution` (`SuccessIsFinal`).  Neither
  is inductive alone.  `IInv` adds that a request not submitted yet is nowhere
  (`NewIsNowhere`), that an abandoned one is awaited by nobody
  (`AbandonedIsGone`), and that a success carries no error
  (`SuccessHasNoError`), without which `finishOne` could take a completed
  request for a preempted one.
* `LimitHeld` (`NeverOverCommits`): from `IInv` and the finiteness of the set of
  slots, by counting what `StartEligible` adds.
* `NoLostWakeup` (`NeverSleepsOnWork`).  `AwakeInv` says that when no goroutine
  is still to signal, no backpressure is left, and a loop that is past
  `startEligible` without a token has full slots or only requests whose insert
  has yet to signal.  `StartFills` shows that `startEligible` leaves nothing
  startable behind; whatever makes room or adds a request afterwards signals.
* `IndexIsFree` (`InactiveIsFree`) of the authority.  `IndexInv` adds the types
  of both counts and that the index is part of the view, and is inductive with
  one lemma per handler.  Two lemmas carry the argument: resetting counts and
  shrinking the index keep it free (admission, collection, deregistration), and
  so does giving references back (reports, dead nodes), since a block enters
  only when all kinds are zero.
* `ReferencedIsFrozen` (`Frozen`): every victim comes from the index, which
  `IndexInv` says is free.
* `ChargesAreExact` (`UsedExact`): `used` is the charge of the view.  Each step
  is a removal or an addition of blocks, and the lemmas `DischargeExact` and
  `ChargeExact` count them; the `max(0)` of the code never cuts anything off.
* `CountsAgree` (`RefsAgree`): the global counts are the sums of the nodes' rows,
  for any finite set of nodes.  `RefsInv` adds that a block outside the view has
  no references, so that registering it anew starts from zero.  A report changes
  one node's row, and the sum by as much (`SumChange`); a dead node's row becomes
  zero, and what is subtracted is no more than the sum (`SumBound`).
* `ReclaimIsBounded` (`ReclaimOnlyBorrowed`): what `plan_admit` asks of the others
  is within what they can give back, `reclaim_borrowed_bytes` asks each for no
  more than it has borrowed (`ShareBound`), and rounding up to blocks takes less
  than one block more (`CeilBound`).
* `OneRunPerKey` (`NoDoubleRun`) of the task engine.  A record that is queued, or
  that a consumer works on, is in the slot of its key, and `_finish` is not at
  work on it (`Held`); two holders of one key would hold what is in one slot.
  To keep that, `IInv` adds that a record has one holder (`Owners`), and that a
  claimed record keeps its slot until `_admit` as long as intents are accepted
  (`OnTheWay`): after that a shutdown or a refused call may fail it, and
  `_admit` no longer queues.
* `GateStaysBalanced` (`GateBalanced`): counting the consumers inside, by a lemma
  for entering the gate and one for every way out.
* `NobodyIsUnknown` (`NeverUnknown`).  Who was given a key finds it in its slot or
  answered, and the slot `_finish` is about to free is answered already
  (`AnswerInv`); writing a receipt forgets no answer, except those the ring drops
  (`ReceiptAnswers`).
* `LeasesLapse` (`LeaseLapses`) of the keepalive list.  While a removal waits and
  nobody else has used the prefix, nothing is left that could renew its lease:
  no row, no registration, no check under way (`Lapsing`), and the lease ends
  no later than the wait.  `Check` is the step where this matters: it goes on
  to the renewal only with the row still there.
* `WindowsHold` (`WindowHolds`) and `DropsAreDue` (`OnlyAbsentDropped`): in a sweep
  every row is young, still to be looked at, or about to be dropped
  (`Accounted`), and what is about to be dropped is too old or absent.
* `EveryIssueRecorded` (`IssuedIsRecorded`) of `Recovery`.  Once the gathers are
  over, a key with a task number has a row or a write that waits (`Traced`).
  A cancelled poll drops the write it waits for, so the rows of a handle must
  be there before the flow polls; a crash drops all writes, and then the flow is
  not over but gone.  `Calls` says that no call is under way outside the
  gathers, `Uncancelled` that the flow never finds a copy task that gave up
  while it awaits it.
* `ReadyIsTrue` (`NoFalseReady`, a part of `VerdictsAreTrue`): READY is neither a
  row nor a waiting write unless all replicas are there or one was lost.
* `VerdictsHold` (`VerdictsAreTrue`), `HandlesAreSettled` (`HandleIsSettled`),
  and `ConflictRowsStay` (`ConflictStaysFailed`), in `VerdictProofs`.  One
  invariant, `VInv`, carries the three.  Its parts say how
  far the store is (`StoreInv`), where flow and copy task stand (`StageInv`,
  `HandleInv`), what waits in the ledger's queue (`QuietInv`, `WaitInv`), what
  rows there can be (`RowInv`), which keys are watched (`WatchInv`), which rows a
  restart can find side by side (`MixInv`), and what a failure, an end and a rest
  mean (`FailureInv`, `EndInv`, `RestInv`).  `MixInv` is the heart of it: a crash
  leaves whatever rows were written, and a rebuild concludes from them alone.

The assumptions are those the modules name: a positive buffer capacity, window,
lease, gate and limit, finitely many consumers and nodes, that the model values
for "none" are no members of their sets, that no key has the name of another
call (`CallsAssumption`), positive block sizes, and that a block comes after the
one before it in its chain, which has the same namespace and pool.

The sums of `Authority` are recursive functions over sets.  What they compute is
proved by least counterexample: a non-empty set of numbers has a least element
(`LeastNat`), hence sets of numbers and of subsets closed under one more element
are complete (`Upward`, `SubsetInduction`), where the set stands for the
predicate an induction rule would take.

Model-checked only: `StreamIsSound` beyond the replay buffer, whose statement
folds over the updates on their way; the properties of keys, plans and batches
in `CopyPath` and `Precopy`, which fold over sequences too; the properties of the
worker, the refinement of `RequestService` included, whose scheduler is made of
folds; and all liveness, which the prover does not reach.

## 5. Where code and text disagree

* `view_restore`: `lib.rs:866` says that a router away during a restore gets a
  snapshot when it resumes.  If it resumes at exactly the last number,
  `replay_after` answers with an empty replay and the old view stays.
* `pq_timer`: `pq.go:177` says that a backpressure only delays a start.
  `startEligible` and the timer read the clock one after the other; a deadline
  between the two readings arms no timer, and the request waits until some other
  event wakes the loop.
* `prefetch_orphan`: `prefetch.py:116` says that on a timeout a copy that has
  task numbers hands back the handle, which is abandoned.  A timeout during
  copy's last ledger write loses the handle and leaves the rows running.
* `authority_hard`: `authority.rs:634` says that a registration beyond the hard
  quota is refused.  The plan counts the blocks of the batch that are new before
  its evictions.  If one of the batch is idle and is evicted to make room for
  the others, it is registered again and charged on top of the plan, and the
  namespace ends above its hard quota.

Seen while modelling, with no run of their own:

* `pq.go:32` says that a request nobody waits for is not requeued.  `finishOne`
  reads the mark and requeues in two critical sections; a client that gives up
  between them leaves a request that is executed for nobody.
* `prefetch.py:124` says that a shutdown with a handle at hand is not turned into
  a PrefetchError.  After a timeout the cancellation is passed to the copy task,
  which swallows it; the consumer outlives the shutdown and takes what is still
  in the queue (`CancelLost`).
* `DeregisterModel` leaves `node_refs` as they are.  After the model and a block
  are registered again, the dead-node reconciliation of a former holder takes
  back a reference that another node holds, or fails to take back its own.
  `RefsAgree` leaves these blocks out, and no other property is about them.
* A refused registration may have evicted: the durability test follows the
  commit of the admission, although the comment at `authority.rs:748` calls the
  order validate-then-mutate.
* A restore fails half way when the quota has been set below the use, or a block
  of the checkpoint has no durable location left.
* A block that becomes idle while the index is full is evicted by nobody until
  it has been referenced and released again.
* A restore that fails half way tells subscribers nothing until the next write,
  and a restarted control plane that has committed as many batches as the old
  one accepts an old number as its own: the exceptions of `StreamIsSound`.

Prefetch and its recovery:

* `backend.py:809` says that the failed row of a watched conflict is never
  rewritten.  A shutdown that lands in the wait for a ledger write, made by the
  abandon of a timeout or at the end of `_verify_watch`, abandons the handle when
  the watch set is already empty, and writes `abandoned` over it: the exception
  of `ConflictStaysFailed`.
* A cancellation between the ledger's write of `ready` and the removal of the
  handle from `_plans` makes the flow abandon a handle whose rows are final.
* `gc_tasks` may delete the old row of a conflict beside rows that are still
  running.  After the next crash `rebuild` finds the handle partial and skips
  it, and those rows stay running: the exception of `RestartSettles`.
* `task_engine.py:642` says that a restart makes up for a keepalive registration
  or an event that was not made.  `rebuild` restores only handles with running
  rows; after a crash between the write of `ready` and the registration there
  is none.

Keepalive:

* A sweep that was told "absent" deletes the row by its prefix, also when the
  prefix became READY and was registered again since; so does the sweep that
  found the old row expired.
* A renewal in flight when `remove` takes the prefix off the list grants the
  lease anew, and the removal is refused after its wait: the exception of
  `LeaseLapses`.

Copy path and tools:

* Only the room of the first target segment is asked for, and the bytes needed
  are measured once per wait, so that an eviction meanwhile counts too little:
  the exception of `AdmittedFits`.  The room is not reserved either: the property
  is about the moment the check inside the gate passes, and others may use the
  room before the copies arrive.
* A 404 of the admin port stops the intent.  When it is a gateway's, the segment
  may well be there: the exception of the property that only a missing segment
  stops an intent, a part of `VerdictsAreTrue`.
* Without an address of the target, ports alone match workers to segments.  A
  worker whose own segment is not in the list may then be given the segment of
  another host with the same port: the exception of `ResolutionIsSound`.
* A query that fails while the new bytes are measured ends the intent, whereas
  a server error of the admin port makes it wait.
* `topology.py` says that any disagreement between its sources is an error.
  Ranks at or above the TP size are ignored, and one segment claimed by two
  ranks through a socket shared across a fork is not noticed when `/proc` is
  the source; `ss` names only the first owner.
* `topology.py:389` limits the guess for one rank to a missing pidfile or port
  source; it is also made when `ssh` fails or times out.
* The key of a layer has no pipeline rank, so layers under `pp_size > 1` give
  the same key several times.  `put_step > 1` with a segment per TP rank is
  refused by `build_plan`; the tool ignores segments to spare.  `ToolsAgree` and
  `KeysAndPlan` state these exceptions.
* In the tools a failing `ps` is an uncaught exception, `ss` and `ssh` have no
  time limit, an error code of the store counts as absent, and a failed
  `setup_store` is not closed.

Worker:

* `worker_engine.py:221` says that the queue is emptied so that no caller waits
  for ever.  When the step thread fails it rejects the queue and sets the stop
  flag without the lock; a caller between its check and its put waits for good.
  At most one can, by `StrandedAtMostOne`, and `EveryRequestAnswered` excepts it.
  After such a failure the lifecycle still says SERVING.
* `PoolIface` remembers finished ids for good, so a second request with the same
  id never gives back its slots; a pool that raises was not told of an end, or
  keeps the requests of a broken prepare frozen and every later finish deferred.
  `SlotsAreReturned` leaves out both.
* The comment at `node_scheduler.py:645` calls the commit of an absolute extent
  unsafe under overlap.  It is out of date: `memory.py:57` counts the prepared
  steps, and `CountsExact` holds.
* A request whose single pull exceeds the budget is dropped from every batch
  when partial sets are allowed; the configurations leave it out.
* A start that fails leaves the lifecycle in WARM.

## 6. Not modelled

The control plane's locations by tier, orphan marks, barriers and shards, the
storage agent with its tiers, the transfer service, and the router's request path
and autoscaler are systems of their own beside what is here, each with state
shared by several actors, and are the next candidates: first the agent's put
start and put end against the authority's references, then the events of each
authority handler as inputs of `ViewSync`, then batches and the publication fence
of the transfer service.  Within the modelled parts:

* `backend.py`: `move`, which nothing calls and whose submission has `copy`'s
  form; `retain`, which raises `NotImplementedError`.
* `node_scheduler.py`: speculative decoding, which `_spec_enabled` switches off,
  and grammar masks, which change no state.  Prompts have at least one token.
* `ledger.py`: schema migration.  `daemon.py`: parsing of arguments.
* `worker.py`: the conversions of `Generate` and its choice of a status code.
* `agents/grpc_skeleton.py`: a mock agent that keeps no slots.  That an agent
  raises is modelled, what this one asks of the control plane is not.
* `coldstart.py`, `bench.py`: measurements of a loop and one joined thread.
* `src/`: the first, single-threaded sketch.

Left out for good: bytes of hashes, wire formats, tensor code, scoring functions
with floating-point weights, statistics, generated stubs, the simulator, the cost
model, smoke tests and scripts.  They are pure computation or input and output,
without steps that interleave.
