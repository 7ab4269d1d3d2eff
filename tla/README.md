# effect-opcua in TLA+

TLA+ modules, TLC runs and TLAPS proofs for this repository: the Effect client
for OPC UA in `packages/client` and the programs built on it. `PROJECT.json`
lists components, runs, the source lines each definition stands for, mutants,
findings, hazards and theorems; this file explains them.

Paths below are relative to the repository; `internal/` is
`packages/client/src/internal/`.

## The system

The client wraps node-opcua, whose calls are promises and whose news come from
event emitters, in Effect: fibers that can be interrupted at every await, scopes
whose finalizers release what was acquired, queues and streams. Everything runs
in one JavaScript thread: code between two awaits is atomic, everything else
interleaves.

| Component | State it keeps | Operations | Hard part | Correct means |
|---|---|---|---|---|
| Monitoring `internal/monitoring` | created groups, listeners, client queue, groups being ended | `monitor`, group callbacks, sample stream, close of the scope | interruption against a settling request, cleanup that is interrupted, callbacks during teardown, full buffers | no monitored item group is left on the server, reports are true, no sample is lost silently |
| Metadata `internal/metadata` | four caches per session | `variable`, `method`, `namespaceArray`, `invalidate` | discovery overtaken by `session_restored`, type hierarchies with cycles | cached metadata is current and resolvable |
| Structure runtime `internal/structures` | one memoized initialization per cache generation | `ensureInitialized`, `invalidate`, encode, decode | sharing a running initialization, failed or interrupted ones | one extraction per generation, none skipped |
| Browsing `internal/browse`, `internal/session/service.ts` | page size field of the node-opcua session, a semaphore, continuation points on the server | `browse`, `browseNext`, `releaseBrowseContinuation`, `browseChildren` | a mutable field shared across an await, interruption releases the permit before the promise ends | each browse has its own page size, lists are complete, the field is restored |
| Batches `internal/batch` | nothing beyond the call | `readMany`, `writeMany`, `callMany` | late local failure, one request of several failing, answers out of order | nothing is sent after a local failure, results belong to their keys |
| Client, session, subscription lifecycle `internal/client`, `internal/session/make.ts`, `internal/subscription` | connection, session, subscription in nested scopes, one finalizer for each thing made | layer build and close | interruption and failure while opening, order of finalizers, a close that fails | what was opened is closed once, innermost first; nothing is open on what is closed |
| Events `internal/events` | one sliding PubSub with replay 1 per level, listeners on the emitter | listeners publish, streams subscribe, shutdown ends the streams | slow or late readers, the last event against the shutdown | listeners go with the scope, a reader that keeps up learns of the disconnect |
| Inspection, values, codecs, options | none | reads and pure conversions | odd server answers | conversions are total |
| Codegen `packages/codegen` | none between runs; the output directory | discover, compile, generate, check | several paths to a node, cycles in the type graph, name clashes, files of others | nothing is left out silently, the emitted model hangs together, foreign files stay |
| Demo server `examples/demo-machine/server` | machine model, bounded status buffer, seen command ids | the commands of its catalog, the timer, getters of the panel | any order of commands, faults and mode changes; a full buffer | production only on a ready machine, every stop can be left, a command runs once |
| Demo client `examples/demo-machine/client` | status reference, submit flag, snapshot | `submit`, status stream, telemetry refresh | handshake over two variables, timeouts, evicted entries | a submit's answer is true, the flag is never lost, snapshots are coherent |
| Web example `examples/browse/web` | session per browser tab, lock, continuation tokens | Connect, Disconnect, Browse, release, cleanup | tabs that leave while a handler runs, reconnects between two pages | sessions and continuation points have one owner |
| Terminal UI, scripts | view state | rendering, release tooling | none here | not modelled |

How they interact: a session owns the metadata service and the structure runtime
and hands both to reads, writes, calls, batches and monitors; `session_restored`
invalidates both in one listener. A subscription's `monitor` validates items
through the same metadata service. The web registry opens a client and a session
in a scope of its own and closes that scope; handlers reach it under a lock, the
cleanup of departed tabs does not. The demo client is a user of session, monitor
and `readMany`; its server runs a whole command inside one write of the client.

## Modules

| Module | Models | State |
|---|---|---|
| `EffectQueue` | what the client uses of Effect's `Queue`: offer, fail, take, shutdown of a bounded sliding or dropping queue, as operators on values | no variables |
| `Monitor` | one call of `subscription.monitor` with its chunk fibers, groups, callbacks, reader and scope | fiber, chunks, groups, arrays, queue |
| `MonitorContract` | what a call promises about groups: acquired, released, given up; nothing is held when rejected or closed | outcome, held, released, scope |
| `MonitorProof` | theorems about `Monitor` and its contract | |
| `SessionCaches` | caches, structure runtime and the operations that use them under restores | caches, memo, fibers |
| `Browse` | browse family of one session | field, permit, promises, continuation points |
| `Batch` | one keyed batch operation | stage, checks, chunks |
| `SessionRegistry` | web registry, its lock, handlers and the cleanup fiber | entries, sessions, handlers |
| `BrowsePages` | extends it with the browse and release requests and the continuation tokens of an entry | requests |
| `Lifecycle` | client, session and subscription as nested scopes, their finalizers, listeners and event buses, one reader per bus | stack of finalizers, raw objects, listeners, buses, readers |
| `FillingCell` | the machine of the demo server and every command that can be accepted | machine, axes, tank, batch |
| `CellPanel` | extends it with what clients read of it: state, lights, catalog, diagnostics | none: functions of the machine |
| `CommandStatus` | the command mailbox of the demo server: one write, the bounded status buffer, the seen ids | buffer values, ids, executions |
| `DemoClient` | extends it with client layers, their submits, and the telemetry snapshot | layers, submits, writes under way, snapshot |
| `Discover` | codegen's discovery: roots, breadth-first browse, data type reads | queue, visited paths, nodes, types, issues |
| `TypeGraph` | extends it with the compiler: reachable types, order, names, variables, as functions | none |
| `Codegen` | extends it with compile, generate and check over an output directory | model, disk |
| `BrowseProof`, `BatchProof`, `SessionCachesProof`, `LifecycleProof` | theorems about those modules | |
| `RegistryProof` | theorems about `SessionRegistry` and `BrowsePages` | |
| `DemoMachineProof` | theorems about `FillingCell`, `CellPanel`, `CommandStatus` and `DemoClient` | |
| `CodegenProof` | theorems about `Discover`, `TypeGraph` and `Codegen` | |
| `MC...` | values for constants | |

### Monitor

An action is what one fiber, promise or callback runs between two awaits.
`Validate` is `validateStartupItems` and the queue and finalizer made after it.
Chunks follow `groupCompatibleItems` and `chunksOf`: a chunk, its request and its
group are named by the chunk's first item, so the module needs no identifiers of
its own. `call[l]` is the place of the chunk fiber: in flight, aborted,
*resolved* (the promise has settled, the fiber has not resumed: only the abort
listener of `monitorItemsSuccess` guards the group), terminating, done.
`registry` is `createdGroups`. The two calls of `cleanupMonitor` splice it into
local arrays, `cleaning` (strict failure, in the fiber, interruptible) and
`closing` (the finalizer, not interruptible); `at` is the group whose
`terminate()` is awaited. `finalizing` is `finalizingMonitorGroups`, which hides
the "terminated" event of our own `terminate()`. `Notify`, `GroupError` and
`GroupTerminated` are the three listeners of `wireMonitorGroup`; `LosesOne` is
the accounting of `offerMonitorNotification`.

`MonitorContract` says nothing of chunks, arrays or listeners: a group is held
from its creation until somebody asks the server to end it, a rejected call holds
nothing, and a closed scope holds nothing but what an interruption has
*forsaken*. Forsaken groups are fixed at once, by the interruption. The
refinement `Contract` maps live groups to held ones, and to forsaken ones the
groups that an interrupted strict cleanup had in its local array; `KeepsContract`
is checked by TLC and proved, without an assumption on where a call is interrupted.

### SessionCaches

Metadata has an age, the number of restores before its oldest answer; an entry is
current when its age is the present number of restores. That is all the
properties need to know of a server whose address space may change with a
restore. Data types are resolved by walking `superType`, which is any function
(TLC tries all of them: chains, gaps, cycles). The memo of a generation is
`Effect.cached`: the first caller runs it, its exit, failure and interruption
included, is what everybody gets.

### Browse

`Issue` saves and sets `requestedMaxReferencesPerNode` and sends the browse;
`Settled` and `Refused` are the `finally` block. They happen when the promise
settles, whether or not its caller is still there; `Interrupt` removes the caller
and gives the permit back at once. Children are numbers in the server's order, so
pages are intervals.

### Batch

`checks` counts the entries checked, over all passes before the first request:
none for `readMany` without validation, the metadata pass, the encoding pass of
writes and calls. `Send` follows `Effect.forEach` with bounded concurrency; requests in
flight when one fails are still executed by the server.

### SessionRegistry

A session is named by the Connect handler that opens it. `closeExisting` is
split at its awaits: lookup, release of continuations, close of the scope (only
the first close runs finalizers and waits), delete of whatever is registered by
then. Under the lock these are `Acquire`, `ReleasedUnderLock`, `ClosedUnderLock`;
in `cleanup`, which takes no lock, `TakeDisconnect` or `Abandon`,
`CleanupReleased`, `CleanupClosed`. `doomed` handlers were interrupted while
`acquireRelease` made them wait for the connection. `disturbed` is history: who
overlapped an unlocked cleanup.

Lock and cleanup are as in the code, so that a session can be lost:
`LostSessionsWereDisturbed` says exactly when.

### BrowsePages

A continuation point is named by the request whose page it came with. A request
takes a token out of the entry (`Taken`), waits for the server, and stores the
next token into *whatever entry the tab has by then* (`PageStored`), as
`storeContinuation` does. `hands` is what a request holds between those two;
`releasing` what `closeExisting` has taken out of an entry. `abandoned` is
history: points that a failed or interrupted request gave up.

### Lifecycle

`Steps(l)` is the order in which a level makes its bus, its node-opcua object and
its listeners; each step but the client's constructor pushes a finalizer. The
constructor, the promise and the wiring run inside `acquireRelease`, so an
interruption is noticed at the next step (`Interrupted`), and the branches for an
aborted signal never run. Closing pops finalizers down to the level that is being
closed; a `close` finalizer awaits node-opcua and swallows its failure. The bus
is Effect's sliding PubSub: a reader that waits gets an event at once, one that is
busy finds it in its buffer. On overflow either the newest or the oldest event is
lost: `PubSub.publishUnsafe` bypasses the strategy of the PubSub, and which of the
two a reader sees depends on where it is, so the model allows both.

### FillingCell, CellPanel

One action per command of the catalog, guarded by what its handler checks, plus
the timer. The handlers end in `updateReadiness`, which is part of each action.
`CellPanel` gives the getters bound to the nodes, so `PanelIsHonest` compares what
an operator sees with what the handlers accept: the two are computed from
different conditions in the code. One exception is the code's: the server of the
scenario `ClampFault` starts Idle with the fault active, hence without red light
and buzzer (`index.ts:1236`), where the demo's README 1161 says that the clamp fails
"when the first part is loaded". `PanelIsHonest` excepts a machine as it was
started (`AsStarted`); any accepted command makes it show the fault.

`XMovesOnlyWithZSafe` is the interlock as the demo's README 181 states it. Moves and
jogs look at the Z axis; `Machine_Start`, `Manual_HomeX` and `Maintenance_HomeAxes`
do not, so a run of its own reports the disagreement.

### CommandStatus, DemoClient

`ServeWrite` is the whole of `observeSubmit`, which runs inside the write. A
write may be answered, fail after it was served, or be lost (`WriteFails`). A
layer gets any selection of the values the buffer has had, in any order of the
actions (`DeliverStatus`): the sliding queue of its monitor drops old samples.
`submit` is the submit's program: check of the buffer, flag, write, wait for the
observed entry, wait for the terminal one, each wait with its timeout.

### Discover, TypeGraph, Codegen

Discovery is a state machine, since requests may fail at every turn; the compiler
is a set of functions applied in one step (`Compile`), as it is synchronous.
Generated names are constant functions with clashes built in, because only
*whether* names clash matters. `generate` looks at a file's owner before it
writes, and somebody else may write in between.

A reference without a browse name is dropped without an issue, and so is what only
it leads to (`discover.ts:143`): in the model its name is `NoBrowseName`, and
`EveryPathIsExplained` speaks of children that have a name. It looks at every path
the walk has *visited*, also below what is omitted, and not only at paths recorded
with a node. The code leaves a child out once more, if it has no metadata
(`discover.ts:173`). `readManyNodeMetadata` answers for each node it is asked about or
fails the run, and it is asked about every child that no rule excludes, so only a
pattern that answers differently the second time could lead there (a `RegExp` with
the `g` flag, which is not modelled).

## Runs

Twelve runs; three expect a violation and are findings.

| Run | Bounds | Shows |
|---|---|---|
| `monitor` | 3 items, 2 compatibility keys, chunks of up to 2, 2 requests at once, strict and best effort, sliding 2 and dropping 1, 3 notifications, interruption anywhere | groups are held by exactly one party and end with the scope unless a strict cleanup was interrupted, reports are true, losses are announced, the newest sample is kept, failures reach the reader, the call ends, the contract is kept |
| `monitor_leak` | 3 groups, strict, cleanup interruptible | **violated**: it does leak |
| `session_caches` | 2 operations, a variable and a method that share a type, 2 types, 2 restores | caches are current unless a discovery overlapped a restore; one extraction per generation; no operation hangs |
| `caches_stale` | 2 operations, 1 restore | **violated**: stale metadata is used after a restore |
| `browse` | 3 callers, limits 1, 2, unlimited, 5 children, interruption | own page size, complete lists, only an interruption loses the session's page size, no starvation |
| `batch` | records of 0 to 5 entries, chunks of 2, 2 at once | preflight before requests, results under their keys, fail-fast |
| `session_registry` | 2 tabs, 2 handlers, 2 browse requests, one node, leaving and cancelling | sessions are lost only next to an unlocked cleanup or an interrupted Connect; continuation points have one holder; every departed tab is cleaned up |
| `demo_cell` | 3 scenarios, two valid configurations and a refused one, 3 X and 3 Z targets, raw moves and jogs past both ends of travel, 1 counted tick | production only on a ready machine, stops can be left and only by Reset, an honest panel |
| `demo_interlock` | homing, Start, Z at Safe or Fill, no moves of X | **violated**: Start moves X with Z at the filling height |
| `demo_client` | 2 layers, 3 submits (two share a command id), buffer of 1, 1 fault, 1 tick | commands run at most once, answers are true, the flag is held, snapshots are coherent and catch up, submits settle |
| `codegen` | 3 address spaces, 4 configurations, 60 type worlds of 3 types, an unnamed reference, 1 failing request, 1 edit, 12 directories | every missing path is explained, the model is closed, `check` tells the truth, foreign files are kept, the command ends |
| `lifecycle` | each level opened at most twice, 2 emitted events, 1 failing call, bus of 1 | the scopes nest, readers learn of the disconnect, opening and closing settle |

Why the bounds are enough. Three items over two keys give two concurrent chunks,
one with two items, hence partly bad groups, and two chunks are what a race of
chunks needs; three single-item chunks with concurrency two (`monitor_leak`) leave
one not started.
Three notifications overfill a buffer of two, so that one is evicted, and one of
one, so that two are refused. Two operations are a runner
and one that shares its exit or comes later; two restores let an
operation straddle a whole generation. Two types have every
shape a walk tells apart: chain, gap, self-loop, cycle. Five children in pages of
one and two have first, middle and short last pages. Five entries in chunks of
two leave a short last chunk and a third request that waits for one of two.
In `session_registry` two handlers are a connect and its rival, two requests a
page and the request that takes, or misses, its token; three of either take TLC
longer than a run should. A status buffer of one entry is the smallest that evicts
what somebody still waits for: three submits make an entry that is awaited, its
duplicate, and one that pushes it out. Each level opened twice is an opening after
a close, and one failing call is enough to fail any step of either. The cell's
positions are the ends of travel, one past each, and the named targets between.

Deadlock checking is off in every run: calls, batches, handlers, submits, code
generation and the bounded numbers of opens and ticks are finite, and the system
really stops when they are over. Only the demo cell never stops; its run
shares the setting because a machine may refuse whatever the bounds still offer.
No run uses symmetry, since most check liveness. `SessionRegistry` and
`BrowsePages` let handlers and requests begin in the order of their names
instead: they differ in nothing else.

Bounds in guards: `MaxNotifications` (Monitor), `MaxRestores` (SessionCaches),
`MaxElapsed` (FillingCell, the ticks counted into a batch), `MaxTicks`
(CommandStatus), `MaxFaults` (DemoClient, Discover, Lifecycle: calls that fail,
time out or are interrupted), `MaxEdits` (Codegen), `MaxOpens`, `MaxEvents`
(Lifecycle).

Every property has a mutant in `PROJECT.json`: a definition of the model changed
the way a plausible bug would change the code, under which TLC finds the property
violated. Larger defects have an action of their own in the module, commented
*Defect*, which no specification uses.

## Fairness

Fair are: steps of fibers that are ready to run (the Effect runtime resumes
them), and promises of node-opcua (each transaction answers or times out).
Not fair are: interruption, opening and closing a scope, restores, notifications
and terminations by the server, starting a call, tabs that leave, timers that may
never fire, machine ticks, edits of other processes. In `Monitor` the
reader keeps pulling, which only `RuntimeFailureReachesReader` needs. In `Browse`
*some* waiter gets a free permit; each caller queues once. `SessionCaches`,
`SessionRegistry`, `BrowsePages`, `DemoClient`, `Lifecycle` and `Codegen` assume
even less: whenever a fiber or a promise can go on,
*some* one does. As every operation and every handler makes finitely many steps,
none is passed over forever. `DemoClient` adds that the newest value of a
monitored variable is delivered in the end, which the sliding queue of `Monitor`
guarantees while the stream is open (`NewestIsKept`). `FillingCell` has no
fairness and no liveness: nobody has to press a button.

## Proofs

Every invariant and every action property of a passing run is also a theorem,
for any value of the constants that meets the named assumptions.

### Monitor

`MonitorProof` proves, for every number of items, compatibility keys, chunk size,
concurrency, policy and bound on notifications:

- `TypeCorrect`, from `MonitorAssumption` and two lemmas about the queue;
- `GroupsHaveOneHolder`, `LeaksAreInterruptedCleanups`, `NothingOutlivesScope`,
  `RejectionLeavesNothing`, from the inductive invariant `GroupInv`. None of
  these is inductive: that a live group has a holder needs to know where the
  fiber can be when a chunk is in a certain state (`FiberInv`), what a chunk's
  state says of its group (`ChunkInv`), who holds a live group (`HolderInv`), and
  that `createdGroups` is empty once a local array took its content (`ArrayInv`).
  The step is proved in three lemmas: startup, cleanup, environment;
- `MonitorKeepsContract`, the refinement, one lemma per group of actions, for any
  interruption: also of the strict cleanup, which forsakes what it has left;
- `LossesAreAnnounced`, from `BufferInv`, which adds that before the monitor is
  returned nothing was sent or received;
- `NewestNotificationIsKept`, inductive next to `BufferInv`: an offer to a sliding
  queue evicts what is oldest, so that what came last stays last;
- `StartupReportIsTrue`, from `ReportInv`: which items the fiber has noted as
  created or failed, chunk by chunk as far as each chunk has got;
- `OnlyStartedAnnounces`.

`NothingOutlivesScope` assumes that `InterruptPoints` has no `"cleaning"`. The code
does not guarantee that: run `monitor_leak` shows what happens without the
assumption.

### Operations of a session

`BrowseProof` proves `BrowseOwnPageSize` and `BrowseRestoresField` for any callers,
page sizes and numbers of children. The strengthening says who may have a promise
in flight: the holder of the permit, or a caller that was interrupted. That is
exactly what the semaphore guarantees, and why the field survives only without
interruptions. `BrowsePagesAddUp` adds `PagingInv`: which answer a caller may be
waiting for (`Asks`), and that its continuation point goes on where its list ends
(`Collects`).

`BatchProof` proves `LocalFailuresSendNothing` and, as an action property,
`FailureIsTheLastSent` for any record, chunk size and concurrency. The invariant
ties each stage to the number of checks done and rules out requests before
`sending` and failed requests during it. `ResultsAreUnderTheirKeys` adds
`AnswersInv`, which entries were executed and what is in the answers, and what
the recursive function `InOrder` makes of them, for records of any length. The
library's induction theorems cannot be used for that (below); `Induction` derives
it from the well-foundedness of the naturals, for a set of them at a time.

`SessionCachesProof` proves `ExtractedOncePerGeneration` for any number of
operations, restores and any hierarchy: every step leaves the memos alone, starts
the one of the present generation, or ends a running one (`MemoStep`).
`CachesAreCurrent` needs `AgesInv`: as long as no discovery has overlapped a
restore, everything cached and everything a fiber has in hand between two of its
awaits has the present age.

### Web registry

`RegistryProof` has one inductive invariant, `PagesInv`, for any number of tabs,
handlers and requests:

- `RegistryInv` says where each handler and the cleanup can be (`ActorInv`), that
  only the holder of the lock is past it (`LockInv`), what a session's state says
  of its handler and its entry (`SessionInv`), who is `disturbed` and why that
  lasts (`DisturbedInv`), and that an open session is reachable from a party that
  will close it unless it is disturbed (`LostInv`). The last is
  `OnlyDisturbedSessionsAreLost`; the others are what makes it inductive;
- for the continuation points, what a request may have in hand (`HandInv`), that
  no two parties have the same point (`UniqueInv`), and that a point nobody has
  was abandoned or went with a session (`KeptInv`). `PointsAreHeldOnce` follows.

What the steps of `SessionRegistry` do to the points is stated once for all of
them: each moves those of at most one handler or of the cleanup (`PointsStep`).

### Demo machine

`DemoMachineProof` proves the types, the two invariants
(`OnlyReadyMachinesProduce`, `StopsCanBeLeft`) and the two action properties
(`StopsAreLeftByReset`, `InterlockBreaks`) of the cell for any configurations,
targets, positions, jogs and velocities. `InterlockBreaks` delimits the finding of
`demo_interlock`: besides `Home`, which takes Z to Safe before, only the start of a
batch and the commands that home X by itself or before Z move the X axis while Z is
elsewhere. The inductive invariant `CellInv` adds to
what is claimed: no axis is in motion and the pump never runs between two commands
(`Resting`), a configuration that counts as valid is the one the batch was made
for (`Configured`), and where the nozzle can still be open in a stop
(`Recoverable`). Without the last, a faulted machine in Automatic with an open
nozzle would refuse every command. `PanelsAreHonest` needs `PanelInv` on top:
an axis with a target is at the position of that target (`AtTargets`), an active
fault has stopped the machine unless it was there from the beginning
(`FaultsShow`), and an inspection has a reason exactly if it failed (`Reasoned`).

For the client it proves, for any submits, layers, command ids, buffer capacity
and bounds, that commands run once, answers are true, the flag is held and
snapshots are coherent. `DemoInv` has the server's part first: every entry of
every buffer value there has ever been is one that agrees with the executions and
whose id is seen (`TrueEntries`), so that it stays true; then that whatever a
layer has sampled or a submit has found is such an entry, however old. The flag
needs that at most one submit of a layer writes (`FlagInv`).

### Lifecycle

`LifecycleProof` proves `LevelsNest` and `DisconnectIsRead` for any buffer size
and any number of opens, events and failures. `ScopesNest` is far from inductive.
`NestInv` says that the finalizers are always the first `n` of one fixed list of
ten (`StackInv`), reads off `n` which buses, listeners and connections there are
(`ResourceInv`), bounds `n` by where the opening or closing is (`ControlInv`),
and follows the disconnect through the reader's backlog (`ReaderInv`).

### Codegen

`CodegenProof` is about any address spaces, configurations, data types,
generated names, files and directories.

- `ChecksAreTrue` and `ForeignFilesStay` come from `OutputInv`: what the phase
  says of the command and the file at hand, that a file about to be written is
  the generator's own or was edited since (`OwnsFile`), and that `check` has
  found nothing exactly if all files so far are current (`FoundSoFar`).
- `PathsAreExplained` comes from `WalkInv`: whatever object lies below a visited
  path and is not pruned was visited under its path or is in the queue
  (`Awaits`), and each other child of a visited path is known or explained
  (`Accounted`). Steps only add to what is known, reported and visited (`Grows`).
  It needs that the children of a node, put in the order of their names, are all
  there (`InOrderHasAll`): each has the place of its rank, a fact about
  cardinalities.
- `TrailsAreExplained` is what a user can take from it: a trail of references from
  a root through Objects, of any length and through any number of omitted nodes,
  ends at a node known under its path unless an issue names this path as omitted or
  pruned, or one before it as pruned or refused. TLC cannot quantify over trails of any
  length; the theorem follows from `EveryPathIsExplained` by induction on them.
- `ModelsAreClosed` says that whatever `compile` accepts hangs together. The hard
  part is `StructuresSorted`: the depth-first walk of `sortStructures` puts each
  structure after those it refers to. The walk is a recursive function on
  places [seen, sorted, pending], so first it must be shown to exist
  (`VisitExists`): with its depth bounded by `k` it does, and for each place the
  bounded ones settle, by induction on how much is left to see and to do
  (`WalkInduction`). Then `VisitSorts` follows what the code relies on
  implicitly: the structures being visited are never reached again. That holds
  because `recursiveStructureFields` leaves out every field that leads back:
  the closure it computes in as many rounds as there are types is closed
  (`ClosureIsClosed`, which counts: each round adds a type or none is left to
  add), hence *reaches* is transitive, hence what is left makes no circle
  (`StructuresMakeNoCircle`).

The root clause of `EveryPathIsExplained` is about roots of a known node class,
as the code drops a root of any other without an issue.

### Assumptions

`DiscoverAssumption` and `CodegenAssumption` give configurations, spaces and
directories their shape. `TypesAssumption`: a server has finitely many data
types and an answer, if only that there is no definition, for each it refers to.
`TypeNamesAssumption`: a generated type name has a place in the order of names;
no name has one of its own, too, and is refused by `compile`. The other
assumptions say that bounds are naturals and sets finite or not empty. TLC
evaluates all of them in the runs.

The type invariants are proved, not run: `TypeCorrect`, `CachesTypes`,
`PagesTypes`, `CellIsTyped`, `DemoIsTyped`, `LifecycleIsTyped`.

### Only model-checked

The liveness properties, since the prover knows neither fairness nor `ENABLED`:
`CallEnds`, `RuntimeFailureReachesReader`, `EveryOperationEnds`,
`EveryBrowseEnds`, `LeaversAreForgotten`, `SubmitsSettle`, `SnapshotCatchesUp`,
`ScopesSettle`, `CodegenEnds`. And what the three runs that expect a violation show.

Some definitions are written for the prover's sake: no module declares a
`RECURSIVE` operator, a recursive function takes one argument (a record where the
code passes several), and unions and differences of a `UNION` are in
parentheses. Induction theorems of the library take an operator as a parameter,
which the provers cannot instantiate; `Induction` takes a set instead, and follows
from facts about well-founded relations.

## Findings

1. `cleanupMonitor` of a strict failure empties `createdGroups` before it awaits,
   interruptibly, each termination (`internal/monitoring/runtime.ts:176`, `546`).
   Interrupted there, the remaining groups stay on the server although
   `docs/contributors/monitoring.md:91` promises their cleanup (`monitor_leak`).
2. A discovery under way at `session_restored` fills the caches after they were
   cleared (`internal/metadata/service.ts:166`, `179`, `212`), against
   `docs/contributors/client-session.md:64` (`caches_stale`).
3. `Machine_Start` moves the X axis to Load without a look at Z
   (`examples/demo-machine/server/src/index.ts:2974`), against the demo's
   `README.md:181`, "X may move only when Z is at SafeHeight.", and 552, which asks
   for it on Start. TLC's way there: Configure, Manual mode, Home, Z to Fill,
   Automatic mode, where the machine is Ready again, Start (`demo_interlock`).
   `Manual_HomeX` (3038) does not look either, and `Maintenance_HomeAxes` (3168)
   homes X first, where README 529 has Z first. The simulated positions jump, so
   nothing collides; a client that learns the interlock here learns it wrong.

Met on the way, stated by passing properties instead of runs of their own:

- An interrupted browse releases the permit while its promise still owns the
  page size field; the next browse saves the wrong value and restores it last
  (`internal/browse/operations.ts:86`), where `docs/contributors/browsing.md:24`
  says that browses do not race on the field. `OnlyInterruptionLosesField` says
  that nothing else loses it.
- `cleanup` of the web registry takes no lock (`session-registry.ts:200`): a tab
  that leaves while its Connect opens a session leaves that session open, and
  nobody closes the scope of a Connect that was interrupted while opening.
  `LostSessionsWereDisturbed` says that no other session is lost.
- A page whose metadata cannot be read has lost its continuation point: it is
  neither stored nor released (`dto.ts:136`). `PointsHaveOneHolder` allows for
  it through `abandoned`.
- `docs/contributors/errors-events.md:82` lists a client event
  `ConnectionFailed`, which the code does not have.

## Abstractions and what is not modelled

- Values, codecs, schemas, node ids and option normalisation appear as *passes*
  or *fails*; pure conversions (`values`, `codecs`, `definitions`, `options.ts`)
  keep no state and are not modelled.
- Effect and node-opcua are external and modelled from how the code uses them:
  an interrupted `tryPromise` aborts its signal and the promise goes on;
  `acquireRelease` acquires uninterruptibly; `Effect.cached` keeps every exit;
  a semaphore's permit is released on interruption; a sliding queue evicts its
  oldest message; finalizers run last in, first out.
- The owner closes a monitor's scope only after the monitor fiber has ended.
- A fiber's voluntary yield after a number of operations is not modelled: fibers
  switch at awaits.
- Notifications between the creation of a group and its wiring, and events of a
  session between its creation and its wiring, reach nobody and are not counted.
- `SessionRegistry` has sessions, not connections: that a connection outlives a
  failed `createSession`, or a close that was interrupted, is outside it.
  `Lifecycle` has one client with one session and one subscription at a time.
- Address spaces of the `codegen` run are acyclic. The visit key of discovery
  contains the path (`discover.ts:97`), so that a cycle of organizing references
  is walked forever; the code sets no bound. A user's
  `RegExp` with the `g` flag, which keeps state between two tests, is not modelled.
- Of codegen the emitted text (`emit.ts`), the loading and validation of the
  configuration and the command line are left out, and so is the map of data type
  node ids that `assembleModel` makes (`compile/model.ts:109`): a structure and an
  enum of one generated name overwrite each other there, which `ModelIsClosed` does
  not look at. Of data type definitions, the
  normalisation of single fields, hence both components are *partly* modelled.
- Node metadata and inspection (`readManyNodeMetadata`, `inspectNode`) read
  attributes in batches of 50 and keep no state; they are not modelled beyond
  the failure of such a read in `BrowsePages`.
- Of the demo server, building the address space, encoding values and the
  commands that are refused in every state (`AcknowledgeSafetyReset`,
  `ClearCompleted`: nothing in the server creates the states they need).
- The web client and the terminal UI are views without a protocol of their own;
  scripts are release tooling.

## Plan

Done: monitoring, caches, browsing, batches, web registry; then lifecycle and
events, demo server, demo client, codegen, continuation tokens; then theorems for
every invariant and action property. What would add most next:

1. A `Session` module that composes `SessionCaches` and `Batch` under a
   `Lifecycle` scope, and an abstract cache that `SessionCaches` implements for
   operations that no restore overlaps.
2. Proofs of what a liveness property rests on: measures that decrease with every
   step of a fiber, and that an unfinished operation always has a step to take.
3. Node metadata batches and `inspectNode`; connections in `SessionRegistry`.
