# Verification of the Supernote module generator and its runtime

The repository is a command-line generator (Python, `src/src/supernote_module_generator`)
for native modules of Supernote plugins. It reads the C++ and Kotlin/Java declarations of
a plugin's *features*, checks them, and writes JSI bindings, Android packaging and a
shared native runtime. The runtime (`src/npm/supernote-runtime`, whose C++ text is also
emitted by `plugin_runtime_codegen.py`) is loaded into the host's React Native process
and carries every call between JavaScript, C++ and the JVM.

## Inventory

### The runtime (C++ / Kotlin, many threads)

| component | state | operations | who runs them |
|---|---|---|---|
| `PendingOperation` | `winner_`, cancellation source, work handle, cancel hook, internal completion, teardown rejection | `set_work`, `set_cancel_hook`, `claim`, `take_*` | JS thread, workers, coroutine threads, closing threads |
| `FeatureSession` | `state_` (ACTIVE, CLOSING, INACTIVE), `pending_`, `services_` | `accept`, `schedule_completion`, `claim_internal_completion`, `close_feature`, `close_runtime`, `service<T>` | the same |
| `RuntimeSession` | `active_`, `scheduler_`, `features_` | `schedule`, `invalidate`, `cleanup_physical` | JS thread, workers, invalidating thread, cleanup worker |
| `BoundedExecutor` | queue, `stopped`, worker threads | `submit`, `WorkHandle::cancel`, worker loop, `shutdown` | any thread, workers |
| `DeferredDestruction` | queue, `stopping`, one lazy worker | `submit`, worker loop, `drain_and_shutdown` | any thread, cleanup worker |
| `ProcessServices` | JVM completion map, retired runtimes, retry worker, `restart_required` | `register/discard/complete_jvm_async`, `retire_runtime`, retry loop, `shutdown` | any thread, retry worker |
| bootstrap (`runtime_bootstrap.cpp`) | `g_sessions`, registrar publication | `nativeInstall`, `nativeInvalidate`, `JNI_OnLoad` | JS queue thread, module thread |
| generated bindings | arguments under a conversion budget, retained inputs | preflight, convert, call, convert back | JS thread, workers, coroutine threads |
| `CppObjectRegistry`, `JvmObjectRegistry` | which JavaScript handle stands for which instance | wrap, finalize, release | JS thread, both collectors, cleanup worker |
| `SupernoteModule.kt` | lifecycle of a module instance, loaded-library slots | `initialize`, `invalidate`, `loadNativeLibrary` | React Native module threads |
| `SupernoteCoroutineBridge.kt` | one coroutine job per suspend call | launch, cancel, complete | coroutine threads |

### The generator (Python, one process at a time, may be killed at any point)

| component | state | operations |
|---|---|---|
| operation lock (`operation_lock.py`) | lock file and its owner | acquire, release |
| generation (`generation_plan.py`, `generation_service.py`, `generation_execution.py`) | ownership manifest, incomplete marker, generated files | plan, stage, validate, delete stale, publish, finalize |
| integrity manifest (`integrity_manifest.py`) | recorded owners and digests | load, compare, write |
| add (`feature_operations.py`, `feature_generator.py`, `filesystem.py`) | staged scaffold, published feature | stage, publish, resume, reject |
| filesystem boundary (`filesystem.py`, `windows_authority.py`) | pinned directories, protected sources, native handles | open, replace, remove, verify, claim and release handles |
| source guard (`filesystem.py`) | a bundle of protected sources, its manifest | take, finish, restore |
| subprocesses (`subprocesses.py`) | a process tree | run, stop |
| front ends (`cpp_lexer`, `cpp_declarations`, `jvm_frontend_service`, projections, routes) | none (pure) | parse, resolve |
| semantic model (`semantic.py`, `semantic_types.py`, `reachability.py`, `lowering.py`, `conversion.py`) | none (pure) | check, order, lower |
| code generators (`*_codegen.py`) | none (pure) | print text |
| CLI, interaction, devconfig | answers of the wizard, the environment | dispatch, ask, apply and restore, map errors to an exit status |
| doctor (`doctor.py`) | baseline inventory, selected SDK, checks | probe, compare, report |
| package resolution (`node/resolve-packages.js`, `compose-packages.js`) | none (pure) | resolve and compose npm packages |

How they interact: `SupernoteModule` loads one native library per plugin build and calls
`nativeInstall`, which creates a `RuntimeSession` and runs the registrars; a registrar
creates the `FeatureSession`s. A JS call goes through a generated call site: `accept`,
continuation registration, `submit` to the one process-wide executor, and back to the JS
thread through `RuntimeSession::schedule`. Teardown comes from `nativeInvalidate` (the
runtime) or from a feature's own close.

### What is hard, and what correct means

* One operation, three parties that want to end it (a worker or coroutine that finished,
  a feature close, a runtime teardown), none of them holding the others' lock. Correct:
  one of them wins, the promise is settled at most once and with the winner's outcome,
  and the losers leave nothing behind.
* Cancellation data (work handle, hook) is attached *after* the operation is visible to
  a closing thread. Correct: whichever side comes second does the cancelling.
* Invalidation must be immediate, must not run user destructors on its own thread, and
  its cleanup must happen although queues are bounded and threads may fail to start.
* A generation or an `add` killed at any instruction must leave a tree that the next
  command recognises.
* JavaScript decides nothing about collection: handles, bound methods and instances go in
  any order. Correct: one instance has one handle, and what a worker uses is alive.
* The author, an editor and the tools work in the tree that the generator reads, protects
  and fills. Correct: what is read is one version, and what the author wrote is neither
  overwritten nor dropped, but for the windows between two system calls that the properties
  name.
* A Windows handle number is reused at once, by anybody in the process, and Ctrl-C arrives between
  a call of the system and its record in the registry. Correct: only handles that are still one's
  own are closed, and none is forgotten, but for the interrupts that the properties name.
* Two families of sources are projected, merged, planned and rendered by separate code.
  Correct: what is declared to JavaScript is what a call can reach.

`PROJECT.json` lists the hazards with the lines where they bite.

## Modules

| module | models | proofs |
|---|---|---|
| `AsyncOps` | sessions, pending operations, executor, generated asynchronous call sites, feature close, invalidation | `AsyncOpsProofs` |
| `OperationContract` | the abstract promise of an operation: decided once, shown at most once; `AsyncOps` implements it | `AsyncOpsProofs` |
| `Retirement` | `nativeInvalidate`, retired runtimes, retry worker, cleanup queue, shutdown | `RetirementProofs` |
| `ServiceSlots` | `FeatureSession::service<T>` and the slots' share of `close` | `NativeProofs` |
| `CppObjects` | `ManagedRef`, `CppObjectRegistry`, handles, method functions, asynchronous method calls | `CppObjectsProofs` |
| `GenerationPublication` | `add`, `update`, `validate`: lock, plan, marker, deletion, publication, manifest, validation | `GenerationPublicationProofs` |
| `AddPublication` | the scaffold of a new feature: staging, atomic rename, marked directory, resumption | `HostProofs` |
| `SourceTree` | which paths are protected and which whole subtrees the bundle copies | `HostProofs` |
| `SourceGuard` | the protected-source guard, its bundle, finish and restore | `HostProofs` |
| `CoherentRead` | reading and hashing entries while others change them | `HostProofs` |
| `WindowsAuthority` | generations of raw handles, retained ancestors, retirement | `HostProofs` |
| `Subprocess` | `run_process`: capture, streams, timeout, interrupts, process groups | `HostProofs` |
| `Doctor` | baselines, stages, SDK selection, verdict | `HostProofs` |
| `CommandLine` | menu, wizard, confirmation, lock, environment, exit status | `HostProofs` |
| `Vectors` | what a scan that erases leaves of a `std::vector`; used by both object registries | `VectorTheorems` |
| `Conversion` | preflight, conversion of arguments and results under a budget, by both lowerings and the reference | `NativeProofs` |
| `JvmObjects` | `JvmObjectRegistry`, global references, handles, synchronous, blocking and suspend calls | `NativeProofs` |
| `ModuleLoader` | `SupernoteModule` and the registrar handshake, over reloads | `NativeProofs` |
| `SemanticModel` | projection of sources, checks of an API, merge of families, routes (operators) | `FrontendProofs` |
| `Frontend` | one feature from its sources to the installed calls, with the reachability worklist | `FrontendProofs` |

`MC<module>` instantiates a module for TLC. Components that share no state run side by side
in one instance: `MCHostFiles` (`SourceTree`, `SourceGuard`, `WindowsAuthority`,
`CoherentRead`), `MCCommands` (`Subprocess`, `Doctor`, `CommandLine`, `AddPublication`, `Frontend`) and
`MCNative` (`Conversion`, `JvmObjects`, `ModuleLoader`) choose one part in the initial state
and hold the others still, so no interleaving that matters is lost. They extend their components,
so the proofs and the runs speak of the same definitions and each assumption on a constant is
evaluated; `MCCommands!AddRecovers` is `FeatureAppears` of `AddPublication` where that part runs. Definitions whose comment begins with
"Mutant" are plausible bugs; each replaces one definition of the model to show that a
property can fail. In a module that has a proof, the parts of the inductive invariant
stand next to the properties.

### AsyncOps

State: `RuntimeSession` (`active`, `hasScheduler`, `attached`), the progress of
`cleanup_physical` (`cleaner`), every `FeatureSession`'s `state_` (`fstate`) and which of
its two `close` callers is in it (`closeBy`), and per operation the fields of
`PendingOperation`, the executor's, the coroutine's and the JS side's view of it. An action
is one critical section or one atomic access of the code, named after the function:
`Accept`, `Register`, `SetCancelHook`, `Submit`, `SetWork`, `Exhausted` are the call site in
order; `WorkerPop`, `WorkerStart`, `WorkerFinish`, `WorkerLaunch`, `SetJobHook`,
`NativeComplete` the worker and the coroutine; `JsStartComplete`, `JsClaim`, `JsSettle`,
`JsStartReject` the posted JS tasks; `CloseFeature` ... `CloseFinish` one iteration each of
`close`; `Invalidate`, `CleanupBegin`, `CleanupFeature`, `CleanupEnd` teardown.

Reductions: critical sections that commute with the flip of `active_` are merged
(`accept`, `schedule_completion`); a winner's compare-and-exchange and its
`request_cancel` are one step, and so are taking a hook and running it; both queues are
unordered, which allows more behaviours than the code. A destroyed `FeatureSession`
(`weak_ptr` expired) behaves as an inactive one. JNI allocation failures are not modelled.
The branch of `CloseClaim` in which close finds its operation decided is unreachable
(`DecisionInv`).

### Retirement

State: `g_sessions`, `retired_runtimes_`, `scheduled_retirements_`, `restart_required_`, the
cleanup queue, and the phases of the invalidating threads (`inv`), the retry worker, the
cleanup worker and `shutdown`. Each session is invalidated at most once, as
`SupernoteModule.invalidate` guarantees by clearing its `sessionId`. `workers_.shutdown`
belongs to the executor and is left out.

### ServiceSlots

State: the fields of `ServiceSlot`, each thread's position in `service<T>` with its local
`attempt`, and `close`. An instance is named by the attempt that made it. A factory may
return or throw; what a user's constructor calls in turn is not modelled.

### CppObjects

State: life and address of instances, the registry's entries, handles with the two stages of
their collection, method functions, calls, the cleanup queue. `Settle` destroys what nobody
holds any more on the thread of the step. One nominal type per instance, and the plugin keeps
no `shared_ptr` of its own, so wrap's conflict branch is taken only if the registry confuses
two instances.

### GenerationPublication

State: the authored tree (which features exist and export JVM symbols, and its `version`),
the generated leaves on disk, which of them somebody else changed (`touched`), the marker, the
manifest, the lock's `holder` and the `job` of each process. An action is one call of the
code that reads or writes shared state: `TakeInventory`, `RenderOwned`, `ComparePlan` are
`GenerationService.plan`; `ValidatePreconditions` to `ClearMarker` are the executor in its
order; `RunFrontend` is KSP with the mutation check after it; `Validate` the final
validation. `Stop` ends a command anywhere: a kill, an interrupt or an exception. The
author edits sources, deletes module directories and edits or deletes generated files at any
moment.

Abstractions: a leaf is the group of files of one owner that are always rendered together;
its content is the version of the sources it was rendered from and the stage (bootstrap or
final), so every edit is taken to change every leaf; a JVM leaf carries the version KSP read.
Checking and renaming one leaf is one step, because no other generator process can come
between and a foreign edit in that instant is indistinguishable from one just after it in what
it loses. The staging directory is invisible. The preflight outside the lock is merged with the
one under it. The scaffold of `add` appears at once; how it comes about is `AddPublication`.
Invalid sources are not modelled: they
end a command as `Stop` does.

### AddPublication

State: the staging directory, the parent, the directories that the destination names or that
somebody moved away (`dirs`), and the command. The actions follow `_publish_scaffold`: build,
rename without replacing, and on a filesystem without that rename create, mark, fill and unmark
entry by entry. Each directory is made, opened by its name and compared; each file is created
exclusively, written through its descriptor and compared with its name; the author works between
any two of these calls. `StartAdd` inspects what is there, and resumes only an incomplete
directory whose marker names the same configuration. The author edits in place, saves by renaming
(`held` loses the name), adds, moves, replaces and redirects; `Interrupt` runs the handlers, `Kill`
runs nothing and may cut a write. The author deletes no entry by itself: a file deleted while the
command has it open fails the same comparison as one saved anew.

The code does not keep everything the author may do. What is written in place into a file between
its exclusive creation and the command's write is written over, with the mode of a directory just
made; an empty directory put in the place of the one just made is taken for it. `AuthorWorkKept`
names these exceptions and nothing else: the file must be one this run created and still has open
under its name, and the directory must be bare.

### The file system: SourceTree, SourceGuard, CoherentRead, WindowsAuthority

`SourceTree` walks one path at a time and compares the two walks of the code (inventory and
snapshot roots) at every step. `SourceGuard` has the authored leaves with the number of the edit
that wrote them, the bundle with its manifest, and the guard's position; `Fault` lets any call
fail, `FinishInterrupted` hits finish once or twice, `Killed` ends it anywhere, and a later process
restores from what the bundle says. The recovery of one entry is the calls of
`_restore_backup_entry_atomic` one by one: the copy beside the entry, the look whether the name is
taken, two renames, the comparison, and on a failure the removal of whatever has the name and the
rename back; then the caller's comparison with the manifest. An editor may write between any two.
`os.replace` overwrites and the handler removes what was written at the name since the code last
looked, so `LiveContentKept` keeps an account (`witness.owed`) of everything the recovery takes
away from a name and excepts exactly what was written there unseen (`Unseen`, `witness.exposed`);
each of its cases is needed, the property fails without it. `CoherentRead` has inodes with a modification stamp, names and a reader
that is at one system call; every change of the tree is between two of them. 

`WindowsAuthority` has the handle table of the operating system (`allocated`, `foreign`), the
descriptors of the C runtime (`crt`), the registry and one opening or conversion at a time. The
registry has the generations it registered (`handles`, `descriptors`), the closes it owes
(`retired`), those it cannot tell the outcome of (`ambiguous`, and of these what was retired,
`residual`) and the transitions an interrupt left incomplete (`pending`), whose newest token
`close_raw` takes for the current generation. A close succeeds, fails, is interrupted with an unknown
outcome, or is cut before its record. Ctrl-C also separates `CreateFileW` from the claim, the
conversion to a descriptor from its registration, and cuts a claim before, within or after its
transition. What an interrupt takes from the module before it could be claimed is in the history
`lost`; `torn` marks the histories in which an interrupt left the registry with a wrong generation of a
number (a close was cut before its record, or a claim could not replace an older token,
registration or ambiguity). The two properties except these by name, and the run
`host_handle_reuse` shows that one such interrupt is enough to close another open's handle.

### Commands: Subprocess, Doctor, CommandLine

`Subprocess`: a tool, a helper in its group and a daemon outside it, the pipes' writers, the
pumps and the position in `run_process`. `Doctor`: what a check finds is chosen when it looks;
`needs` remembers whether the facts are what the Android build will use, so the verdict is
compared with the machine and not with the checks' own answers. `CommandLine`: one run of the
program from arguments or menu to its exit status, with going back in the wizard, Ctrl-C, end of
input and a closed pipe at every prompt; a service is an outcome.

### The native side: Conversion, JvmObjects, ModuleLoader

`Conversion` takes every signature and argument of a bounded universe through the preflight and
the call of the C++ or the JVM bindings and compares with what `conversion.py` prescribes. The
emitters differ in five parameters (the depth they start at, the kinds they reserve storage for,
whether a field must be an own property, whether they are generated code or the reference, and what
the classes do that they build instances of); the walk over types and values is shared, and each of
its definitions is mapped to the emitter it was read from. Generated code stores a float32 in four
bytes and a string as UTF-8 (`Narrow`): a fraction between two floats and a lone surrogate come back
changed, where the reference keeps the one and raises on the other. It reads fields of any object, a
handle or a byte array included. A JVM value is built by the author's constructor (`Built`), which may
throw or keep other fields than it was given, its getters may throw or return null, and an unknown
name makes `fromName` of an enum throw; `Authors` and `Build` say what the author's classes do. A type and a value are each one shape of
record, in JavaScript and in native code; `Types` and `Values` are closed under their parts. The walk
is a recursive function of the levels that are left below `MaxDepth`: a converter that starts at depth
1 starts one level lower, and below the last level everything exceeds the limit. The temporary storage
may run out at any node, the feature may close before the implementation runs, and the implementation
may throw. `JvmObjects` keeps global references, handles with the two stages of their
collection, registry entries and calls; two objects share a hash and a type. `ModuleLoader` has
every module instance's life cycle, the library copies in the process, the generations reserved
in the system properties, the lock on those properties and the registrar's publication.

### SemanticModel and Frontend

A source is what a scanner found: a function, an unmarked owner, an object, a value or an enum,
with its spellings of types. `built` says that it has the constructor or the modifiers its kind
needs (the code of the JVM family decides part of this in `_value_constructor`, later, and both
refuse the feature). A semantic type is the leaf at its bottom with its arrays and nullables around
it, as the frontends build it. The two depth-first searches of the code, for cycles of values
(`_validate_value_cycles`) and for conversion plans (`_plan_value`), are recursive functions of the
set of values the search is inside of; the references that a route check meets (`Met`) are the least
set closed under the fields of values, which is what the code's walk with its set of visited values
ends with. `Frontend` runs the steps of `GenerationService.plan` for a feature:
projection of each family, merge, reachability, conversion plan, cross-family check, and one
renderer per family working from its own API. The worklist is taken in any order, the code's is
first in, first out.

## Runs

| run | instance | shows |
|---|---|---|
| `async_safety` | 2 features, a blocking callback and a suspend promise, 2 workers, 1 queue slot, scheduler may throw (466 000 states) | agreement of outcome and winner, release of cancelled work, refinement of `OperationContract` |
| `async_liveness` | 1 feature, a blocking promise and a suspend callback, 1 worker, 1 slot (92 000) | promises settle, teardown drains |
| `retirement` | 3 runtimes, room for 2, queue of 1, threads may fail (724 000) | nobody forgotten, an accepted invalidation is cleaned once |
| `service_slots` | 3 threads, 2 declarations (97 000) | one instance, own exception, no endless wait |
| `objects` | 2 instances, 2 addresses, 2 handles, queue of 1 (125 000) | identity, no false conflict, receivers retained, instances destroyed |
| `objects_function_reuse` | a method function called twice | finding: no receiver for the second call |
| `generation` | 2 processes, 1 feature, 3 changes of the sources, 1 fault (313 000) | mixed trees are marked, ownership is handed over, rerunning recovers |
| `host_files` | 2 protected leaves, 3 edits and 2 faults; paths of 5 components of 8 names; 4 opens on 3 handle numbers, with 2 interrupts or failed closes; 3 changes under a read (875 000) | roots cover the inventory, a change or a recovery loses no content, handles are closed by their owner and accounted for but where an interrupt took them, reads are coherent |
| `host_handle_reuse` | the same | finding: an interrupt between a close and its record closes a later open's handle |
| `commands` | a tool with helper and daemon, 2 interrupts; doctor on every combination of facts; 2 package names; 2 configurations, 2 kills, 2 acts of the author; 13 206 features: two C++ types in every relation, odd sources, two families (363 000) | calls end, trees are stopped, verdict and exit status are honest, names follow the package, features are whole, the author's work is kept, rerunning `add` recovers; the public surface is the closure, what is installed is declared and once |
| `native` | 24 types and 2 parameters; arrays of 2 and 3, depth 3, 6 visits; 2 objects, 3 references, 2 handles; 3 module instances of 2 binaries, limit 2; classes that keep, require, trim, pad, throw or return null (1 655 000) | what the reference accepts both lowerings accept, with the native values that floats, strings and classes allow (C++: with the same budget), or a constructor refuses it, preflight agrees, an argument that no constructor changed can be echoed, identity and receivers of JVM objects, sessions end with their module, generations stay bounded |
| `frontend_uninstalled` | the same 13 206 features | finding: declared calls that are never installed |

Why the bounds are enough. Two operations of two kinds are what can compete for one worker,
one queue slot and one closing thread; both runs together have every combination of body and
delivery. Three runtimes are one more than the map holds; the liveness property is stated for one
of them, which the specification treats like the others. Three threads are a constructor, a
waiter and one that overtakes the waiter. Two instances and two addresses allow an address
to be used again; a queue of one is full at the second release. One feature gives a runtime
leaf, a feature leaf and a JVM leaf, each with its own fate when JVM exports come and go;
three changes allow an add, an edit that turns it into a JVM feature and a change under a
running command. In `host_files`, five components are the deepest prefix that the code
distinguishes (a scoped feature below `local_modules`) and one more; a third handle number makes a
reused one differ from the parent's and the leaf's, and four opens are a parent, a leaf and two that
take the numbers they leave; two leaves are one restored and one still to
restore. In `commands`, two kills allow a resumption to be killed, and two acts of the author one
before and one after it. In `native`, the limits are at what two elements of the universe reach and
three exceed, so each is met from both sides; two generations are one fewer than the instances. In
the features of `commands`, two types are enough for a cycle, for a type reached only through the other and for a
namespace that becomes an instance. Safety does not hang on these bounds where it is proved.

`CHECK_DEADLOCK FALSE` appears where all calls may be finished and everything is at rest.

## Fairness

`AsyncOps`: threads inside a handler run on, a queued item is popped, a posted JS task is
run, implementations end; nobody has to call, close or invalidate. That cleanup of an
invalidated runtime is started at all is what `Retirement` shows (`PromisedCleanup`).
`Retirement`: the same, and the retry worker's offers are not refused for ever (strong
fairness): the queue it competes for is drained by a worker that only runs destructors.
`ServiceSlots`: factories end. `CppObjects`: only the cleanup worker runs on; the collector
need not. `GenerationPublication`: a started command runs on, and the user reruns a plain
`update`, as the messages of the generator ask them to; strong fairness, because other
commands may hold the lock in between. `AddPublication`: a started command runs on, the user
runs the same `add` again and removes or repairs what its message names (a leftover staging
directory, an incomplete directory it refuses to resume, a redirected parent); strong where
another run may come first. `Subprocess`: the call runs on and signals that were sent are
delivered; the tool itself may hang, ignore SIGTERM or fork.

## Proofs

All of these hold for every value of the constants that satisfies the named assumptions:
`RetirementAssumption`, `AsyncAssumption`, `SlotAssumption`, `ObjectsAssumption`,
`JvmObjectsAssumption`, `LoaderAssumption`, `GuardAssumption`, `LimitsAssumption` and
`DoctorAssumption` ask for numbers where the code has sizes, limits and versions; they,
`FeaturesAssumption` of `GenerationPublication` and `NoneAssumption` for `None` values that are no element of a set; `CommandLineAssumption` and `AddAssumption` keep the marks of
the model apart from names of packages and contents of files; `ProcessesAssumption` has finitely
many processes and `HandlesAssumption` positive handle numbers, as the operating system has them.
`FeaturesAssumption` of `Frontend` has what a scanner delivers: finitely many sources, of two
families and five kinds, an enum with constants only. `ConversionAssumption` says that the parts of
types and values are types and values, that the limits are numbers, and that the temporary storage has
room for one pointer at each visit, as it has with the limits of `conversion.py:63` (262 144 visits,
64 MiB), the only ones the generator uses; about the author's classes it says nothing.

* `AsyncOpsProofs`. `SettlementInv` says, per operation, what each party may assume of the
  others: a decision belongs to one JS task, a task that settles has a registered
  continuation, an operation not yet decided is in `pending_` or in the hands of `close`.
  The safety properties are not inductive without it: the claim alone does not tell that the
  continuation was registered before the rejection is posted. `CancellationInv` says from where
  a registered completion or a running coroutine can still be cancelled. From both follow
  `SettleOnce`, `OutcomeAgrees`, `CloseDecidesAll`, `CancelReleases`, `WinnerUndisturbed`, and
  `Refinement`: every step is one of `OperationContract` or changes nothing it names.
* `RetirementProofs`. `RetirementInv`: a retired runtime is in exactly one place until it is
  cleaned (`PlaceInv`), whoever offers it holds its mark (`MarkInv`), and shutdown takes over
  only what no worker can reach any more (`StopInv`).
* `NativeProofs`, service slots. `SlotsInv`: a constructing thread owns the slot's current attempt and
  nobody shares it (`OwnerInv`, `UniqueInv`); what a slot says of its last attempt
  (`SlotInv`); which instances callers may hold (`HandedInv`).
* `GenerationPublicationProofs`. `PublicationInv`: a command runs only under the lock and
  writes only under the marker (`LockInv`); what is not yet to be published is on disk
  (`PublishInv`); what the manifest owns and the plan has not is gone or still to be deleted
  (`DeleteInv`); before the marker goes, the manifest is the command's (`RecordInv`). A step
  concerns only the job of the lock's holder (`Frame`), since all others are idle. From it follow
  `MixedTreesMarked` and the action property `HandedOver`.
* `VectorTheorems`. `KeptFacts`: a scan that erases leaves the elements to be kept, of the vector's
  type and none twice. The scan is a recursive function of the length, so the induction is on a
  set that can be written down, the lengths with a counterexample: if it had a least element, one
  step of the scan would refute it.
* `CppObjectsProofs`. `ObjectsInv`: who holds an instance keeps it alive at its address
  (`HoldsKeepAlive`); an entry of the registry names the instance its handle was made for, every handle
  JavaScript reaches has its entry, and no two entries are of one living instance
  (`RegistryInv`); a function called at most once has a receiver to give, and a running call has
  its own (`ReceiverInv`). `HandleUnique`, `ConflictHonest` and `ReceiverSafe` follow. Finding 1 is
  what happens without the bound on calls of one function.
* `NativeProofs`, JVM objects. `JvmInv`: a global reference is live exactly as long as somebody
  holds it (a handle, a worker, a waiting result) and keeps its object; handles and calls are
  holders of the reference they name; each handle that JavaScript has is in the registry under its
  own object. Without the holders the release by one of them could not be told from the last. From it `JvmIdentity` and `JvmReceivers`. The loader: `LoaderInv` has the generations
  reserved without a gap, by one loader at a time under the lock on the properties; from it
  `RetainedGenerations` and the action property `SessionEnds`.
* `FrontendProofs`. The two searches of values are written apart; `PlanAccepts` says that they
  agree: an API whose references are declared and whose values hold no cycle has a conversion plan.
  A search that enters no node it is inside of is the least solution of its recursion
  (`SearchExists`), and what it finds follows by induction on the nodes it is not yet inside of
  (`SearchInduction`). `FrontendInv`: the APIs are those of their sources and accepted (`ApisInv`);
  the merge keeps a declaration for each one of a family and gives an object to one family only
  (`MergeFacts`, `ApisAgree`). The walk is sound, what waits or was visited lies in every closed set
  (`SoundInv`), and complete, what it has met is handled or waits (`CompleteInv`); when nothing waits
  the surface is therefore the least one, in whatever order types were taken: `SurfaceIsClosure`.
  A walk from a type of one family stays in that family (`FamilyWalk`), so its routes exist in the
  merged API and no renderer refuses what the checks accepted; a call that a renderer installs is
  one of an accepted API, whose public names are distinct: `InstalledDeclared`.
* `NativeProofs`, conversions. One relation compares two converters, `Follows`: what the stricter one
  accepts the looser one accepts, with the same output and no more spent ("all"), with the same budget
  ("made"), unless the temporary storage runs out ("fit"), unless some limit is exceeded ("type"); a
  constructor of the author's may refuse it in all modes but "all", in which both run the same classes.
  It holds of an item, then of all items of a sequence, then of a node, and by induction of every level
  (`FromFollows`). The generated converters follow the reference in mode "made"; the C++ one has the
  parameters of the reference as native code would run it, and the JVM one follows that in mode "all":
  `LoweringsAgree`. A call follows its preflight in mode "fit", a preflight its call in mode "all"
  (C++) or "type" (JVM): `PreflightIsRight`. An echo is an induction on the same levels (`FromEcho`)
  for converters that are generated code and whose classes keep every field: an accepted value has
  become a native one of no more levels, and wherever the conversion back has at least the room the way
  in had (`Room`), it is accepted, yields what native code stores of the value with its declared fields
  and keeps that room for what comes next. `ConversionInv` adds what a call has prepared at each of its
  steps (`CallInv`) and that a preflight's verdict is still true (`PreflightInv`); from it
  `EchoIsArgument`. What a call returns that a class has changed is no property's subject.
* `HostProofs`, one section for each component of the generator's host side.
  - Subprocess: from the kill on no process of the group is alive and a dead group forks nothing
    (`StoppedInv`); what the call carries tells which steps come after the kill (`CarriedInv`):
    `GroupStopped`.
  - Doctor: the checks pass only if the facts are those of the build (`ChecksInv`): `DoctorHonest`.
  - Command line: past a question its answer is there and the names belong to the package
    (`NamesInv`); only a service changes the project, and no cancellation unwinds from it afterwards
    (`UnwoundInv`): `NamesBelong`, `ExitHonest`.
  - Scaffold: what a running command knows of marker and entries while authors move and edit
    (`AddingInv`, `DirectoriesInv`): `FeaturesWhole`, and step by step `AuthorKept` (outside
    the two windows its property names).
  - Protected paths: `RootsCovered` for paths of any length, from how the class of a path depends on
    its prefixes.
  - Source guard: the bundle of an undisturbed entry has the bytes of before (`PreImageInv`), and
    recovery has one entry in hand, what it took from it lies beside it, and what has a name it
    does not look at was written there unseen (`LeafInv`, `RecoveryInv`): `PreImages`,
    `RecoveryKeeps`.
  - Windows handles: the types hold always, `Registered` until an interrupt has left the registry
    with a wrong generation (`torn`): what it keeps is an own, open ancestor that nothing closed
    (`KeptInv`), kept in one place (`PlacesInv`); what an opening has in hand, what a caller holds
    and what descriptors own (`OpeningInv`, `HeldInv`, `DescriptorsInv`); what is open is known
    (`AccountInv`). A step that closes references leaves each closed, due or ambiguous (`Settled`)
    and keeps the rest if it keeps nothing else it closes (`SettledStep`). From these
    `OwnHandlesOnly` and `HandlesKnown`. A claim therefore never meets a superseded reference among
    the retired ones.
  - Reads: as long as a directory's or a file's stamp is that of the reader's first look, it holds
    what was listed or read of it (`FramesInv`, `EntryInv`): `ReadsAreVersions`.

Some of these results have no run of their own: the type invariants, single flight and
accounting of services, orphaned marks and double offers of runtimes, registered continuations
and undisturbed winners of operations hold in every behaviour by the theorems above. The runs
keep the deepest of the proved properties, with mutants of the code that break them, and those
that are not proved.

Only model-checked are the liveness properties (`PromiseSettles`, `InvalidationDrains`,
`PromisedCleanupOfOne`, `CallsEnd`, `EventuallyDestroyed`, `RerunRecovers`, `CallEnds`, `AddRecovers`):
fairness is outside the prover's reach. Every invariant and every action property that a passing run
checks is proved.

## Findings

1. `objects_function_reuse`: the host function of an asynchronous method moves its receiver
   away at the first call; a function value that JavaScript keeps has none at the second.
2. `frontend_uninstalled`: methods of an unmarked class are declared in TypeScript as functions
   of the feature, but the C++ planner leaves them to the internal facade, which registers
   nothing for JavaScript, and the JVM planner leaves out those with a composite type.
3. `host_handle_reuse`: `windows_authority.py:53` says that the registry owns every native number
   through claim, close and reuse. A Ctrl-C after `CloseHandle` has returned and before the
   registry records it leaves the generation registered or due; when the number belongs to
   another open, a retry closes it there.

### Divergences met while modelling

These are disagreements between the code and what its documents say that no run keeps:

* A completion task that has passed its `active()` check (`runtime_services.cpp:385`) claims its
  promise after `invalidate()`; decision 0003 says stale completions are suppressed.
* A full cleanup queue makes `ManagedRef::reset` destroy on the JS thread
  (`runtime_services.hpp:151`); README and ARCHITECTURE say destruction happens elsewhere.
* A generation killed before its manifest leaves files that no manifest owns
  (`generation_service.py:675`); if their feature is deleted, `update` and `validate` succeed
  and the files stay.
* An edit between the mutation check after KSP and the plan's own inventory
  (`feature_cli_operations.py:194`) yields adapters of the older source, recorded as complete.
* The JVM bindings depart from `conversion.py`: an argument starts at depth 0 and not 1, only
  strings and bytes are charged to the temporary storage, a field that only the prototype has is
  read, and a limit that an asynchronous call exceeds is `INTERNAL` and not a `RangeError`; so is an
  exception of the author's constructor, which is an `IMPLEMENTATION_ERROR` of a synchronous call. Both
  bindings store a float32 rounded and a lone surrogate replaced, and read the fields of handles.
* The handlers around a command chosen in the menu (`cli.py:521`) know cancellation only: an error
  that the same command, given as an argument, turns into a classified result and its status
  (`cli.py:638`) ends the program with a traceback and status 1.

## Not modelled

The text the generators print, the lexing of C++ and Kotlin, and the manifest formats: pure
functions of their inputs, without the control the models are about. npm package resolution and
composition: JavaScript that is a pure function of the installed tree. Rendering, help and
diagnostics: wording. The probing of single tools in doctor and `platform_tools.py`: outcomes in
`Doctor`. Windows variants of process trees and directory walks, and the copying of modes, times
and extended attributes. The executor's start and shutdown, of which `AsyncOps` assumes the pool.
Release, template and device tooling: build scripts. `PROJECT.json` lists every component.

## Plan

1. `Executor`: FIFO queue, lazy start of workers one by one (a failing `std::thread` in the
   middle), worker initialization, shutdown; to implement the pool `AsyncOps` assumes.
2. `AddPublication` composed with `GenerationPublication`'s `Scaffold`, and an abstract
   specification of generation ("the tree is the last complete generation, or marked").
3. `JvmObjects` composed with `AsyncOps`, whose claim it takes as one step.
4. The internal facades between the families, and package resolution against a reference.
