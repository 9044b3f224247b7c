# Verification of php-v8

TLA+ models of `php-v8`, the PHP extension that embeds the V8 JavaScript
engine (`src/src/*.cc`), with the TLC configurations that check them and the
theorems TLAPS proves about them.  The reference is the source; paths below are
relative to it (`php_v8_isolate_limits.cc` is `src/src/php_v8_isolate_limits.cc`).

## 1. The system

A PHP program creates an `Isolate` (one V8 heap), `Context`s in it, templates,
values and scripts, and runs JavaScript.  JavaScript calls back into PHP, which
may run JavaScript again.  Everything runs on one PHP thread, with one
exception: the timer thread of an isolate with limits.

| component | files | state it keeps | operations | hard part |
|---|---|---|---|---|
| **Isolate limits** | `php_v8_isolate_limits.*`, macros in `php_v8_exceptions.h` | deadline, hit flags, `active`, `depth`, timer thread, mutex | enter/leave JS, the two setters, timer loop, interrupt handler, disposal | two threads, V8's asynchronous requests, re-entrancy, unlocked reads |
| **Isolate** | `php_v8_isolate.*` | V8 isolate, weak collections, external exceptions, blob | construct, `within`, `throwException`, notifications, GC handler, free | order of destruction, fatal errors with V8 on the stack |
| **Exceptions, try-catch** | `php_v8_exceptions.*`, `php_v8_try_catch.*` | PHP exception attached to a wrapper, the stack that keeps it alive | throw, catch at a V8 entry, clear at depth 0 | nesting, JS that catches or rethrows, stale attachments |
| **Values, objects** | `php_v8_value.*`, `php_v8_object.*` | persistent handle, self pointer in a private property, callbacks | construct, get-or-create, free, weak callback | identity, life times of two garbage collectors |
| **External memory** | `php_v8_ext_mem_interface.*` | `adjusted_size_`, cached total | adjust, report when weak, take back when collected | balance of the amount given to V8 |
| **Callbacks** | `php_v8_callbacks.*` | buckets of PHP callables behind `v8::External` | add, reset, dispatch of 11 callback kinds, GC accounting | a bucket must outlive every JS reference to it |
| **Callback infos, return value** | `php_v8_return_value.*`, `php_v8_*_callback_info.*` | what the callback may return, whether it is over | `get`, `set*`, expiry | use after the callback, nested callbacks, type matrix |
| **Templates** | `php_v8_template.*`, `php_v8_{object,function}_template.*`, handler configurations | graph of nested templates, buckets | `set*`, instantiate, free | recursion must be refused before V8 instantiates it |
| **Startup data** | `php_v8_startup_data.*` | snapshot blob with a reference count | create, share with isolates, reject, free | sharing between isolates, version check |
| **Context** | `php_v8_context.*` | persistent, back reference in embedder data | construct, enter, `within`, free | back reference after the PHP object is gone |
| **Functions, scripts, compiler** | `php_v8_function.*`, `php_v8_script*.*`, `php_v8_unbound_script.*`, `php_v8_cached_data.*`, `php_v8_source.*` | persistents, code cache buffers | run, call, compile, create cache | supervised entries; ownership of cache buffers |
| **Promises** | `php_v8_promise*.*` | persistent | `resolve`, `reject`, `then` | entries that run JS without supervision |
| **Collections, special objects, primitives, messages, stack traces, statistics, enums** | remaining `php_v8_*.cc` | immutable copies or one persistent | single calls into V8 | range checks |
| **Module entry, V8 start-up** | `v8.cc`, `php_v8_a.*` | process-wide platform | once | none once started |

How they interact: every method that runs JavaScript is bracketed by
`PHP_V8_INIT_ISOLATE_LIMITS_ON_*` and `PHP_V8_MAYBE_CATCH` (56 uses), which
check the hit flags, start the timer, stop it again, turn a V8 exception into a
PHP one and drop the external exceptions once `limits.depth` is 0.  V8 calls
back through `php_v8_callbacks.cc`, which finds the PHP callable in a bucket
owned by a wrapper or, once the wrapper is freed, by the isolate's weak
collections; V8's weak callbacks empty those.  Fatal PHP errors leave all of
this by `longjmp`.

What makes the components correct:

* limits: JS under a limit is watched, hit limits stop it and reach the caller,
  nothing hangs, no termination outlives its cause (section 3);
* exceptions: a PHP exception attached to a thrown value reaches the PHP caller
  that catches the value, as far as the value's conversion to a string lets it
  (section 8), and is dropped afterwards;
* values: at most one wrapper per V8 object, no self pointer to a freed wrapper,
  unless a scheduled termination made V8 refuse the calls for it (section 7);
  callbacks live as long as JS can call them; external memory is balanced;
* return values: nothing is written after the callback returned, and each
  callback kind accepts what its V8 type allows;
* templates: the graph V8 instantiates is acyclic;
* startup data: the blob outlives its isolates and is freed exactly once.

## 2. Plan

Modules, in order; the first one is the core of the system because it is the
only one with threads and the one every JS entry passes through.

1. `IsolateLimits` with `MCIsolateLimits`, `IsolateLimits_proofs` and
   `IsolateLimitsEnforced_proofs`, and `LimitsPromise`, the abstract
   specification it implements -- done (section 3).
2. `TemplateGraph`: nested templates, the recursion check and freeing of
   wrappers -- done (section 4).
3. `CallbackReturn`: dispatch of callbacks, the return value's type matrix and
   expiry under nesting; refines `ResultCells` -- done (section 5).
4. `StartupData`: reference count of blobs among snapshots and isolates -- done
   (section 6).
5. `WeakHandles`: values' wrappers, self pointers, weak handles, callbacks and
   external memory under PHP's and V8's collectors -- done (section 7).
6. `Api`, the table of the extension's methods, and `Entries`, how they enter
   and leave V8 and how external exceptions cross nested entries -- done
   (section 8).
7. `CodeCache`: ownership of `CachedData` buffers between `Source` and V8.

Every safety property and both refinements that a run checks are also proved;
the properties left to TLC alone are the liveness ones.  Theorems still worth
proving: the safety cores of the other liveness properties, as `JoinsAlwaysEnd`
is that of `StopReturns` and `SetterReturns` (for `HitReachesCaller`, that a hit
is unwound entry by entry without V8 running on), and an abstract specification
for `StartupData` and for `WeakHandles`.

Each component `M` has the module `M`, the module `MCM` with what only TLC needs
(symmetry), one `.cfg` for each run, and `M_proofs` with the theorems.  Where a
definition is preceded by one that its comment calls a mutant, that one is the
same operation with a plausible mistake; nothing uses it, it is there to show
that the properties notice.

## 3. `IsolateLimits`

Two processes.  `pc` is the PHP thread: in PHP code, entering JS, in JS, in the
interrupt handler, leaving JS, in a setter, in disposal.  `tpc` is the timer
thread.  The variables of the first group are the fields of
`php_v8_isolate_limits_t`; `owner` is its mutex; `expired` stands for
`now > time_point`; `termRequested`, `unwinding` and `interrupts` are V8's side
of `TerminateExecution` and `RequestInterrupt`; `frames` is the PHP thread's
stack of V8 entries, `"limited"` ones that pass through the macros and
`"bare"` ones that do not (`Resolver::resolve`, for instance).

Grain: one step is what a thread does between two points the other thread can
observe.  A critical section is one step, except where it touches `active`
(also used outside the mutex), joins the other thread, or collects garbage.  The hit flags are read without the mutex
before an entry; either value may be seen and both are reachable.

| actions | code |
|---|---|
| `CheckLimits`, `StartTimer` | `PHP_V8_THROW_EXCEPTION_WHEN_LIMITS_HIT`, `maybe_start_timer` |
| `JsCallback`, `ReturnToJs`, `JsFinish`, `JsUnwind`, `TakeInterrupt` | V8, as the extension uses it (external) |
| `HandlerCheck`, `HandlerRecheck`, `HandlerOom` | `interrupt_handler`, the OOM callback |
| `StopTimer` ... `StopRestore` | `maybe_stop_timer` |
| `CallSetter` ... `SetTailJoin` | `set_time_limit`, `set_memory_limit` |
| `Dispose`, `FreeDeactivate`, `FreeJoin` | `php_v8_isolate_free`, `limits_free` |
| `TimerLock` ... `TimerCheckActive`, `Expire` | `limits_thread` |

`Behaviours` selects what the embedding program and V8 may do (set a limit,
terminate, run unsupervised JS, die in a callback, run out of memory, call back
after a termination request); a run takes the subset its question needs.
`Behaviours` is arbitrary in the theorems.

### Runs

| run | instance | shows |
|---|---|---|
| `limits_nested` | depth 3, all behaviours | `TypeOK`, `DepthBalanced`, `MemoryCheckArmed`, `FullTimeAtEntry` |
| `limits_flat` | depth 1, fair | `Supervised`, `HitStopsJs`, `NoStrayTermination`, `TimeLimitEnforced`, `MemoryMeasured`, `SetterReturns`, `DisposeCompletes`, and the refinement `ImplementsPromise`; no deadlock |
| `limits_time_nested` | depth 3, time limits, fair | `HitReachesCaller`, `StopReturns`; no deadlock |
| `limits_nested_reset` | depth 2 | **violated** `TimeLimitEnforced`: `maybe_stop_timer` writes a stale `active` back |
| `limits_memory_recovery` | depth 1 | **violated** `SetterReturns`: join of the timer under the mutex it needs |

The two violations are disagreements between the code and what its tests,
comments or documentation say; `PROJECT.json` quotes the lines.  The properties
of `limits_flat` fail in two more instances that are not kept as runs: with both
limits and a callback after the time hit (`"late_callback"` in `Behaviours`),
`setMemoryLimit` also cancels the termination of the time limit, which then never
stops the script; with out-of-memory errors, the `longjmp` out of the interrupt
handler keeps the mutex locked and disposal waits for the timer for ever.
`limits_flat` leaves these behaviours and nesting out, and `limits_nested` has no
deadlock check, for these reasons.

Bounds.  Time is one bit (`expired`): the code compares the clock with one
deadline only.  Heap sizes are one nondeterministic comparison.  Depth 3 has an
outermost, a middle and a top entry, and the code distinguishes `depth` 0,
positive, and its successor; one more level adds no new comparison.  Limits are
on or off, since only their being positive selects a branch.  There is no bound
on the number of operations.

Fairness.  Both threads are scheduled and the clock advances (weak fairness of
every step that does not wait).  Lock attempts are strongly fair: the timer
sleeps 10 ms outside the mutex in every round and the PHP thread holds it only
briefly.  JS reaches stack checks as long as it runs (strong fairness of
`JsUnwind` and `TakeInterrupt`, which can be disabled in between), and PHP
callbacks return.  No fairness makes JS finish.

### `LimitsPromise`

What the limits promise to the program that sets them, without threads, mutex or
interrupts: how many supervised entries there are (`entered`), the limits that
are set, the ones that were hit, whether someone watches, which setter is busy,
whether the isolate is being released.  JavaScript that has to be stopped
(`Owed`) is watched from the step it is entered in, or a limit is set in, until
it is left, a limit is hit or the isolate is released; a hit limit lets nobody
in at depth 0 and is taken back by its own setter only; a setter may keep the
program waiting in between; at rest nobody watches.

`IsolateLimits` implements it (`ImplementsPromise`) with

| abstract | concrete |
|---|---|
| `entered` | `depth` |
| `limits`, `hits` | the limits and hit flags that are set |
| `watched` | there is a timer thread that has not returned |
| `setting` | the setter that joins the timer inside its critical section |
| `disposed` | `php_v8_isolate_free` has begun |

`StartTimer` is `Enter`, `StopTimer` is `Leave`, `TimerLock` and `HandlerRecheck` are
`Exceed` when they record a hit, `SetLimit` and `SetJoin` are `Set` and
`FinishSet`, the timer's return in `TimerCheckActive` is `GiveUp`, `Dispose` and
`HandlerOom` are `Dispose`; everything else stutters.

### Proofs

`IsolateLimits_proofs` proves for every `MaxDepth` and every `Behaviours`:

* `TypeCorrect`: `Spec => []TypeOK`;
* `DepthAlwaysBalanced`: `depth` counts the supervised entries on the stack;
* `NeverTimerAtRest`: no timer runs beside PHP code outside V8;
* `MemoryChecksMatch`: the progress flag and V8's interrupt queue agree;
* `EntriesGetFullTime`: each outermost entry starts with a fresh deadline.

All follow from `Invariance`, `Spec => []IInv`.  None of the properties is
inductive alone: that no timer is left at rest needs to know that a timer only
exists in supervised entries (`TimerNested`), that `active` is off between the
stop and its restore, and when the mutex exists and who holds it
(`MutexMatches`, `MutexBeforeLimits`); that an entry starts its timer with a
fresh deadline needs that the check of the hit flags made before it still holds
when the timer is started (`ChecksStayValid`); `depth` needs `frames` to match
`pc` (`StackMatches`).  `IInv` is the conjunction of these named parts; the
module has one lemma for each group of actions, and the temporal step is PTL.
Assumptions used: `MaxDepthAssumption` (a positive number) and
`BehavioursAssumption`.

`IsolateLimitsEnforced_proofs` proves what does *not* hold for every program,
each under the weakest hypothesis on `MaxDepth` and `Behaviours` we know.  The
hypotheses say where the code keeps its promise; just outside them TLC finds
counterexamples, given in the last column.

| theorem | hypothesis | outside it |
|---|---|---|
| `TerminationsHaveCause`: `NoStrayTermination` | the program does not call `terminateExecution()` | that call is a termination without a hit |
| `SupervisedJs`: `Supervised` | `MaxDepth = 1`, or no time limit | the stale `active` of `limits_nested_reset` |
| `LimitsKeepPromise`: `ImplementsPromise` | the same | the same |
| `HitsStopJs`: `HitStopsJs` | no `cancelTerminateExecution()`; and one kind of limit only, or `MaxDepth = 1` and no callback after a termination request | the setter of one limit cancels the termination of the other |
| `JoinsAlwaysEnd`: `JoinsCanEnd` | no memory limit; or no callback after a termination request, no out-of-memory error, and no bare entry on top of a supervised one (`MaxDepth = 1` or no bare entries) | `limits_memory_recovery`, also when a bare entry is unwound into the callback; a mutex that a `longjmp` left locked |

Each rests on `IInv` and a second inductive invariant, checked by TLC before
it was proved:

* `CauseKnown` adds to `NoStrayTermination` that the timer between clearing
  `active` and requesting the termination has recorded its hit, and that a setter
  which waits for it has already cancelled.
* `SupInv` adds that `active` inside an entry means a live timer (`Watched`),
  that a nested stop writes back the value `active` has (`SavedCurrent`, the part
  the hypothesis is for), that only a hit or a join tells the timer to stop
  (`StoppedByHit`), and that a limit nobody sets is off (`Unused`).
* `HitInv` says where the termination is between the hit and its request
  (`MemoryHitPending`, `TimeHitPending`) and that a waiting setter resets the only
  hit there is (`JoinResetsHit`); with both limits that needs that no callback is
  left to set one after a memory hit (`NoCallbackAfterHit`).
* `JoinInv` says that JS that hit the memory limit is left and its timer joined
  before PHP code runs again (`MemoryHitJoined`, which needs `NoBareEntries`), that
  a timer told to stop otherwise does not go round its loop again
  (`StoppedTimerLeaves`), that a setter only waits for a timer that is past the
  mutex (`JoinPastLock`), and what a stop restores (`RestoresActive`).
* `PromiseInv`, which needs no hypothesis, adds for the refinement that the
  timer is switched on for a limit only (`ActiveLimited`), that a collection is
  forced for a memory limit only, that a timer belongs to an entry also during
  disposal (`TimerEntered`), and what waiting setters wait for.

`StepKeepsPromise` maps each of the actions to a step of `LimitsPromise` or a
stutter.  No property of a run states `JoinsCanEnd`: it is the part of
`StopReturns`, `SetterReturns` and `DisposeCompletes` that is a safety property,
and holds with nested entries under both limits, where those runs do not go.

Only model-checked: the liveness properties (fairness is out of the prover's
reach).

## 4. `TemplateGraph`

A name in `Wrappers` stands for a PHP template object, its `TemplateNode`, its
`PersistentData` (callback buckets and `adjusted_size_`) and its persistent
handle; `handle` says which of V8's templates it refers to.  `live` are the
objects PHP can reach, `weak` the `PersistentData` that freed objects left in
the isolate's `weak_*_templates` collections.  `parents` and `children` are the
nodes' sets; `nested` is what V8 has been told, `externals` the buckets V8's
templates point to, `reported` the bytes given to
`AdjustAmountOfExternalAllocatedMemory`, kept per handle.  There is one isolate.

| actions | code |
|---|---|
| `Construct`, `InnerTemplate` | the constructors; `instanceTemplate` and `prototypeTemplate`, which make a new wrapper at each call |
| `Set` with `IsParent` | `php_v8_template_set`, `TemplateNode::isParent` and `addChild` |
| `AddCallback`, `Adjust` | `setCallHandler` and its kin; `adjustExternalAllocatedMemory` |
| `Free` | `php_v8_*_template_free`: the node goes; the handle is reset, or made weak if there are callbacks |
| `Collect` | V8 collects; the weak callbacks destroy the buckets and take back what was reported |
| `Instantiate`, `DropInstances` | V8 objects that keep a template reachable (external) |

`isParent`'s recursion is the least closed set (`Closure`), so that the module
can be reasoned about by the prover; `SearchTerminates` says that the recursion
the code performs on the nodes ends.

| run | instance | shows |
|---|---|---|
| `templates_all` | 3 wrappers; a function, an inner and an object template; one bucket, one hint | `TypeOK`, `NodesLinked`, `SearchTerminates`, `CallbacksOwned`, `ReportBalanced`, `RefusalsJustified`; and `HeldAcyclic`: while their wrappers live, constructed templates are not nested in themselves |
| `templates_freed` | 3 object templates | **violated** `NestingAcyclic`: a freed wrapper in the middle of a chain hides it from the search |

Bounds.  A chain with a middle element needs three templates.  The code tells no
bucket from some, and adds hints: one of each suffices.  Templates may be
nested without limit.  No deadlock check: all wrappers may be used up.

Proofs, for any sets of wrappers and templates and any bounds:
`GraphInvariance` (`IInv`) and from it `TypeOK` (`GraphTypeCorrect`), `NodesLinked`,
`SearchTerminates`, `CallbacksOwned`, `ReportBalanced` and `RefusalsJustified`.
`IInv` adds to them that handles and nested templates exist (`HandlesExist`,
`NestedExist`) and that an edge of the nodes is one of V8's (`NodesNested`),
which a refusal is justified by.  The argument about cycles is
`EdgeKeepsAcyclic`: an edge to a node that is not an ancestor leaves an acyclic
relation acyclic; it rests on four lemmas about `Closure`.
`HeldTemplatesAcyclic` proves `HeldAcyclic` from a second invariant, `HeldInv`: a
constructed template has one wrapper while that is alive, and two such wrappers
are linked whenever their templates are nested.

Inner templates are left out of `HeldAcyclic` because set() does nest them in
themselves: two wrappers obtained by `instanceTemplate()` from one function
template have separate nodes, so `NestingAcyclic` fails with `"view"` as it does
with `"free"`.

Not modelled: `FunctionTemplate::inherit`, `setAccessorProperty` and handler
configurations as further edges, a constructor called twice, templates of two
isolates (the code refuses to mix them), and PHP destructors that run when a
weak callback destroys a bucket.

## 5. `CallbackReturn` and `ResultCells`

`stack` is the C++ frames of the callbacks that run; a frame has the kind of its
`v8::ReturnValue<T>`, the value in it and the PHP object made for it.
`accepts` and `rv` are that object's fields, `rv` the place of the frame on the
stack.  `mode` says whether PHP or JavaScript runs in the innermost frame,
`pending` whether `EG(exception)` is set; `outcome` is what the last operation
told its caller.  Values are classes: those the code tells apart, with a 64-bit
integer (`"int64"`) besides `int32` and `uint32`.

| actions | code |
|---|---|
| `Enter`, `Finish`, `Throw`, `Catch`, `Exit` | PHP and V8 around the callbacks (external) |
| `Dispatch`, `DispatchSkipped` with `KindOf` | the `php_v8_callback_*` functions and `php_v8_callback_call_from_bucket_with_zargs`; PHP calls nothing while an exception is pending |
| `Return` | the end of that function, `php_v8_return_value_mark_expired` |
| `Set`, `SetNull` ... `SetFloat`, `Get` | the methods of `ReturnValue`, in the order of their checks |
| `Release` | `php_v8_return_value_free` |

`ResultCells` is what the object promises: a stack of cells, each filled through
its own object only, with values of its own type, while it is open.
`CallbackReturn` implements it with `cells <- stack`.

| run | instance | shows |
|---|---|---|
| `callback_nested` | 3 objects, depth 2 | `TypeOK`, `ResultsTyped`, `UsableInContext`, and the refinement `ImplementsCells` |
| `callback_shutdown` | 2 objects, depth 2, `exit()` | `OwnFrame`: a running callback's object leads to its own frame after an exit, too |

Bounds.  Depth 2 has an outer and an inner frame of every pair of kinds; three
objects are those of the two frames and one kept from a call that is over.
Deadlock is checked in all runs.

Proofs, for any set of objects and any depth.  With exits: `FramesOwned` (the
invariant `FrameInv`), `CallbackTypeCorrect`, `ObjectsLeadHome`.  `OwnFrame`
needs that frames own objects that exist (`OwnersHeld`) and that an object that
does not exist accepts nothing (`OnlyHeldAccept`), so that a new frame's object is
nobody else's.  Under the assumption `"exit" \notin Behaviours`:
`KeptObjectsExpire`, `ResultsStayTyped` and the refinement
`CallbacksImplementCells`, each step of which maps to a step of `ResultCells` or
a stutter.  `ResultsTyped` needs `UsableInContext`: a write goes through `rv` and
is checked against `accepts`.

After an exit the objects of the frames that are gone stay usable: the expiry is
skipped by the `longjmp`, and `UsableInContext` is not claimed.

`set()` with a boolean value in a callback whose result is a boolean reaches the
code after its branches that the comment "should never go here" marks
(`php_v8_return_value.cc`, the test inside the branch for booleans contradicts
the one around it): it throws there, nothing is written, and `ResultsTyped`
holds nevertheless.

Not modelled: the callback infos, which are copies of V8's arguments.  The check
that a value set is of the callback's isolate is in `Api` (section 8).

## 6. `StartupData`

`blob` and `taken` are the pointers of `V8\StartupData` and `V8\Isolate` objects,
`allocated`, `inUse`, `usable`, `matches`, `rejected` the blobs (`usable`: it
has data; `matches`: its version is this V8's), `reads` the blob V8 was given
when the object's V8 isolate was created.  An isolate is freed in two steps,
`Dispose` and `ReleaseBlob`, because the destructors of its properties run
between them and are PHP code.  `leaked` is a history variable, the references
that a second constructor call overwrote without releasing them.  `Behaviours = {"reconstruct"}` lets programs
call `__construct()` again on an object.

| actions | code |
|---|---|
| `Construct`, `ConstructFailed` | `StartupData::__construct`; a subclass may catch its exception and go on with an object that has no blob |
| `Create` | `createFromSource`, `warmUpSnapshotDataBlob` |
| `FreeSnapshot` | `php_v8_startup_data_free` |
| `OpenPlain`, `OpenFrom`, `OpenRejected` | `Isolate::__construct` without a usable blob, with one, with one of another version |
| `Dispose`, `ReleaseBlob` | `php_v8_isolate_free` |

| run | instance | shows |
|---|---|---|
| `startup_shared` | 2 snapshots, 2 isolates, 3 blobs, `"reconstruct"` | `TypeOK`, `CountExact`, `ReadersSafe`, `ReadersCompatible` |

Bounds.  `MaxUse` bounds the count: the objects hold 4 references at most, and
two of a blob's may be leaked as well; the assertion in the code allows
2^32 - 1.  Three blobs are one for each snapshot and one for an isolate whose
snapshot is gone.  No deadlock check: leaked blobs are never deleted, so that
`Blobs` may be used up.

Proofs, for any finite sets of objects and any blobs and bound.
`BlobInvariance` proves `IInv`: the count of a blob is that of its references and
it is allocated exactly while the count is not 0 (`AllCounted`), only existing
objects own blobs and an isolate reads only its own (`OnlyLiveOwn`), and an
isolate's blob has data and the right version (`TakenCompatible`).  From it
follow `TypeOK`, `CountExact`, `ReadersSafe` and `ReadersCompatible`, with
constructors called again too; `NothingLeaks` adds that without such calls a blob
exists exactly as long as an object refers to it.  The cardinalities are reasoned
about with the library's theorems on finite sets, which is why the sets of
objects are assumed finite and disjoint.

Not modelled: what V8 does with corrupt data of the right version, the cold blob
that warming up reads, and the V8 isolate that a second `Isolate::__construct()`
abandons without disposing of it (it is not used any more).

## 7. `WeakHandles`

The PHP objects of one isolate's JavaScript values.  A member of `Wrappers`
stands for a `php_v8_value_t`, its persistent handle and its `PersistentData`
(`buckets`, `adjusted`); the name is used again when the last of them is gone.
`live` are the objects PHP refers to, `weak` the handles left in
`weak_values`.  Of V8's side there is the `kind` of each value (a function,
another object, or a primitive), which of them scripts reach (`reached`), the
private property in which an object keeps its wrapper's address (`self`), who
refers to which bucket (`externals`), the bytes V8 was told of (`reported`, by
handle), and whether a termination is scheduled (`terminating`).

| actions | code |
|---|---|
| `Construct`, `ConstructAgain` | the constructors of values, objects and functions; the second call on the same PHP object |
| `ConstructFailed` | a constructor for which V8 makes nothing: it throws after it stored the isolate, `FunctionObject`'s after it added the bucket, and a subclass may go on with the object |
| `GetOrCreate` | `php_v8_get_or_create_value`, `php_v8_object_get_self_ptr` |
| `Bind` with `StoreSelf` | `php_v8_create_value`, `php_v8_object_store_self_ptr` |
| `SetAccessor`, `Adjust` | `setAccessor` and its two siblings, also when V8 refuses the accessor; `adjustExternalAllocatedMemory` |
| `Free` with `DeleteSelf`, `ReleaseHandle` | `php_v8_value_free`, `php_v8_object_delete_self_ptr`, `php_v8_value_make_weak` |
| `Dispose` | `php_v8_isolate_free`, after the last wrapper |
| `Collect` with `WeakCallbacks` | a collection of V8's, `php_v8_value_weak_callback` |
| `Create`, `Reach`, `Forget`, `Terminate`, `Terminated` | scripts, `Object::Set`, and terminations (external) |

V8 refuses to set, delete or read the private property while a termination is
scheduled, that is, after it stopped a call that a callback made and before the
scripts below that callback are left.  PHP code runs in between and makes and
drops objects.  The code throws an internal error, at most, and goes on:
`php_v8_value_free` frees the wrapper and leaves its address in the object, a new
wrapper is not known to its object, and a property that cannot be read is taken
for one that is not there, so that a second wrapper is made.  `StoreSelf`,
`DeleteSelf` and `GetOrCreate` have each of these outcomes.  `spoilt` is a history
variable, the objects this happened to.  For them `SelfFaithful` does not hold,
and what the code does with a stale address is undefined (in the model such an
object is given no wrapper through it).  What is claimed, and proved, is that
the damage stays there: no other object is affected, not even when the
address is in use by another wrapper again, and a collected object takes it along.

| run | instance | shows |
|---|---|---|
| `weak_handles` | 3 wrappers, 2 values, one bucket, one hint | `TypeOK`, `SelfFaithful`, `CallbacksCallable`, `ReportBalanced` |

Bounds.  Three wrappers are a live one and two weak ones, or the reverse, of one
object, so that an object can lose its wrapper twice and be given a third; the
second value is the one a wrapper or a collection must not confuse with it.  The
code tells no bucket from some, and adds hints: one of each suffices.  There is
no bound on the number of operations, collections or terminations.  No deadlock
check: a disposed isolate is the end.

Proofs, for any sets of wrappers and values and any bounds, under
`Behaviours = {}`: `WrapperInvariance` (`IInv`) and from it the four
properties.  `IInv` adds to them what is known of names: a handle is live or weak
and not both, is empty or has a value that exists, a weak one has a bucket, a
fresh name owns nothing (`HandlesOK`), and only objects have a private property
or accessors (`ObjectsOnly`).  `SelfFaithful` needs that a freed wrapper's name is
not given out while its handle is weak; `CallbacksCallable` needs that a wrapper
with a bucket is not released but made weak.

The assumption leaves out one thing a program may do: call an *object's*
constructor again.  The wrapper then moves to another object while the first one
keeps its address, and `SelfFaithful` fails (`Behaviours = {"construct"}` shows
it).  A second constructor call of a primitive value is harmless and is in.

A function's wrapper whose constructor failed has a bucket and an empty handle.
When it is freed, V8 is asked to make that handle weak, which follows a null
pointer: the process ends, or nothing comes of it and the bucket stays with the
isolate until it is disposed of.  The model has the latter; in the former there is
nothing to claim.

Not modelled: which PHP class a value's wrapper has.  `GetOrCreate` takes it from
V8's tests (`php_v8_get_class_entry_from_value`), a constructor is that of
whatever class the program chose, and the constructors
(`php_v8_value.h`, `PHP_V8_VALUE_CONSTRUCT` and `PHP_V8_OBJECT_CONSTRUCT`) do not
compare the two, so that a subclass of `FunctionObject` may call
`ObjectValue::__construct()`; nothing can be claimed of the casts in the
methods then.  The order in which PHP's collector frees a cycle of an isolate and
its values (reference counting frees the isolate last, which `Dispose` follows),
PHP destructors of callables that V8's collector destroys, and `clone()`, of which
V8 decides whether the private property and the accessors are copied, are left out,
too.  `getTotalSize()` remembers its first answer, unless it is 0.  That is the
one asked for when the handle becomes weak, after which nothing can change it; the
model computes it each time.

## 8. `Api` and `Entries`

`Api` is the table of the extension's methods: for each one how it enters V8,
which handles it is given and which of them it does not compare.  There are four
ways in: *watched*, between the limits and `PHP_V8_MAYBE_CATCH` under a
`v8::TryCatch`; *bare*, where JavaScript may run or throw with neither
(`numberValue` and its kin, `equals`, `then`, `catch`, `resolve`, `reject`, the
constructors of `RegExpObject` and `ProxyObject`, `getRealNamedProperty`);
*quiet*, for calls of V8 that run no script and throw nothing; and *read*, for those that only
read the PHP object.

`Entries` runs these methods.  `frames` is the stack of V8 entries, `depth` is
`limits.depth`; `thrown` is the exception that unwinds the innermost JavaScript,
`scheduled` the one V8 throws when the running callback returns, `pending`
whether `EG(exception)` is set.  `held` are the values whose PHP objects the
program refers to, `kept` those `external_exceptions` refers to, `attached` the
field `exception` of the values' PHP objects, `caught` the last `V8\TryCatch`.
`given` is what V8 got in the last call.  `owed` is a history variable: the
external a value was thrown with under a watched call, as long as no watched call
has handed it over and there is one on the stack that could.

A watched call that catches a value first stops its timer, which decrements
`depth`, then converts the value to a string for the exception's message
(`php_v8_exceptions.cc`, `php_v8_create_try_catch_exception`), and only then makes
the `V8\TryCatch` that takes the external.  The conversion runs the value's
`toString()`, which may call PHP, which may make watched calls.  In the model the
failed call's place in `frames` is taken by the value: an entry that `depth` does
not count.  It ends with `Converted` or `NotConverted`.

| actions | code |
|---|---|
| `Refuse` | the tests of handles, and `PHP_V8_THROW_EXCEPTION_WHEN_LIMITS_HIT`, before V8 is entered |
| `CallQuiet`, `CallWatched`, `CallBare` | the bodies of the methods up to V8, with `Built`, `SameIsolate` and `Unpacked` for `PHP_V8_CHECK_EMPTY_HANDLER`, `PHP_V8_DATA_ISOLATES_CHECK` and `php_v8_function_unpack_*args` |
| `ThrowValue`, `Associate`, `AssociateRefused` | `Isolate::throwException` |
| `FinishWatched`, `FailWatched` | `PHP_V8_MAYBE_CATCH`; `FailWatched` is its part up to the conversion |
| `FailTerminated` | the same for a termination, of which there is nothing to convert |
| `Converted` with `HandOver` | the rest of `php_v8_create_try_catch_exception`, `php_v8_try_catch_create_from_try_catch`, `php_v8_isolate_external_exceptions_maybe_clear` |
| `NotConverted` | the early return of the conversion, and what `php_v8_throw_try_catch_exception` and `PHP_V8_MAYBE_CATCH` do after it |
| `FinishBare`, `FailBare` | `PHP_V8_THROW_EXCEPTION_WHEN_NOTHING`, `..._EMPTY` |
| `Callback`, `Return` | `php_v8_callback_call_from_bucket_with_zargs` |
| `PhpThrow`, `PhpCatch`, `Obtain`, `Drop`, `JsThrow`, `JsCatch`, `Stop` | PHP and JavaScript code (external) |

| run | instance | shows |
|---|---|---|
| `entries` | all methods, 2 values, 2 externals, 3 entries | `TypeOK`, `ExternalsKept`, `ExternalDelivered`, `AllReleased`, `OwnHandles`; no deadlock |

Bounds.  Three entries hold an outermost one, watched, bare or converting, one
inside it that may convert as well, and one more inside that; `depth` is 0,
positive or in between where it does not count a conversion.  Two externals and
two values are what "another one is already associated" and a value thrown inside
another's unwinding or conversion take.

What does not hold.  `depth` is 0 while an *outermost* call converts what it
caught.  A watched call made by a callback of that conversion ends with `depth` at
0, and `php_v8_isolate_external_exceptions_maybe_clear` drops all that is kept,
the PHP object of the value that is just being converted included.  Its external
is then lost, unless the program holds the object itself; the test
`src/tests/Isolate_throwException_with_external_preserved.phpt` ("external
exception is not lost when provided with refcount=1") does not go there.
The values this may have happened to are in the history variable `lost`,
which `ExternalsKept` and `ExternalDelivered` leave out; without it TLC finds the
loss in ten steps: a watched call, a callback that throws a value with an external
and drops it, and a `toString()` with a callback that makes a watched call.  Nor
is an external delivered if the conversion fails (`toString()` throws, the object
has none, or it is terminated): the method throws an internal error,
makes no `V8\TryCatch`, and goes on to throw an exception object that was never
initialised, which is undefined.  `NotConverted` ends with the
error pending; a process that ends instead takes no further step.
`AllReleased` holds in all these cases.

Proofs, for any sets of values and externals and any nesting.  `Invariance`
(`IInv`) gives `TypeOK`, `ExternalsKept` and the two action properties, and
`Outermost`: `depth` is 0 exactly when no entry on the stack is watched.  `IInv`
adds that `depth` is the number of watched entries, counted with the library's
cardinalities (`ControlOK`), and that nothing is owed outside watched calls and
conversions (`NothingOwed`).  `HandlesOwn`, under `Behaviours = {}`, is about the
whole table `Api`: every accepted call passes handles of this isolate only.

Assumptions.  A program that has made V8 throw returns to it before it uses V8
again (`PhpFree`); what V8 does with a second exception is not in the
repository.  V8 drops an exception that leaves its outermost entry, and throws
it on if there is JavaScript below the entry it left.  A value's PHP object is
found through its private property: what comes of the calls for it that a
scheduled termination makes fail is in section 7.  Fatal errors, which leave all
entries at once, are in section 3.  Observations from writing
the module, none of which a document of the repository denies:

* a failure of a bare method under a callback reaches PHP as a `ValueException`
  and is thrown once more in the JavaScript below, even if PHP caught it;
* externals thrown when only bare entries are on the stack are kept until some
  watched call ends;
* `RegExpObject` and `StringObject` constructors, `setSecurityToken`, `inherit`
  and `hasInstance` do not compare the isolates of their second handle
  (`"lenient"` in `Behaviours`), and an object whose constructor threw after it
  had stored its isolate passes every test (`"hollow"`).  With either,
  `OwnHandles` fails.

Not modelled: the getters of immutable copies (messages, stack frames, script
origins, heap statistics), and what a method computes.

## 9. Not modelled, and why

The list is `components` in `PROJECT.json`.  In short: V8 itself is modelled
only through how it is used; class registration, enumerations and immutable
copies have no behaviour worth a model; the context's back reference is read only
by code that a method of this context runs, whose caller holds the object; PHP's
cycle collector, and PHP destructors that run inside one of the two collectors,
are listed hazards without a property, as what decides their order is not in the
repository; ownership of code caches is the plan of section 2.

Out of the prover's reach, and with TLC only: liveness under fairness,
`ENABLED`, recursive operators (no module here declares one) and induction over
data.
