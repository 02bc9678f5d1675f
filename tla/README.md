# Tyrant Game Engine: specifications, model checking and proofs

TLA+ modules for the concurrent and stateful core of the Tyrant Game Engine: the desktop command queue,
the lifecycle of console and GUI applications, live options and their JSON files, service scopes,
windows, input, and the Vulkan presenter. TLC checks them on small instances; TLAPS proves main results
for every instance: about the command queue, the teardown of an application, the publication and
notification of options, the atomic replacement and the watching of option files, the ending of
scopes, input, the modal suppression of windows, and the calls the Vulkan presenter makes.
`PROJECT.json` maps each definition to the lines it translates, and lists the runs, the hazards the
properties were written for, and the theorems.

    tlc -workers 2 -config DesktopEventRuntime.cfg MCDesktopEventRuntime
    tlapm DesktopEventRuntimeProofs.tla

Paths below are relative to `src/Runtime/Modules/` unless they start with `src/`.

## 1. The system

The engine is a C++ library without a frame loop of its own. An application is a set of hosted
services that are started, waited for and stopped; what differs between a console and a GUI
application is who waits on which thread.

    CliApplication ──signals──▶ Application / ApplicationLifetime ──starts, stops──▶ hosted services
    GuiApplication ──runs the same on a worker; its calling thread becomes the event thread of
          DesktopEventRuntime ◀──commands── WindowManager, InputManager (facades, any thread)
                  └── pump: SDLDesktopState (windows, devices) ──events──▶ managers ──▶ subscribers
    WindowManager ──attach, redraw, detach──▶ VulkanWindowPresenter ──▶ GPU, compositor
    ServiceScope: a tree of service lifetimes; the application and each WindowSession own one
    OptionsMonitor: live configuration, published by any thread, observed by callbacks
          └── sources: MemoryOptionsProvider, JsonFileOptionsProvider (file, watcher thread)

| component | state it keeps | operations | what is hard | what makes it correct |
|---|---|---|---|---|
| `DesktopEventRuntime` | phase, accepting flag, command deque, event thread id, all under one mutex | Post, Submit and start of its sender, Wake, RequestStop, Run, destruction | the queue is swapped out and drained without the lock; callbacks re-enter; the wake-up follows the unlock; Run, RequestStop and destruction race | each command runs or is rejected exactly once, in order; everything accepted by a served queue is executed; no wake-up is lost |
| `Application`, `ApplicationLifetime` | run state, started services; stop flag, exit code, stop source, one waiter | RunAsync, RequestStop, the stop sender | a request races with start-up, with the registration of the waiter and with failures | nobody waits for a stop that was already requested; whatever started is stopped, in reverse; the first exit code wins |
| `CliApplication` | process-wide handlers, pending signal, monitor thread | hosted service Start and Stop, signal handler, monitor loop | the monitor is joined while it is inside RequestStop; signals at any moment | a caught signal stops the application; handlers outlive the services that rely on them |
| `GuiApplication`, `WindowSession` | the coordinator's window, context and session; the root scope; the worker that ends scopes | Run, composition of the root and its rollback, stop, shutdown of the backend; Closed, EndAsync | two threads that wait for each other's commands and ends; a window and a scope that end each other; a composition that fails half-way | Run returns; nothing of the root is left; input goes before the window; a closing stops the application |
| `OptionsMonitor` | published state, sources and validators; notification queue; one slot per observer; a gate per observable provider | Set, Update, Reload, Add*, OnChange, Observe, Reset | user code runs inside every operation and may call back; coalescing; initial delivery against publication; fencing resets; two lock-free atomics in the gate | observers see an increasing, gap-free chain; the newest value reaches everybody; after Reset returns the callback is not running; no provider change is lost |
| `JsonFileOptionsProvider` | the file, temporary and backup; what the watcher has seen, acknowledged and must still load | Save, Apply, Watch, polling, Stop | crashes and failures between two system calls; the file changes under the reader; the watcher may own the monitor it serves | the file is always whole; the watcher misses no change and comes to rest; it ends without waiting for itself |
| `ServiceScope` | tree of scopes, cleanups, waiters, cached instances, outcome | CreateScope, RegisterCleanup, Resolve, EndAsync, destruction | any number of callers, parents and destructors end the same scope; factories run under the lock; endings are coroutines | children before parents, cleanups once in reverse, one outcome for all callers, no ending hangs |
| `WindowManager` over `SDLDesktopState` | records, creation order, modal suppression, buffered configurations; the backend's window table | create, destroy, close requests, mutations, input control, native events, shutdown | subscribers call back in the middle of an operation; events are applied later than they happened; modal layers change one by one | modal layers are current; two tables agree; nothing stays buffered |
| `InputManager` over `SDLDesktopState` | contexts with what is pressed, subscriptions, devices; the backend's contexts, pointer modes and devices | contexts and their modes, subscriptions, publication, discovery, shutdown by command and by destructor | input is published later than focus moves; the backend tells of changes while it makes them; resets from other threads | facade, backend and system agree; lost focus releases keys; a reset subscription is silent; nothing is left after shutdown |
| `VulkanWindowPresenter` | instance, device, swapchain, fences and semaphores per frame and image | attach, redraw, detach, shutdown | GPU and compositor are late; calls fail, surfaces go out of date, the device is lost | what is in use exists; fences and semaphores are used as Vulkan demands; no wait for a fence nobody signals |

They interact by calls on one thread (managers inside the event pump), by commands through
`DesktopEventRuntime`, by senders that are completed from other threads, and by callbacks that user
code supplies. The callbacks are the main source of behaviours that no test exercises.

Components that are not modelled, or only in part, are in section 8.

## 2. Modules

| module | models |
|---|---|
| `CommandExecutor` | what the command facade promises: an abstract first-in first-out executor |
| `DesktopEventRuntime` | `DesktopEventRuntime/Private/source/Desktop/DesktopEventRuntime.cpp` |
| `ApplicationLifecycle` | one run of `Application.cpp` with `ApplicationLifetime.cpp` |
| `CliApplication` | EXTENDS the lifecycle with `CliApplication.cpp`: signals and the monitor thread |
| `GuiApplication` | EXTENDS the lifecycle with `GuiApplication.cpp` and `WindowSession.cpp`, and INSTANCEs `CommandExecutor` as the event runtime |
| `StateFeed` | what a live option promises its observers, without threads or queues |
| `OptionsNotifications` | the notifying half of `Core/Public/TGE/Options/OptionsMonitor.inl` |
| `OptionsPublication` | the writing half: transactions, sources, validators, `WatchGate`, `MemoryOptionsProvider` |
| `JsonFileOptionsProvider` | `Core/.../JsonFileOptionsProvider.cpp` on its disk, with the parts of the monitor it goes through |
| `ServiceScope` | `Core/Private/source/Services/ServiceProvider.cpp` and the commit in `ServiceLocator.cpp` |
| `WindowManager` | `Graphics/Private/source/Windowing/WindowManager.cpp` over the window half of the SDL backend |
| `SDLInput` | the input half of `SDLDesktop/Private/source/SDLDesktopState.cpp`, as operators on its state |
| `InputManager` | EXTENDS `SDLInput` with `Input/Private/source/Input/InputManager.cpp` |
| `VulkanWindowPresenter` | `VulkanPresentation/Private/source/VulkanWindowPresenter.cpp` for one window |
| `*Proofs` | theorems about the module they are named after; `ApplicationProofs` about both applications, `WindowingProofs` about `WindowManager` and `VulkanWindowPresenter` |
| `MC*` | the finite sets each configuration uses |

A few definitions of a model are used by no other definition, for instance `PumpWhileOpen` next to
`ContinuePumping`. Each is a plausible wrong version of the definition that follows it; with it in
that place, TLC must find the property violated that `PROJECT.json` names under "mutants". They show
that the property depends on the code.

### How state and actions correspond to the code

*DesktopEventRuntime.* `phase`, `accepting`, `commands` and `eventThread` are the fields of `State`.
Every critical section of `State::mutex` is one action. `pc`, `pending` and `rejecting` are where
`Run` is and its local deques; `running` is the nest of commands being executed. The call of `Wake`
after a critical section is an action of its own (`waking`, `Wake`), and `wakeFlag` is the event that
SDL keeps until the pump consumes it. A callback is not an action: while `InCallback` holds, the
event thread may take the actions that any other thread may take. `called`, `ownPosts` and `outcome`
are history. The abstract executor is implemented under this mapping:

    open   <- accepting                            mode  <- waiting, serving or over, from phase
    queue  <- rejecting \o pending \o commands     active <- running

*ApplicationLifecycle.* `RunAsync` is a sequence of steps `pc`; `RequestStop` is three: the critical
section, the signal to the stop token, and the completion of the waiter, which run on whichever
thread won. Hosted services and log calls fail nondeterministically, as the code's catch blocks
expect. *CliApplication* adds what the first hosted service does when it starts and stops, the
handler, and the monitor thread, which is one more thread that requests a stop.

*GuiApplication.* `pc` and the rest of the lifecycle are the worker's; `caller` is the thread that
called Run and pumps. The event runtime is taken by what it promises: its variables are those of
`CommandExecutor`, and the managers' tasks are commands of it. `coordinator` is where the first hosted
service is in StartAsync, its rollback and StopAsync; `scope`, `endStep` and `endCall` reduce the
root's scope to its two cleanups and to who has asked for its end; `endWorker` is the worker of
`ScopeEndDispatcher`. The user closes or destroys the window, ends the session or stops the
application at any time.

*OptionsNotifications.* A snapshot is its version number. Each thread has a stack of the functions of
the monitor that it is inside; user code runs when the stack is empty or a callback is on top, and
may call the monitor again. Each critical section of `CallbackState::mutex` or `CallbackSlot::mutex`
is one action. The abstract feed is implemented by forgetting everything but the published version
and, per observer, what it was given last and whether it is subscribed.

*OptionsPublication.* A transaction holds `updateMutex` from its first read to the publication and is one
action; the sources, validators and serializer it calls may fail. A registration adds its step to the end
of a list, publishes with it there, and takes it out again when that fails (`RolledBack`). `WatchGate` is
used without a lock: each access to one of its two atomics is an action, and a release store may stay in
the thread's store buffer past a later acquire load, which is what the orders in the code allow.

*JsonFileOptionsProvider.* A file is its contents, the time of its last write and whether they have
reached the disk. Every system call of Save is an action that may fail; `ReplaceFileW` is two, because it
can stop between its renames. The removal of the temporary file may fail as well, which the code ignores
(`RemovesTemporary`; `orphaned` is history: that has happened). Apply and the watcher take `fileMutex` for
the time they read. A `Crash` may keep or lose what was not flushed, and starts the program again.
`watcher` holds the local variables of `FileWatchState::Run`, `reader` the thread that is inside a reload.
`elsewhere` is history: the last reload was not the watcher's.

*ServiceScope.* `step[s]` is where the coroutine that ends `s` is. Its caller goes on and is answered
later (`calls`, `answer`); callers are threads, parents that end, and destructors. The vector of
children is a set with the order of creation in `elders`. The recursive
transaction mutex is held for one action, except by an activation, which runs user code between
`BeginActivation` and `CommitActivation`.

*WindowManager.* All of it happens on the event thread, so what interleaves is what subscribers do.
`stack` holds the operations that have begun and not returned, and one step runs the topmost one up
to its next callback or loop iteration. `record` is what the manager knows, `native` what the backend
has, `pending` the buffered configurations and `posts` the flushes that wait in the command queue.
Constants say which callbacks subscribers call back from and with which calls. A window's number is its
place in the order of creation, so that `State::order` is the set `managed`. `overtaken` is history: a
reconciliation began while another one was going through the windows. A flush is posted, or, when the
runtime refuses it (`accepting`), run at once, in the middle of what the backend is doing: its frame is
then above the one that detaches children. What the pump itself does with windows after the stop was
requested and the queue drained (`Stop`, `ShutdownWindows`) is outside.

*InputManager.* `sdl` and `inventory` are the backend's tables, `os` the focus and the events the
system has not delivered yet. Input goes through `queue`, the commands of the event runtime; a change
of a routing target is applied at once. A command that releases the manager's mutex in the middle is
two actions (`step`); one that locks the mutex a second time on the same thread stays where it is
(`DestroyContextUnderLock`). Callbacks are invoked one by one from the list taken at publication (`calls`),
and may call back in; other threads submit commands, subscribe, reset, and destroy the manager, in
the phases of `teardown`.

*VulkanWindowPresenter.* `cpu.at` is the Vulkan call the event thread makes next. `live` is the set of
objects that exist; a fence or semaphore is reset, pending or signaled, and may be signaled only once.
The attempt to replace a swapchain retires the old one, which is destroyed in the next step
(`RetireSwapchain`) whatever came of the attempt.
The GPU executes submissions in order and later; the compositor shows an image, gives it back and
signals its presentation, each whenever it likes.

## 3. Runs

`CHECK_DEADLOCK FALSE` is used throughout because each of these systems may stop: a runtime, an
application or a scope that has ended, a monitor nobody publishes to or whose owner dropped it, a
presenter that was shut down. Liveness properties, and invariants such as `NoLostWakeup` and
`LatestIsOnItsWay`, are what says that none stops too early.

| run | instance | shows |
|---|---|---|
| `DesktopEventRuntime` | 2 threads, 2 submits, 2 posts | HeldExactlyOnce, DrainedBeforeStop, OwnPostsPrecedeNextEvent, NoLostWakeup; implements `CommandExecutor`; a stop ends Run and queued work is executed |
| `CliApplication` | 3 services, 2 foreign threads, the monitor, 2 exit codes, SIGINT and SIGTERM | reverse and complete stopping with the signal handlers last, whichever start, stop or log call fails; a caught signal stops the application, a stop finishes the run, and the waiter is completed once |
| `GuiApplication` | the coordinator and one service, a caller, the ending worker, a user | nothing of the root is left when the application has run; input before window; Run returns; a closing that was heard is followed |
| `GuiApplication_closed` | the same | finding 1 |
| `OptionsNotifications` | 2 threads, 2 observers, 3 publications, 6 nested calls | one dispatcher, no re-entered callback, the chain of deliveries, nothing left behind; fenced resets without deadlock; implements `StateFeed`, liveness included |
| `OptionsPublication` | 2 threads, 2 values, 1 predicate, 2 sources, store buffers | validators hold for what is published; a transaction that fails leaves no trace, nor a step it had added; "true" from a provider's callback means that a reload began |
| `JsonFileOptionsProvider` | both platforms, 2 good contents, any 2 of: a foreign write, a Save, a failing call, a crash, a Reload by hand | the file is whole at every step; the watcher acknowledges what is published, comes to rest at the file's value and ends |
| `ServiceScope` | 2 scopes, related or not, 2 cleanups each, 2 threads, fairness | children before parents, cleanups once and in reverse, nothing kept after the end, one outcome for all, every ending is answered |
| `WindowManager` | 3 windows, subscribers that create and destroy from close requests and closings, a runtime that is told to stop at any step | modal layers are current, a covered window is disabled, the two tables agree and nothing stays buffered |
| `InputManager` | 2 windows, 2 contexts, a device, a subscription, 4 events and requests | facade, backend and system agree, lost focus releases keys, devices converge, resets fence, shutdown releases |
| `InputManager_disabled` | the same | finding 2 |
| `VulkanWindowPresenter` | 2 images, 2 sizes and none, 2 failing calls | objects live as long as they are used and no longer, calls are valid and find no retired swapchain, every call returns |

### Why these bounds

* Two threads are enough for every pair of critical sections in the code to be interleaved, since no
  critical section depends on more than one other party: a waker and the event thread, a dispatcher
  and a resetter, the owner of an ending and one that joins. Where a third party matters it is there:
  the application thread and the monitor next to two requesters, a parent next to two threads.
* Two operations of each kind in the command queue are what order, nesting and "drained while new
  ones arrive" need: one in `pending`, one in `commands`, one running with another nested in it.
* Three publications let a queued notification be coalesced behind one in flight. Six calls allow a
  callback that publishes, inside a dispatch, inside an initial delivery, that resets.
* Two scopes are a parent and a child, or two roots; two cleanups are needed to speak of their order.
  With three scopes and one cleanup each, chains and siblings, the invariants hold as well (a longer
  run: a third scope in `MCServiceScope`, `MaxCleanups = 1`, `Spec` with symmetry).
* Three windows are the smallest number at which modal layers cover each other and a window between
  two can close. `MaxStack` bounds how deep subscribers call back, not how deep operations nest.
* In `JsonFileOptionsProvider` an event is what somebody else does; Save, polls and reloads themselves
  are not bounded. Two events are a crash in the middle of a Save, a change during a reload, or a
  failure during the recovery from another. The invariants also hold with three.
* In `InputManager` a native event is told after it happened, so that one event and one command give
  every order; `MaxBoth` bounds the sum. Two windows let the focus move between targets and two
  contexts share one.
* Two swapchain images for two frames in flight make every image's and every frame's fence be met
  again; two faults are one failure and another while it is handled. The invariants also hold with
  three images.
* `MaxVersion`, `MaxSources`, `MaxValidators`, `MaxRevision`, `MaxCleanups`, `MaxInstances`,
  `MaxSubs`, `MaxNative`, `MaxRequests`, `MaxEvents`, `MaxFaults`: how often something may be added,
  changed or happen in a run. They occur in guards only.

`WindowManager` is checked with subscribers that act on close requests and closings; subscribers that
act on configuration changes are excluded from it, because with them `SuppressionIsCurrent` does not
hold. Nor does it say that suppression is current once one reconciliation was overtaken by another:
that takes five windows and is false then (section 6).

## 4. Fairness

* `DesktopEventRuntime`: the thread inside Run goes on unless it is blocked in the pump, callbacks and
  commands return, a pending wake ends the wait, and a thread that left its critical section calls
  Wake. There is no fairness on the pump's 50 ms timeout, on native events or on callers: the stop and
  the execution of queued work must not rest on the timeout, or a lost wake-up would be invisible.
* `CliApplication`: the application thread goes on and hosted services return; the thread that won
  RequestStop finishes the call; the monitor's polling loop goes on. Nobody has to request a stop and
  no signal has to arrive.
* `GuiApplication`: the worker, the calling thread with the event runtime, the coroutine that ends the
  scope and the dispatcher's worker go on. The user does nothing unless it likes.
* `OptionsNotifications`: every thread inside the monitor goes on, and callbacks return.
* `JsonFileOptionsProvider`: a Save that began, the watcher with its timed sleep, a reload that has the
  lock, and the owner inside AddProvider go on. Nobody writes, saves or reloads by hand unless it
  likes; failures are bounded, so that a reload that is repeated succeeds at last.
* `ServiceScope`: factories return, destructors run, coroutines that can be resumed are, and cleanups
  complete. A cleanup that never completes hangs its scope by design.
* `VulkanWindowPresenter`: the event thread goes on, the GPU executes what it was given, and the
  compositor shows an image, gives it back and signals its presentation. A compositor that keeps the
  images of a hidden window blocks the event thread in the acquisition: the code waits there without a
  limit, and `CallsReturn` rests on this assumption.
* `OptionsPublication`, `WindowManager` and `InputManager` are checked for safety only.

All of this is weak fairness of threads that have a next step, which a preemptive scheduler gives,
plus the termination of user code, without which no such promise could hold.

## 5. Proofs

TLAPS checks every theorem below for all values of the constants, and so for any number of threads,
scopes, observers, files and steps. What each rests on is the named assumptions of its module.

| theorem (module `*Proofs`) | statement |
|---|---|
| `TypeCorrect` (DesktopEventRuntime) | `Spec => []TypeOK` |
| `DrainedBeforeStopHolds` | the pump is stopped only with admission closed and nothing accepted left |
| `NoLostWakeupHolds` | the event thread does not block on work without a wake pending or under way |
| `AcceptedIsExecutedHolds` | no step discards an operation while Run drives the pump |
| `HeldExactlyOnceHolds` | each operation is in exactly one place until it ends, once |
| `OwnPostsPrecedeNextEventHolds` | what a callback posted is executed before the next native event |
| `RuntimeImplementsExecutor` | `Spec => Executor!Spec` under the mapping of section 2 |
| `CliTypeCorrect` (CliApplication) | `CliSpec => []CliTypeOK`, the exit code included |
| `TeardownOrderHolds` | services stop in the reverse of their start, all of them, the signal handlers last |
| `RootEndsHolds` (GuiApplication) | at the end of the run no root window or input context is open, and the session's scope has ended |
| `InputDetachedFirstHolds` | the program destroys the root window only after its input context |
| `AllOrNothingHolds` (OptionsPublication) | what is published satisfies every registered validator; a transaction that fails leaves value, version, sources and validators as they were |
| `YesMeansReloadedHolds` | a provider thread that was told "accepted" is covered by a reload begun after its change |
| `ResetFencesHolds` (OptionsNotifications) | after Reset the callback runs nowhere but around the call of Reset itself |
| `CallbackNotReenteredHolds` | no callback runs twice at once or inside itself, and its slot names who runs it |
| `DispatchIsOrderlyHolds` | one dispatcher; deliveries chain; no observer loses the newest version; the dispatcher never waits |
| `NotificationsImplementFeed` | `Spec => Feed!SafeSpec`: observers are fed as `StateFeed` describes |
| `SaveIsAtomicHolds` (JsonFileOptionsProvider) | the file is never torn; while it is missing a whole one is beside it; a Save reports what it leaves behind, but for a temporary file it could not remove |
| `NothingMissedHolds` | a watcher that sleeps over the file has published it, unless another reload came last |
| `SharedOutcomeHolds` (ServiceScope) | all callers of EndAsync are answered after the ending, with one outcome |
| `EndIsCompleteHolds` | an ended scope has run every cleanup it accepted, once and in reverse, and holds nothing |
| `ParentsEndLastHolds` | cleanups and services wait for the children, whose failures reach the parent's outcome |
| `InputTypeCorrect` (InputManager) | `Spec => []InputTypeOK`, the adapter's state included |
| `FencedNeverRunsHolds` | a subscription that was reset or outlived its manager runs no callback |
| `DevicesConvergeHolds` | after discovery, with no report left, the manager's list is the adapter's inventory |
| `ShutdownReleasesHolds` | a shutdown leaves no context in the adapter, no live record and the pointer free, unless the event thread waits for itself, which only a destructor on another thread can bring about |
| `FocusLossReleasesHolds` | once the loss of the focus was told, no context of the window holds a key |
| `LayersAgreeHolds` | the manager's table and records say what the adapter holds; no mode is on for a window without a context that wants it |
| `SuppressedIsDisabledHolds` (WindowManager, in `WindowingProofs`) | a window that a modal one covers takes no input, whatever stale configuration is applied late |
| `NothingLeftBehindHolds` | between operations the manager and the backend have the same windows, all open, and what is buffered has its flush, queued or begun |
| `SuppressionIsCurrentHolds` | unless subscribers of a configuration change call back: between operations, with nothing buffered, each window is covered by what a replay of the creation order gives, unless a reconciliation was overtaken; and by managed windows in any case |
| `PresenterObjects` (VulkanWindowPresenter, in `WindowingProofs`) | Vulkan objects live as long as anything that uses them, and no longer than their owner, a retired swapchain included |
| `PresenterCalls` | every call is valid: fences, semaphores, images, presentations and swapchains are used as Vulkan demands |

**DesktopEventRuntime** (`ThreadAssumption`: the default thread id is no thread's; `OpAssumption`: an
operation is either posted or submitted). `TypeOK` is inductive alone. Nothing else is: that the pump
is stopped with an empty queue depends on who may still append, which depends on `accepting`, on who
the event thread is and on where Run is. `Control` states these relations: the phase that belongs to
each `pc`, that commands run only where callbacks or draining can be, that `pending` is non-empty only
while draining and `rejecting` only once the phase is Stopped, and that from Stopping on nothing is
accepted or queued. `TypeOK /\ Control` is inductive (`ControlStep`) and implies `DrainedBeforeStop`.
`NoLostWakeup`, `HeldExactlyOnce` and the invariant behind `OwnPostsPrecedeNextEvent` are each
inductive relative to it. `HeldExactlyOnce` rests on lemmas that say what appending, taking the head
and dropping the last element do to the range and injectivity of a sequence. In the refinement each
action is a step of the executor or a stutter: swapping deques only moves the boundary inside
`rejecting \o pending \o commands`, and a rejection is a discard that the executor allows because the
queue is never served. `HeldExactlyOnce` makes each operation's step possible (`Fresh`).

**CliApplication** (`LifecycleAssumption`, `CliAssumption`: the bounds are numbers, the monitor is a
thread of its own). `ApplicationProofs` holds the proofs of both applications, because they share
`LifeInv`: what has been started and stopped, element by element (`Order`), and at which steps of
RunAsync stopping has begun or is complete (`Phases`). `TeardownInv` adds that the handlers are the
process's until the last StopAsync returns (`Owned`). The property speaks of prefixes and reversals;
`PrefixByElements` leads from one to the other. `CliTypeOK` needs two facts of its own (`CliTypeInv`): a
service is being started only while one is left, and the monitor requests a stop only for a signal it
took, so that no exit code is a bare 128.

**GuiApplication** (no assumption on the constants is needed). `GuiInv` follows the three parties that can
end the root. `ExecutorInv` is what they rely on in the event runtime: a command waits once and has no
outcome while it waits, and as long as the worker has not stopped the runtime, only a pump that never ran
refuses or drops commands (`Served`). A command that was answered without being executed therefore means
that nothing was ever created (`RefusedMeansNothingMade`), which is why the code may take any answer to a
destruction as done. `RootInv` says that window and context come from their creation alone and are not
open once a command that destroys them was executed; `CoordinatorInv` and `ScopeInv`, which commands
cannot have been submitted yet, so that no destruction runs before the creation it is meant for
(`MadeFirst`), and what is closed at each step of the rollback and of the cleanups; `EndedWithRoot`, that
the coordinator's StopAsync, the last one by `LifeInv`, has waited for the scope's end (`StopAwaits`).
`RootEndsWithApplication` follows from these parts and is not needed to preserve them (`EndedWhenDone`).
The steps of the pump, the callers and the dispatcher that touch none of it are sorted out first
(`GuiElsewhere`).

**OptionsPublication** (`ValueAssumption`, `BoundAssumption`). `ValidatorsHold` is inductive, because a
transaction publishes under the lock under which validators are added. The other half of `AllOrNothing` is
about each step by itself and holds because taking the last step out of a list undoes adding one
(`Appended`); `TransactionEffect` says for each transaction what it leaves when it fails.
`YesMeansReloaded` is not: it is about the moment everything is at rest, and the invariant must say who
owes a reload until then. `Covered` does: what a thread was told "accepted" for has been read by a build
begun since, or is the task of whoever took the flag. It holds with `StoreBuffers` true and false.

**OptionsNotifications** (`ThreadAssumption`, `BoundAssumption`). The property concerns frames anywhere
in a thread's stack, so the stack is counted from the bottom, where a call does not move the frames
below it; lemmas say what calling, returning, replacing the top and both at once leave in which place.
`FenceInv` then says: there is one dispatcher, one initial delivery per slot while it is
initializing, and one Reset per slot, by the thread that took the token; every call of InvokeCallback
has one of the first two directly below it (`Invoker`); the slot names the thread that runs its
callback (`Named`); a thread that waits in Reset has deactivated the slot (`Waiter`). Hence a slot has
one call of InvokeCallback at a time (`OneCall`), which is what makes `invoking`, a single field, a
sufficient reason for Reset to return. Without `Waiter` a slot could be entered again after the wait.
Because no frame is at two places (`OnePlace`), a stack may then be read as the set of its frames, and
the rest of the proof does. `OrderInv` orders the versions on their way: a notification in the queue is
newer than the one being dispatched (`Newest`), that one is newer than whatever was buffered, entered
or delivered for the observers it still has to consider (`Sent`, `Behind`), and a buffered one is newer
than the call in progress (`Buffer`, `InCall`). So `Rebased` always finds in `lastValue` the version of
the last delivery (`Known`), which is what makes the deliveries a chain. `Coming` follows the newest
version of every observer in the map; a subscription being reset has left the map (`Listed`), which is
why Deactivate may drop what it buffered. That the dispatcher never waits needs `WaitInv`: a Reset is on
top of its stack and its slot active until it is deactivated, so a callback that it would have to wait
for runs above the dispatcher, and on another thread. In the refinement an observer's state is what it
was last given; returning from the callback and the end of the initial delivery are stutters because
`InCall` and `Starting` say that something was delivered by then.

**JsonFileOptionsProvider** (`BoundAssumption`, `ContentsAssumption`: what stands for a torn file, for
none, and for no revision is no document). `DiskInv` adds to the property why each system call is safe
when it comes: the temporary file is whole and flushed before it is moved, the backup is whole until the
new file is in place, and what a Save leaves behind it reports, or could not remove. It holds across
crashes because it requires of file and backup that they are flushed. `WatchInv` follows a revision from
the read to the watcher's memory. What a watcher about to poll knows (`Knows`: the acknowledged revision,
or the previous signature when nothing has failed since) is vouched for (`Vouched`): it was published and,
if replaced, replaced by another thread's reload; or it is what the first Apply of a registration is about
to publish, which acknowledges before it publishes and must then either succeed or end the registration.
That no other Apply can answer the initial observation (`InitialInv`), and that the watcher reloads only
once the gate is open (`GateInv`), is what makes this inductive; `Reported` carries it through the
watcher's own reload, during which it knows nothing.

**ServiceScope** (`NamesAssumption`, `BoundAssumption`). `ScopeInv` has a part for each thing an
ending must not lose. `Memory` says that a caller, a thread or the coroutine of a parent, is remembered
by the scope whose end it awaits and by no other, in exactly one of four places: as owner of the
ending, as one about to join, as a waiter, or among those being woken. Were it in two, the second
answer would reach what it awaits next. `Families` says that a child that can be locked is known to an
active parent, and from the moment the parent begins to end either its end is due or it has ended and
its failure has been heard of; it is stable because a parent that is told of an end is still ending its
children (`ToldIsEnding`, from `Memory`), so an outcome never changes once it is published. `Accepted`
follows the cleanups through the three vectors they pass; lemmas on appending, reversing and taking
the head say that each move keeps their order. `Tasks` says what is left at each step and `Phases` how
steps and states belong together. Trees may have any shape: a scope may resolve when *some* set of
active scopes contains it and is closed under lockable parents, so no induction over ancestors is
needed. The steps are first sorted into those that ask, tell or list a caller and those that do not
(`StepKinds`).

**WindowManager** (`BoundsAssumption`: the bounds are numbers and the calls and callbacks of
subscribers are some of those there are; `NoConfigurationAssumption`). None of the three properties is
inductive. Whether a window may be in one table only depends on which operations have begun, and those
are frames anywhere in `stack`; the proof reads the stack as the set `Begun` of its frames, since a
step replaces the top and pushes. `WindowInv` says what each frame owes. A managed window that the
backend has lost is being finalized and not yet forgotten, or is released and about to be erased; one
whose destruction has begun is leaving the backend or being finalized, and nobody finalizes a window that
the backend has (`Duties`); the destruction of everything still has every
managed window before it or on the stack (`ShutdownDuty`), because it is at the bottom of the stack
and the windows it meets twice are passed over (`OnlyAtBottom`); a buffered configuration has a flush
queued or begun (`Buffered`); and the lifecycle agrees with the tables (`Records`). `SuppressedIsDisabled`
is kept by each of the five ways in which a configuration is recorded: `SwitchEffect` and `ApplyEffect`
say what they leave, and `Adjusts` what a step of refresh, release or reconcile may do to the tables.
`CoversWhileItLives` needs `CoverInv`: an open window is covered by other open windows, or by one whose
release is under way and still has it among its targets. It is stable because a closing window takes as
targets everything it covers (`FinalizeCovers`), and nothing adds a cover that is not open: a refresh
and a reconciliation were computed for open windows, and above a reconciliation there are only
notifications and the reconciliations they cause (`CalmAbove`), which close nothing. That is where the
theorem needs its hypothesis: a subscriber that destroys a window from the notification of a
reconciliation lets it go on and store the destroyed window as a source.
`SuppressionIsReplayed` compares sources that are changed one by one with those of a replay, and
`PairInv` says how far they may differ meanwhile, for each pair of a modal window and a target. A source
that a replay would not give is one whose modal window, or a window above it, is `Due`: what is buffered
for it will change its parent or modality. A source that a replay would give and that is missing is one
that the refresh under way has still to consider. Neither is asked of a target that a reconciliation is
waiting to write (`Awaited`), and a reconciliation that is under way carries what a replay gives
(`Replays`). It holds unless a notification that will reconcile is on the stack, or a reconciliation was
overtaken, and needs four more facts. `Nested` says which operations can be above which, so that outside
a layer that is being rebuilt there is none of it on the stack (`Plain`). `PolicyInv` says where parent
and modality come from: a configuration lags behind the backend by exactly what is buffered, a window of
the backend with a parent agrees with its record, and what is modeless stays so. `RefreshInv` is what a
refresh knows of its window. The hard step is the end of a window: those under it lose it as an ancestor
at once, and the sources they owe to it are justified only because the first one below it has lost its
parent in the backend, which is buffered (`Severed`, `OrphanIsDue`): whoever has a window that is leaving
as its parent in the backend is still to be detached from it (`ChildrenInv`), also when a flush refused
by the runtime runs between two of these detachments. `Ancestors` is therefore written as
the smallest set that the walk over the parents stays in, which the lemmas on it use directly.

**VulkanWindowPresenter** (`VulkanAssumption`: there are images, no size is zero). Neither property is
inductive: whether a fence may be reset or an object destroyed depends on what the GPU and the
compositor still have to do, which depends on what the event thread has waited for, and so on where in
which call it is. `PresenterInv` relates them. `Objects` and `Calls` say what exists at each place and
by which calls a place is reached; `NothingUnderWay`, that without a swapchain, after waiting, and
once the device is lost the GPU has nothing left; `Submissions`, that each one owns the fence of its
frame and its image; `FramesInOrder`, that a frame whose fence is signaled has its semaphore back;
`ImagesInOrder`, that the code holds the image it draws and no other; `Presentations`, that what is
shown has its fence pending. Each group is preserved relative to the others, for any number of images,
sizes and failing calls.

**InputManager** (`KindsAssumption`, `WindowsAssumption`, `FiniteAssumption`: contexts and devices are
finitely many, because a window's targets and the devices found at the start are gone through one by one).
`InputTypeInv` adds to the types what a queue may hold and what a step remembers. `FencedInv` relates a
subscription that is on to the life of its record: it can only be made while the record is open, an open
record is in the table until the detaching thread owns it (`OpenIsFound`), and each phase of that thread
leaves less to fence (`TeardownPhases`); hence nothing is on when it is done, although subscriptions are
made until their record is marked. Steps that neither end a record, nor touch a subscription or the
teardown, are sorted out first (`QuietOrLoud`). For the devices the queue is read from its end: the last
report of a device says its version in the inventory, or there is none and what the manager shows, or is
about to show, is that version (`Tells`). This is what keeps discovery right: it runs beside reports
already queued, and whatever it lists too early the last report corrects. It holds as long as the runtime
accepts and the manager has not stopped. `ReleasedInv` is the end's debt: after a shutdown by command
nothing lives and no creation is under way; after a destructor on another thread the cleanup is in the
queue until that is true; a loop that has ended has none left. A creation that meets the end either comes
before it in the queue, and is freed by it, or finds the manager stopped and frees its own context; when
the adapter has other contexts of the window to report through a sink that is still attached, the thread
stops there, and the step says so for ever. It rests on `Turns` (the loop is left only by an idle event
thread), on `DestroyingGoesOn` (a record that is being destroyed is the step that goes on, so no command
sees it) and on what `ShutdownInput` does to any state of the adapter. Most steps leave all of this alone,
and `CalmStep` says what they may do. For the keys, `KeysHeld` says that a key is held only for a window
that has the focus or will be told that it lost it. A key that is pressed by a queued command must then be
for such a window: `KeysTold` says that the window a queued key is for is the one that was told to have
the focus last, because the pump asks for an event only when the queue is empty. Both speak of contexts by
name, so names must not change hands meanwhile: `Named` and `Queued` say that a context that is asked for,
or is being made, has no record, nothing pressed and no input on its way, and is asked for once.
`LayersAgree` takes three more. `ModesInv` is about the adapter and the system: relative mode and capture
are on only for a window with an enabled context that wants them, which takes input and is active or has
the loss of its focus still to be told, and text input only for a window that takes input and has an
enabled context (`Follows`); and what the adapter saw of a focus differs from what the system did by
events that are still to be delivered, the last of them the truth (`Seen`). The window that loses is
needed because the modes are refreshed when the event is delivered, not when the focus goes. Every
operation of the adapter changes windows, or contexts bound to them, and refreshes those windows;
`RefreshFollows` says that this restores `Follows` if it held before the change (`Changes`). `FacadeInv`
is about the manager and the adapter: until the manager stops, its table holds the adapter's contexts but
the one that is being made, and a record says of each what the adapter says (`Agrees`), which is what the
report of a refresh through the sink is for. It needs the sink attached and no cleanup in the queue for as
long as the manager has not stopped (`Running`).

*Only model-checked:* every liveness property, and the fairness half of `StateFeed`. Every invariant of
the passing runs is stated by a theorem.

*Out of the prover's reach:* liveness under fairness and ENABLED; and what `BuildCandidate`, a fold
over the sources, computes. The recursive function `Root` of `ServiceScope`, which finds the thread
that runs a coroutine, only restricts when a step is possible; no theorem needs its value.

## 6. What the checks found

Two runs show the code doing something other than its documentation says. Each has the expectation
"violation" and the quoted line in `PROJECT.json`.

1. **A root window that closes early** (`GuiApplication_closed`). "Configure the window whose closure
   stops this application" (`GuiApplication.hpp:76`). The coordinator creates the root window, then its
   input context, and only then the WindowSession that subscribes to Closed and does not look at the
   window's state again (`WindowSession.cpp:340`). A window that is closed in between is closed without
   anybody hearing of it: the composition succeeds and the application runs on without a window.
2. **A disabled context keeps pressed keys** (`InputManager_disabled`). "Disabling a context atomically
   clears pressed keys, buttons, and touches from its next state snapshot" (`IInputContext.hpp:48`).
   MutateOnRuntime clears them when the configuration it applied is disabled and the record's was
   enabled (`InputManager.cpp:1086`). But the SDL backend's SetContextEnabled reports the new
   configuration to OnTargetInputChanged first, through RefreshTargetPointerModes: the record is
   disabled already when the two are compared, nothing is cleared, and the key stays in the snapshot.

Seen while modelling, without a run of their own. The first seven are definitions of the modules: adding
the name to the cfg shows the behaviour.

* `NeverLocksTwice` in `InputManager.cfg`: the event thread deadlocks with itself. A manager is destroyed
  on another thread while a context is being created, between the two critical sections of
  CreateContextOnRuntime. The second one finds the manager stopped and calls the backend's DestroyContext
  with `State::mutex` held (`InputManager.cpp:1046`). As long as the destructor has not detached the sink,
  the backend reports the window's other contexts from inside that call (`SDLDesktopState.cpp:1628`), and
  ApplyTargetConfiguration looks up the first in FindRecord (`InputManager.cpp:453`), which locks the same
  mutex. The schedule: a context exists, a second one on its window is being created, the destructor's
  ShutdownFallback begins, the creation goes on. "Manager shutdown closes all remaining contexts before
  releasing platform input state" (`src/Docs/Pages/Input.md:168`); here it never does, and the destructor
  may wait for the sink's mutex as well. GuiApplication shuts its manager down by a command, which the
  event thread cannot run in the middle of a creation, and is not exposed. `ShutdownReleases` says that
  nothing else leads there.
* `TokenSignalledBeforeStop` in `CliApplication.cfg`: RequestStop publishes the flag in its critical
  section and signals the token after it (`ApplicationLifetime.cpp:161`), so a service can be stopped,
  and the run can even end, before the token it was started with is requested.
* `NoChangeLeftBehind` in `OptionsPublication.cfg`: Notify stores `pending` with release order and then
  loads `active` with acquire order (`OptionsMonitor.inl:391`); nothing orders the store before the
  load, and a provider that changes during its registration can be told "not accepted" while the
  registration finds nothing pending. Providers that retry, as the JSON watcher does, are not harmed;
  without store buffers the interleavings are harmless as well.
* `BoundedByParent` in `ServiceScope.cfg`: a child whose last reference was just dropped cannot be
  locked by the parent that ends, although its destructor has not ended it yet
  (`ServiceProvider.cpp:276`).
* `EffectiveIsApplied` in `WindowManager.cfg`: a configuration buffered by an event is applied after
  commands that ran since and overwrites what they recorded (`WindowManager.cpp:667`); a facade can
  then show input as enabled that the platform has disabled.
* `SuppressionIsReplayed` in `WindowManager.cfg` without `~overtaken`: ReconcileModalSuppression
  computes all sources first and applies them one by one (`WindowManager.cpp:1260`). Applying one
  records the configuration that the backend returns, which may show a parent that went meanwhile, and
  a change of parent or modality reconciles again (`WindowManager.cpp:1002`) inside the loop; the outer
  loop then goes on and overwrites the newer sources with its own. Five windows show it, no subscriber
  is needed: 1 is modeless, 2 application-modal over 1, 3 and 4 disable their parent 1, 5 is
  application-modal; 1 is destroyed and then 5, before the flushes that tell of the detached 2, 3 and 4
  have run. Window 4, modeless now, ends covered by nothing and with input on at the backend, although
  application-modal 2 is open. "The window manager maintains asynchronous input suppression until the
  modal window is destroyed" (`WindowTypes.hpp:90`). With four windows and no subscribers it does not
  happen, and five with every command and event are more than a run can hold. The same overwriting
  happens with three windows, `ReentrantKinds = {"setInput"}`,
  `ReentrantFrames = {"notify"}` and `MaxStack = 4`.
* `AcknowledgedIsPublished` in `JsonFileOptionsProvider.cfg` with `Kinds = {"write", "reload"}` and
  `MaxEvents = 3`: a reload by hand that read an older file can publish after the watcher's
  (`JsonFileOptionsProvider.cpp:901`). `NothingMissed` states what does hold.
* `src/Docs/Pages/Options.md:467` says that a notification returns true "only when the reload was
  accepted", while a thread that finds the flag taken returns true for somebody else's reload, which
  may still fail (`YesMeansReloaded` states what does hold). `src/Docs/Pages/WindowingBackends.md:84`
  says that callbacks hold no platform lock; close callbacks run under the recursive sink mutex.
* Input: a key event that is queued behind the command that disables or destroys its window is
  published after the invalidation. When the destruction of a context fails at the backend and the
  manager has fallen back to its terminal state meanwhile, the record's state is restored to open
  (`InputManager.cpp:1150`). PublishDeviceChanged does not look at the shutdown again under the lock.
* JSON files: when a Save fails and the temporary file cannot be removed either, nobody is told of the
  file that stays (`JsonFileOptionsProvider.cpp:191`). Modification times are assumed to differ from write
  to write. A crash in the middle of ReplaceFileW leaves the backup, which no restart puts back: an
  optional file then counts as absent. The rename is not followed by a flush of the directory, so a Save
  that returned may be undone by a power loss, though never torn.
* Vulkan: errors of waits other than a lost device are ignored; a surface that dictates an extent other
  than the framebuffer's has its swapchain created anew with every redraw; a lost device is kept.

## 7. Abstractions and assumptions

* Values, messages, names and exit codes are model values or small sets. A failure is one bit.
* Running out of memory is left out, and with it the roll-backs that only it can reach.
* `DesktopEventRuntime`: the destructor of Run's stop callback, which waits for a callback in progress,
  is part of the end of Run. A sender is started once.
* `ApplicationLifecycle`: registration precedes the run (`ServiceCount`); the destructor finds an ended
  run. `StopSender` is modelled by the waiter it registers.
* `GuiApplication`: the event runtime is `CommandExecutor`, which `DesktopEventRuntime` is proved to
  implement. The root's scope is its two cleanups and who asked for its end. Sessions with an inherited
  or an external scope are left out, and with them further windows.
* `OptionsNotifications`: one monitor. Two monitors whose callbacks each reset an observer of the other
  can wait for each other; nothing in the code orders monitors.
* `OptionsPublication`: one observable provider. The callback of Update yields any value; it runs under
  the lock.
* `JsonFileOptionsProvider`: parsing is whether a document is accepted, refused or unparsable. There is
  one temporary name at a time: a file that an earlier Save could not remove is forgotten when the next
  one begins. The failure of that removal does not count among the bounded events. The monitor is what
  reload, publication and the gate are to the provider; its other sources are left to
  `OptionsPublication`.
* `ServiceScope`: cleanups complete, and factories do not wait synchronously for an ending: a cleanup
  that awaits its own scope, or a factory that waits for one under the lock, hangs, and the header does
  not exclude it. A factory that drops the last reference to a scope is left out.
* `WindowManager`: titles, geometry, focus and close reasons follow the configuration they are part of.
  Left out: the presenter with the creations it makes fail, the fallback that destroys windows off the
  event thread, and what the pump does with windows in its own Stop and ShutdownWindows, after the runtime
  has drained. A native event may still be delivered after the stop was requested. A window created
  without input is one whose input is disabled at once; a native quit is a close event per window.
  Shutdown begins when the event thread gets to it: that facades refuse from an earlier moment on is like
  nobody calling them.
* `InputManager`: the payload of an event is its kind. Contexts without a window, and text input
  details, are left out. The event runtime is its queue of commands, in order.
* `VulkanWindowPresenter`: one window. The choice of device, format and present mode is left out; what
  the driver answers is nondeterministic within the specification of Vulkan.

## 8. Not modelled, or only in part

| component | status | reason |
|---|---|---|
| WindowManager | partly | without the presenter and the fallback off the event thread (section 7) |
| SDLDesktopState (windows and pump) | partly | its window table and event dispatch are in `WindowManager` and `DesktopEventRuntime`; monitors and display modes are queries |
| GuiApplication, WindowSession, ScopeEndDispatcher | partly | sessions with an inherited or external scope, and further windows, are left out |
| VulkanWindowPresenter | partly | one window; the evaluation of devices and formats is left out |
| ServiceLocator, ServiceCollection, ServiceDescriptor | partly | activation and commit are in `ServiceScope`; which registration answers a request is a pure algorithm |
| World2D hierarchy | no | a sequential data structure with generational identifiers, without the concurrency the other modules are about |
| EnvironmentOptionsProvider, RenderScene2D, Drawing2D, Rendering | no | pure conversions, floating-point geometry and immutable values |
| Logging | no | formatting and output; that each log call of RunAsync may throw is in the lifecycle |
| Task, Execution | no | coroutine plumbing; tasks appear as the steps between suspension points |
| Editor | no | a small application of the parts above |

## 9. What is left

1. `World2D` and the resolution of `ServiceLocator`, as functions on forests and registrations checked
   against reference definitions.
2. `GuiApplication` over `DesktopEventRuntime` itself, and with a second window whose session inherits
   the scope of the first.
3. Several windows in `VulkanWindowPresenter`, which share the device but not the swapchain.
