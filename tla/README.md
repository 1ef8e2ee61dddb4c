# A verification project for jslibs

jslibs extends SpiderMonkey with native modules.  Most of it wraps libraries and
runs on the thread of the script; what is hard to test is the small part where
native threads, semaphores and script meet.  This directory models that part in
TLA+, checks it with TLC on small instances and proves the central facts with
TLAPS for every instance.  Paths below are relative to `src/src/`.

    tlc -workers 2 -config PE_Timeouts.cfg MCProcessEvents     one run
    tlapm ProcessEvents_proofs.tla                             the proofs about ProcessEvents

## 1. Inventory

| Component | State | Operations | Interacts with | Hard behaviour | What makes it correct |
|---|---|---|---|---|---|
| Event multiplexer, `jslang/static.cpp:376-654`, `jslang/jslang.h`, `jslang/main.cpp` | a slot per argument position (handle, start semaphore, end flag, thread), one signal semaphore | `processEvents(h...)`, `timeoutEvents(ms)`, release of the module | calls prepareWait/startWait/cancelWait/endWait of every handle; endWait calls script, which may call processEvents again | workers race with cancellation and with the killing of their thread; nesting; reuse of handles | script never runs beside a worker; no slot or token is left; exactly the events are reported; calls and the release end |
| Semaphore, `jsio/semaphore.cpp` | a named semaphore, its ownership; `_hasEvent` of a handle | constructor, wait, post, events, finalizer | other processes; multiplexer | its wait cannot be cancelled, the thread is killed | a token taken is an event reported |
| Threaded deallocator, `host/host2.cpp:42-221` | head of a chain through the freed blocks, its length, load, trigger flag, order for the thread, semaphore | `_malloc`..., `_free`, constructor, destructor, setSkipCleanup | every module, through jl_free | lock-free chain shared by two threads; wake-up protocol | no block freed twice or used after it; none lost; the thread is woken and ends |
| Task, `jstask/task.cpp` | three queues, three counters, two semaphores, a mutex, an event, the flag `end` | request, response, close, idle, counters, events; the thread | its own runtime; multiplexer | exchange over two semaphores and an event; fatal errors of the thread; close at any time | answers in order, each with its own exception; true counts; whoever waits gets on; close ends |
| Threading layer, `common/jlplatform.h:3340-4090` | semaphores, mutexes, conditions, events, threads, for WIN and UNIX | create, wait, trigger, ... | everything above | two implementations of one contract | each implements the contract |
| Queue, `common/queue.h` | linked list | push, shift, unshift, remove | Task, jssdl | none (sequential) | is a sequence |
| End signal, `jshost/jshost.cpp:225-410` | a state, a condition, a mutex | getter, setter, signal handler, events | signals; multiplexer | the handler interrupts the thread that holds the mutex | a signal ends every wait |
| Watchdog, `host/host2.cpp:335-420`; SandboxEval, `jsstd/static.cpp:835-1000` | a thread, the interrupt callback | start, stop, interrupt | engine; script | interrupt beside stop, nested callbacks | a script is interrupted while it may be; stop ends |
| Module manager, `host/host2.cpp:592-750`, `host/host2.h:647-750` | an open-addressing table of modules | loadModule, addLocalModule, modulePrivate | all modules | failing initialisation, nested loading, full table | a module is loaded once and found again |
| Descriptor events, `jsio/descriptor.cpp:709-860` | a poll set per handle, one shared pollable event | prepareWait, startWait, cancelWait, endWait | NSPR; multiplexer | one event cancels all polls; failing prepareWait | handles become free again; no event lost |
| Shared memory, `jsio/sharedMemory.cpp` | a header in shared memory with a count and a lock | open, read, write, close | other processes | crash of a process inside the lock | the last one out deletes it |
| Video, `jssdl/main.cpp`, `jssdl/static.cpp` | video thread, swap thread, surface flag, internal events | setVideoMode, swap, events, end | multiplexer | four threads, two conditions | a swap never uses a dead surface; the end ends |
| Handles, blobs, serializer, type conversion; the other modules (database, audio, graphics, physics, crypto, network, shell) | buffers, handles of libraries | wrappers | third-party libraries | none of their own | outside of this project |

`src/libs` is vendored third-party code.  `PROJECT.json` lists every component, what is left
out and why, and under `hazards` what is hard to test, each at its line.

## 2. Plan

The order is that of importance: everything that waits goes through the multiplexer, everything
that frees goes through the deallocator, Task is the only component where two runtimes meet, and
the rest are the other places where a native thread or another program meets the script.  Each
component has a module, the bounded instance a cfg (with an `MC` module where a constant or a
refinement needs one), and its theorems a `_proofs` module.

| | Modules | Proofs |
|---|---|---|
| 1 | `WaitAny` (abstract), `ProcessEvents`, `MCProcessEvents` (refinement) | `ProcessEvents_proofs` |
| 2 | `ThreadedAllocator`, `MCThreadedAllocator` | `ThreadedAllocator_proofs` |
| 3 | `Task`, `MCTask` | `Task_proofs` |
| 4 | `EndSignal`, `MCEndSignal`: the signal, the condition of WIN and of UNIX | `EndSignal_proofs` |
| 5 | `DescriptorEvents`, `MCDescriptorEvents`: polls, the shared pollable event | `DescriptorEvents_proofs` |
| 6 | `WatchDog`: the thread, the interrupt callback | `WatchDog_proofs` |
| 7 | `Video`: two threads, the surface, two kinds of handles | `Video_proofs` |
| 8 | `SharedMemory`, `MCSharedMemory`: several programs and the names of POSIX | `SharedMemory_proofs` |

What is left:

- `Event`, the contract of JLEvent, refined by its WIN and its UNIX implementation
  (`jlplatform.h:3723-3898`); semaphores and threads in the same way.
- `ModuleManager`: the table with failing and nested initialisation against a set of modules.
- The ownership of the names of semaphores (`jsio/semaphore.cpp`), which is close to SharedMemory.
- `Queue` refining a sequence.
- Proofs: what `WaitAny` promises when a call has semaphore handles and one of its threads is
  killed, in the cases in which that holds.

## 3. What is modelled

### ProcessEvents (and WaitAny)

One action is one access to shared memory, one semaphore operation or one call.

- The script thread is `main` (program counter) with a stack of calls (`depth`, `args`, `idx`,
  `mask`), because endWait() runs script which may call again: `Call` is the checks and
  prepareWait; `StartThread`, `SetSlot`, `ReleaseStart` the loop at static.cpp:439; `WaitSignal`,
  `RepostSignal` lines 472-473; `CheckSlot`, `CancelTimeout`, `CancelSem`, `KillSlot`,
  `KillSignal`, `KillThread`, `KillJoin` the loop at 477; `Collect` 495; `EndWaitEvent`,
  `EndWaitNoEvent`, `CallbackReturns` 510; `Return` 540.  `BeginRelease` is the destruction of
  the runtime, which finalizes every handle (`Finalized`: host2.cpp:501, handle.cpp:24), and
  `NextSlot` ... `JoinWorker` are ReleaseModule (main.cpp:47), which runs behind it.
- A worker is `worker[i]`: `AcquireStart`, `Exit`, `BeginWait`, the wait of the handle,
  `ClearSlot`, `Signal`.  A wait that still runs when its handle is finalized uses freed memory
  (`UseFinalized`): it may return, hang or crash the process.  BeginWait with an empty slot is the crash that the assertion at
  static.cpp:388 excludes.
- A timeout handle has its cancel event and `canceled`; a semaphore handle `_hasEvent` and the
  semaphore, which anyone may post.  `canceled` and `_hasEvent` start with any value: no
  constructor sets them.
- `Die`: TerminateThread acts at once, pthread_cancel at the next cancellation point; the model
  lets the thread die between any two of its steps, or go on for a while.
- `happened` is history: the wait's own event ended it.

`Callers` says which handles script passes: made for the call as in the documentation
("fresh"), each at most once ("once": no renewal, a smaller state space), or reused ("any").
`TimedWaitReportsTimeout` is the result of JLEventWait: true on WIN; on UNIX the code compares
the result of pthread_cond_timedwait with -1 (jlplatform.h:3888), which it never is.

`WaitAny` says what processEvents() promises script: block until an event occurred, dispatch
exactly the handles whose event occurred, in order, return their positions; calls nest.  It has
no threads, tokens, slots or cancellation.  `MCProcessEvents` maps the detailed state to it
(`Phase`, `Events`, `NextToDispatch`), and `ImplementsWaitAny` is checked as a property.

Not modelled: the conversion of arguments, exceptions saved around endWait (they do not change
the order of calls), the priority of threads.  Accesses to `peSlot` are sequentially consistent;
it is an aligned pointer accessed around semaphore operations.

### ThreadedAllocator

Each access to a static member and to a block's first word is an action: `Push`, `SetHead`,
`Count`, `TestTrigger`, `Untrigger`, `SetProcess`, `PostProcess` are `_free()`; `ResetLength`,
`ReadHead`, `Cut`, `FreeNext` are freeHead(), run by the thread and by the destructor; `Arm` ...
`Unarm` are the thread; `ClearTrigger` and `FirstFree` are the rest of the constructor after the
thread was started; `Destroy` ... `FreeLast` the destructor.  A block is free, live, queued or
freed twice.  Any block may be BIG_ALLOC (`FreeNow` is always possible).  `raced` is history:
the thread armed the flag before the constructor cleared it.  Not modelled: the size of blocks,
the table of function pointers.

### Task

`ThreadStep` is the thread (TaskThreadProc, TheTask), `Script` and `CallStep` the script's
request(), response(), close(), `WaitStep` the wait of a handle that events() returned, run on a
worker of the multiplexer.  A section under the mutex is one action; the semaphore and event
operations outside of it are actions of their own.  A request is its number and a response names
the request it answers, so that order and pairing can be stated.  Error paths are switched on by
`Failures`: "host" (CreateHost fails), "fatal" (the function, a request or a response cannot be
converted), "double" (neither can the error, and responseSem is released in its stead, 295-301),
"lost" (the error cannot be fetched or converted, and the thread ends without a word: `FatalLost`,
286 and 289), "unserialize" (the script cannot read a response:
response() returns with the mutex locked, task.cpp:602).  processEvents() is reduced to start,
cancel, collect and end.  task.cpp is still written for an older `ProcessEvent` struct with
function pointers; the protocol is the same four calls.

Not modelled: the constructor's failure path, a failing InitHost, use of a handle after close().

### EndSignal

- `Signal`, `SetByInterrupt`, `InterruptEnds` are Interrupt() (jshost.cpp:259-291).  On WIN the
  system runs it on a thread of its own.  On UNIX it runs on the thread that it interrupts: with
  `suspended` the script does nothing until it returns.
- `SetEndSignal`, `SetterReturns` are the setter (241); `FreeInterrupt` is freeInterrupt().
- `PrepareWait`, `CancelWait`, `EndWait` are the calls of the multiplexer; `Enter` ...
  `ResetEvent` are startWait() with JLCondWait() in it, `BroadcastAndRelease` is
  JLCondBroadcast() (jlplatform.h:3580-3670): of WIN, a count of the waiters and a manual event;
  of UNIX, the condition of pthreads.  A section under the mutex is one action as far as it
  touches nothing that others touch without the mutex; on WIN the decrement of the count is two
  actions.

`MaxWaits` bounds, per platform, the handles a call gets.  `Misuse` switches on a signal that
interrupts the owner of the mutex ("lock") or that is handled while the program ends ("exit").
A signal that arrives while another is handled waits.

### DescriptorEvents

The four calls of IOProcessEvent (descriptor.cpp:721-825) under a stack of calls of
processEvents(): `ProcessEvents` runs every prepareWait() and starts the polls, `PollReturns` and
`PollFails` are PR_Poll(), `CancelWaits` sets the one pollable event of the module, `Collect`
waits for every thread, `EndWaitSets` and `EndWaitResets` are endWait() up to and from the reset,
for each handle in the order of the arguments, and `CallbackReturns` ends its callback, which may
have received (`Receive`) and called again.  `PrepareThrows` leaves the handles prepared before
it in use, in `abandoned`.  `Faults` are a failing prepareWait(), a failing PR_Poll(), and
callbacks of handles of another kind that call processEvents() while descriptor handles behind
them are to be ended.  What a poll tells is a set: an event of the descriptors, the pollable
event, an error.  The descriptors themselves are input and output.

### WatchDog

`IntervalElapses`, `SeeEnd`, `TestCallback`, `RequestInterrupt` are the thread
(host2.cpp:338-423), the rest setInterruptInterval(), start(), stop(), interruptCallback() and
the destruction of the runtime.  The engine is external: a request sets a flag, the script's next check
clears it and calls the callback, if any.  `StopInCallback` says whether onInterrupt may set the
interval to 0.  The lengths of intervals are left out, but not that 0 means none.

### Video

The video thread (`VideoStep`: pump the events, take an order, set the mode, report), the swap
thread (`SwapStep`), the script's setVideoMode(), swapBuffers() and EndVideo() (`CallStep`) of
jssdl/main.cpp:79-454, and the waits of surfaceReadyEvents() and sdlEvents() (jssdl/static.cpp)
on a call of processEvents().  A surface is the number of its mode.  A section under one of the
three mutexes is one action.  The condition wakes its sleepers and no one else; what JLCond does
on WIN is in EndSignal.  WaitSurfaceReady() and the InvalidateSurface() behind it are two actions
(`AwaitSurface`, `Invalidate`; `AwaitSwap`, `InvalidateSwap`).  `Retries` lets the script set a mode after one that failed.

### SharedMemory

The constructor, read(), write(), clear(), content, close() and the finalizer
(sharedMemory.cpp:21-324) of several objects, each of any of the programs, step by step: open or
create the semaphore, wait for it, open the memory, count, post; and backwards.  The constructor
may throw at each of its checks: with the semaphore taken ("attach") or behind the post, when the
object is counted already ("define", line 207).  The names
are external and those of POSIX: a removed name is free for new memory while those that have
the old one keep it.  A program may be killed at any step (`Crash`), with the semaphore in its
hands only if "held" is one of the `Faults`.  Opens and closes interleave in every way.

History variables remember what the protocol does not survive: `abandoned`, the semaphores that a
throw or a kill left taken; `leaked`, a constructor that threw behind its post; and `raced`, one of
two overlaps (`Overlap`) has happened: a program has got the semaphore before the one that created
it (between lines 164 and 173), or has opened the name after the last one found itself the last
and before that has removed both names (79-97).  The properties exempt what comes after these,
each as little as it needs; section 4 has what goes wrong.

### Not modelled

- The module manager: an open-addressing table that one thread uses; the hazards of its failing and
  nested initialisation are listed.  Host, HostRuntime and Global are sequential set-up of an
  external engine, but for the watchdog.
- SandboxEval has a watchdog thread of its own, but the function stops at an unconditional
  `ASSERT( false )` before it (jsstd/static.cpp:927).
- The names of semaphores and their owner; semaphores, mutexes, threads and JLEvent below their
  contract; Queue, which is used as a sequence.
- Of modelled modules: the failure path of Task's constructor and a failing InitHost; SDL's decoding of
  events; input and output through descriptors.
- Conversions, blobs, streams, the serializer; the database, audio, graphics, physics, network,
  cryptography and shell modules.  These are wrappers of libraries, or numerical code, without a
  state that several actors share.  `src/libs` is third-party.

## 4. The runs

Passing runs.  Deadlock is checked in `PE_Timeouts`.  In the others the
system may stop, because nobody has to post, free, request, send a signal, open a name or write;
what must not stop is stated as liveness (`SM_Names` is about safety only).

- **PE_Timeouts** (12,355 states).  Two slots, three timeouts of which one is 0,
  nesting 2, fresh handles.  Two slots suffice for one to end and one to be cancelled; nesting 2
  for a call inside a callback between two endWaits.  Checks the assertions of the code
  (`StartsWithHandle`, `SlotFreeWhenAssigned`, `QuiescentAtReturn`), that script and workers
  exclude each other (`ScriptRunsAlone`), that a waiting handle is rooted
  (`WaitedHandlesAreRooted`), and that the call implements `WaitAny`.
- **PE_SemOnce** (2,990 states).  A timeout and a semaphore handle, each used once, so that the
  thread is killed at every point of its wait, and the creation of a thread may fail at either
  argument.  The call still waits for an event and returns or throws; the release ends, if every
  wait that was left behind is over when the handles are finalized.  One use of each handle means
  that no call follows one that threw on the same slots: that fails, see below.
- **TA_One** (111,202 states).  Three blocks: the head, one behind it, one in `_free()`.  MAX_LOAD
  is 3 (7 in the code) so that the load can reach it.  No double free, no use after free, no
  block lost, the sleeping thread can be woken, the destructor ends, the chain is freed.
- **TK_One** (157,363 states).  Two requests (one answered, one queued or processed), two handles,
  so that onResponse runs before the last handle is ended, and every failure.  Order and pairing
  of answers, true counts, an answer to every request when the counts are 0; events() handles wake, response() and close() return.
- **ES_Signals** (35,498 states).  Two handles, two signals; two waits of one call on UNIX, one on WIN.
  No wake-up is lost, a call reports a signal only if there was one, and a signal ends the call.
- **DE_Calls** (290,600 states).  Three handles and a timer, calls with two of them, nesting 2:
  an inner call shares the pollable event with the rest of the outer one.  A call reports an
  event; no handle stays in use but those of a call that threw; an event ends the call.
- **WD_Intervals** (131 states).  The protocol has few states; four intervals and nesting 2 cover
  a change from none, to none and between two.  The watchdog is there when it should be; a script
  that runs on is interrupted again and again; stop() ends.
- **VI_Window** (23,251 states).  Two modes set one after the other, the last of which may fail, beside
  swaps and waits.  The script draws alone; setVideoMode() succeeds with its own mode; every call
  that waits for the surface returns; EndVideo() ends.
- **SM_Names** (1,008,910 states up to the symmetry of the objects).  Three objects: the one that
  creates, one that opens, one that comes after; four openings, so that a name lives twice; two
  writes, one kill, all faults, every interleaving of opening and closing.  All share one memory and
  the last content; the last one removes the names; a semaphore has one owner.

Violations, each a disagreement of the code with what it says of itself (`findings`):

- **TA_TwoThreads**: two freeing threads free a block twice; Task's runtime frees through jl_free
  from its own thread.
- **TK_Idle**: idle is true when a fatal error of the thread waits for response(), whatever is
  queued (task.cpp:694, against the documentation at 682).
- **VI_Retry**: a setVideoMode() after one that failed does not wait for its own order and goes on
  without a window (jssdl/main.cpp:126, against the assertion at 160).

Other disagreements that the same models show with other constants or properties that no run
lists.  The definitions are in the modules; each takes a changed cfg to see.

- ProcessEvents, a semaphore handle beside a timeout (`SemEvents = {s}`, `Callers = "once"`).
  `QuiescentAtReturn` fails: the call posts for the thread it kills, but the thread may have posted
  as well, and a token is left (static.cpp:485, against the assertion at 537).
  `ReportsExactlyEvents` fails: a thread killed between the semaphore's token and `_hasEvent =
  true` consumes the token silently (semaphore.cpp:247).  `StartsWithHandle` fails: a thread killed
  before it has taken its start token leaves it to the next thread of the slot (487), and the call
  may clear the slot between a thread's start token and its look at the slot (484).
- ProcessEvents with `ThreadsMayFail` and `Callers = "fresh"`: `SlotFreeWhenAssigned` fails, the
  call that threw has left waits behind (static.cpp:454), and so does `WaitedHandlesAreRooted`.
  Without its premise `ReleaseEnds` fails for the same reason: such a wait outlives its handle and
  the event in it (host2.cpp:501), and the release joins it.
- ProcessEvents with `Callers = "any"`: `WaitsForAnEvent` fails, endWait() of a cancelled timeout
  does not reset its cancel event (static.cpp:607).
- ProcessEvents with `TimedWaitReportsTimeout = FALSE`: `ReportsExactlyEvents` fails; on UNIX no
  timeout is ever reported (jlplatform.h:3888).
- ThreadedAllocator: `SynchronousOnlyUnderLoad` fails.  `_load` keeps MAX_LOAD when the chain is
  empty, the thread sleeps and is never triggered again (host2.cpp:105).  Without `~raced`,
  `SleeperCanBeWoken` fails: the constructor may clear the flag that the thread has set (218).
- Task: `EventsReturnAfterError` fails, a fatal error of the thread does not wake
  processEvents( task.events() ) (task.cpp:308).  `CancelEnds` fails with two handles: one handle's
  JLEventReset erases the other one's cancellation (753).  With `FreshHandles = FALSE`,
  `WakesForAResponse` fails: `canceled` is never reset (760).  Without the premise on the mutex
  `CloseEnds` fails: response() returns with the mutex locked when it cannot read a response (602);
  `ResponseReturns` fails without its exemptions: the thread exits without a word when it has
  no memory (255) or loses the error that ends it (286, 289), and response() waits for ever.
- EndSignal with two waits to a call on WIN: `WaitersAreCounted`, `NoLostWakeup` and `CancelEnds`
  fail, because two waiters decrement the count without the mutex (jlplatform.h:3630).  With
  `Misuse = {"lock"}`, `CancelEnds` fails: the handler waits for the thread it
  interrupted (jshost.cpp:291).  With `{"exit"}`, `HandlerFindsTheMutex` fails (424).
- WatchDog with `StopInCallback`: `WatchesWhenSet` fails, the callback enables itself again after
  stop() (host2.cpp:353).
- DescriptorEvents with "timerCalls": `WaitsWithEventClear` and `ReportsAnEvent` fails, the inner
  call starts with the event that the outer one has set (descriptor.cpp:784).
- SharedMemory, without the exemption of `raced`: `OneMemory` and `ContentIsShared` fail, the creator
  resets what another has counted and written (sharedMemory.cpp:173); those two and
  `LastOneRemoves` fail, the last one deletes names that another has just opened (89).  Without that
  of `leaked`, `LastOneRemoves` fails: a constructor that throws at line 207 has posted, with its
  object in the count, which nobody takes back.  Without that of `abandoned`, `LockIsHeld` fails: the
  throws at 176-183 and 303 leave the semaphore taken, and everybody else blocks.

## 5. Fairness

The operating system runs every runnable thread: weak fairness on the steps of each native
thread, and on what the script's thread does inside a native call.  A thread blocked on a
semaphore, a mutex or a condition is not enabled, so nothing is assumed about the order in which
waiters are served.  The script itself owes nothing, nor does anybody who might post a semaphore, free
memory, make a request, move a window or send a signal.  Per module:

- ProcessEvents: each worker, and the call.  Time passes, so a timed wait ends.  A callback is not
  assumed to return.
- ThreadedAllocator: its thread, and what runs inside `_free()`, constructor and destructor.
- Task: its thread, each wait, each call; taskFunc and onResponse are assumed to return.
- EndSignal: each wait, the handler (a thread of the system on WIN, a signal handler that returns
  before the interrupted thread runs on, on UNIX), the call; its callbacks return.
- DescriptorEvents: the calls with their callbacks, and PR_Poll() of a descriptor that has an event
  or a set pollable event.
- WatchDog: the thread, stop() and start(), and of the engine that a running script checks for
  interrupts; onInterrupt returns.
- Video: both threads, the waits, the calls with their callbacks; SDL's functions return.
- SharedMemory: none; programs may die at any step and nothing is promised to happen.

## 6. What is proved

Every theorem is for all values of the constants, under the named ASSUMEs of the modules, which
every run evaluates, and the assumption given here.  Each module proves one inductive invariant,
`IInv`, of which TypeOK is a part: it holds initially, every action preserves it (one step per
action), and the properties follow from it; some need a further invariant, named below, that is
inductive relative to `IInv`.  All of them are invariants that TLC can check, too.

`ProcessEvents_proofs`:

- `TypeCorrect`: type correctness of the full model, kills and failing threads included.  It needs
  `FrameInv`: the shape of the stack of calls.
- Under `SemEvents = {}` and `ThreadsMayFail = FALSE` (every wait can be cancelled, every thread
  created; section 4 shows that both are needed): `WorkersStartWithHandle`, `SlotsAreFree`,
  `Exclusion`, `Quiescence`, from the inductive invariant
  `IInv == TypeOK /\ FrameInv /\ SlotInv /\ TokenInv`.  `SlotInv` says what each slot may be at
  each step of the script thread: idle, assigned, working or ending.  `TokenInv` is the
  accounting: tokens in the semaphore + working slots + tokens collected = waits started.  The
  four properties are not inductive by themselves: that the slots are idle when script runs
  follows only from the number of tokens collected.  `SafeMain`, `SafeScript` and `SafeWorker`
  have one step per action; `OneSlotChanges` is the frame argument for worker steps.
- Under the same assumptions `HandlesStayRooted`, with the invariant `SlotHandles`: thread and call
  agree on the handle of a slot, which is the argument at its position.
- Under `Setting`: `CallsWaitForEvents` (a call returns only after an event of its handles),
  `ReportIsExact` (it names exactly those whose own event ended their wait) and `RefinesWaitAny`.
  `Setting` adds `Callers # "any"` (a reused timeout is still cancelled) and
  `TimedWaitReportsTimeout` (with the timed wait of UNIX no timeout is ever reported) to the two
  assumptions above; section 4 has a counterexample for each of the four.  The invariant
  `CallInv` follows a wait from the call to the report.  `FreshHandles`: no two calls on the stack
  share a handle, and a handle that script may still pass is untouched.  `WaitInv`: nothing is
  cancelled before an event occurred, and a wait that ended tells truly what ended it.
  `DispatchInv`: from its last token on a call has an event, and its mask is what occurred among
  the handles already ended, for the calls below on the stack as well.
- `RefinesWaitAny` has a lemma for each group of steps.  `Call` is WaitAny's Call,
  `WaitTimedOut` its Occur, the last `Collect` its Wake, `EndWaitEvent` and `EndWaitNoEvent` its
  Dispatch, `CallbackReturns`, `Return` and `BeginRelease` its Resume, Return and End; all others
  are stutters, those of the start and cancellation of threads among them.

`ThreadedAllocator_proofs`, under `Freers = {Owner}` (TA_TwoThreads shows that it is needed):
`FreedOnce`, `ChainIsLive`, `AllocatorTypes`.  The invariant is local and needs no reachability:
every queued block has one reference at most (`RefInv`) - the head, the variable of a running
freeHead(), or the link of one other queued block - and `ControlInv` says that the head is not
null when freeHead() runs.  Freeing a block moves its reference on.  `NothingIsLost` is about
reachability: a chain is the least set of blocks that has the first one and is closed under the
links, so that lemmas about closed sets (a link set, a block put in front, a chain cut) replace an
induction along the links.  `LossInv` adds to `NoBlockLost` that the destructor's freeHead() walks
from the head itself.  `ThreadCanBeWoken` holds for any set of threads that call `_free()`:
`WakeInv` says that if the flag is cleared while the thread waits, whoever cleared it has posted
the semaphore or is about to.

`Task_proofs`, with every failure and without any assumption: `TaskTypes`, `AnswersComeInOrder`,
`CountsAreTrue`, `IdleHasNoAnswer`.  `RequestInv` and `ResponseInv` cut the requests into four
consecutive runs - received, in the response list, in process, in the request list - and say that
each semaphore holds a token for every element of its list, but for those that a side is about to
post or has just acquired.  With them the counts of idle are those of the three runs that have
no answer yet, so that `IdleHasNoAnswer` follows: it is about the counts, not about `end`, with
which idle is true as well (TK_Idle).  `ExceptionInv` says that the list of exceptions ascends and holds that
of every NULL in the response list; `ThreadInv` and `CancelInv` say what each program counter
implies.  Under `FreshHandles`, `WaitsEndForAResponse`: a wait that ends a call of processEvents()
has found a response, and the script, which is in that call, has not taken it (`WaitInv`).

`EndSignal_proofs`, under `OneWaitOnWin` (a call waits for one handle on WIN): `SleepersAreWoken`,
`TheSignalIsReported`, `TheCountIsRight`.  `MutexInv` gives the owner of the mutex at each step,
`CountInv` that the count is the number of the waits that are in it (one at most on WIN, where the
decrement is not atomic), `WakeInv` that a wait that should not sleep has a
wake-up coming, `CallInv` where the call's handles are, and `SignalInv` that a wait which returns
before it is cancelled has seen the signal.

`DescriptorEvents_proofs`: `HandlesBecomeFree` without any assumption, from `CallsInv` (the stack
of calls: who waits, who is to be ended) and `UseInv` (a handle in use is owed by one call, or
was left by one that threw); and `PollsAreOverAtTheReset`, what the comment before the reset in
endWait() asks for, from `PollInv` (polls run only for the innermost call, while it waits).  Under `TimersDoNotCall`, `PollsForItsOwnEvents` and
`CallsReportAnEvent`, from the invariant `EInv`: `CancelInv` (whoever sets the pollable event has
a handle left whose end resets it) and `EventInv` (the innermost call has reported an event or is
still to end the handle that has it).

`WatchDog_proofs`, under `~StopInCallback`: `WatchesCorrectly`, `StartsCorrectly` (start() finds
neither a thread nor a callback), `ThreadEndsFirst` (no thread without a runtime).

`Video_proofs`, under `~Retries` (VI_Retry shows that it is needed): `TheScriptDrawsAlone`,
`TheModeIsSet`, `TheSurfaceIsThere`.  `OrderInv` follows an order through the queue, the video
thread and the report; `SurfaceInv` ties surface, window and error to it; `SwapInv` counts the
tokens of the swap thread.  Without any assumption `TheReadySurfaceIsReported`: a call that the
wait for the surface ended finds it ready, because only the script, who is in the call, takes it
away.

`SharedMemory_proofs`, without any assumption on interleavings, kills or faults: `SharesOneMemory`,
`SharesItsContent`, `RemovesTheNames`, `OneObjectLocks`.  `ObjectInv` and `HolderInv` hold in every
case: a taken semaphore has one owner or was abandoned.  What the names promise, `Peace`, holds
until an overlap is noted in `raced`: `NamesInv` says that whoever uses the names has what they
name; `CountInv` that the count is never less than that of the other attached objects, so that no one
takes itself for the last who is not; `OpenInv` and `CloseInv` that the creator and the last one
are alone; `CleanInv` that without kills and throws the count is right and the names have a
remover.

Every safety invariant that a passing run checks, and the refinement of WaitAny, is stated by a
theorem.  Only model-checked: all liveness, because fairness and ENABLED are out of the prover's
reach, and `WaitsForAnEvent` with a semaphore handle (`PE_SemOnce`, one call): its proof assumes
that no thread is killed, and a later call can find a token that a killed thread left.

## 7. Mutants

Next to a definition stands, where a property needs one, a variant named after it and marked
`Mutant`: what a plausible slip in that code would do.  None is part of a specification;
`PROJECT.json` names the property that each one violates.
