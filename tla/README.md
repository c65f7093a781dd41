# TLA+ models of the duckOS kernel's tasking core

This directory holds TLA+ specifications of the parts of duckOS whose correctness
depends on the order in which threads, the timer interrupt and other processes
act:

- the recursive kernel `Mutex` and the critical-section counter;
- the `TaskManager` scheduler;
- the lifecycle protocol of a `Process`: death, reap, stop and continue;
- the kernel string class `kstd::string`, the way `VFS::mkdir` uses it to
  split a path into a parent directory and a name, and `VFS::rmdir`'s checks
  of that name;
- the packet loop of the `NetworkManager` kernel thread, against the adapters'
  receive interrupts;
- the event loop of the user-space UI library `libui`, against the events of
  the Pond window server.

It also has TLC configurations that model-check these specifications on small
instances. It also has TLAPS proofs, for every instance, of the main safety
properties of the Mutex, the scheduler, the process lifecycle, the string object and
`VFS::mkdir`'s split, the network manager's buffers and libui's window count,
and of the Mutex's and the string's refinements.
`PROJECT.json` maps every definition to the source lines it models and lists the
runs, mutants, findings and hazards.

## The system and how its parts interact

duckOS runs one CPU. The kernel's concurrency comes from three sources:

- **Preemption.** The timer tick calls `TaskManager::tick`. This calls `yield`,
  which is deferred through `yield_async` to the interrupt exit. That in turn
  calls `TaskManager::preempt`.
- **Voluntary yields.** A blocking thread yields, and so does a contended
  `Mutex::acquire`.
- **Signals.** `Process::kill` and the per-thread signal flags deliver them.

The parts meet as follows:

- **Mutex** (`kernel/tasking/Mutex.cpp`) is a recursive spin-then-yield lock.
  - `acquire_with_mode` claims `m_holding_thread` with a compare-exchange.
  - It increments `m_times_locked` only after its loop.
  - A contended acquire yields, which runs `preempt`.
  - `acquire_and_enter_critical` raises `g_critical_count` through
    `TaskManager::enter_critical`, which disables interrupts until the matching
    `leave_critical`.
- **TaskManager** (`kernel/tasking/TaskManager.cpp`) keeps the run queue, an
  intrusive chain starting at `g_next_thread`, and `cur_thread`. `preempt` does
  the following, in order:
  1. tries `g_process_lock`;
  2. if it gets the lock, unblocks every BLOCKED thread whose blocker is ready;
  3. picks the next thread and switches signal contexts;
  4. re-queues the old thread.

  `add_process` inserts a process under `g_process_lock` and then queues its
  threads.
- **Process** (`kernel/tasking/Process.cpp`) runs a two-party destruction
  protocol on the atomic `_ready_to_destroy`.
  - The parties are the last thread to die (`alert_thread_died`) and the parent
    (`reap`). Whichever comes second deletes the object.
  - A dead thread is never queued or picked again. `alert_thread_died` is
    private to `Process` and its friends `Thread` and `Reaper`, and runs on
    the single Reaper kernel thread (spawned in `TaskManager::init`). So the
    calls for the threads of one process never overlap. They do interleave
    with the other threads, with `reap` and with signals.
  - SIGSTOP sets `_stopping` (`stop`). Each thread then reports in
    `notify_thread_stopping`, and the last one marks the process STOPPED.
  - SIGCONT (`cont`) sets the threads ALIVE, queues them through
    `TaskManager::queue_thread`, and then clears `_stopping`.
  - The unblock pass of `preempt` is what wakes blocked threads of ALIVE and
    STOPPED processes.

The `Thread` class is not part of the sources. These operations come from
`spec.md` 4.1 and 4.3 and are marked `spec_modelled` in the map:

- block, unblock;
- die (marks the thread DEAD; the Reaper then calls `alert_thread_died`);
- the stop check at the preemption hook;
- handle_signal;
- the return from a handler.

- **NetworkManager** (`kernel/net/NetworkManager.cpp`) is a kernel thread.
  `do_task` blocks on `m_blocker`, clears its ready flag, then drains every
  adapter's queue: it handles each packet and then clears `packet->used`. An
  adapter's receive interrupt fills an unused buffer, queues it and calls
  `wakeup()`, which sets the flag; the unblock pass of `preempt` wakes the
  thread. The adapter code is not in the sources, so `Receive` models the
  contract `do_task` relies on.
- **libui** (`libraries/libui/libui.cpp`) is the event loop of a GUI app. It
  keeps two `std::map`s from Pond window ids to the app's `Window`s and to
  widgets with a Pond window of their own, and counts the windows.
  - `UI::run` calls `update()` until `should_exit`.
  - `update()` repaints every widget of the map, then polls the Pond
    connection.
  - `handle_pond_events` then drains the queued events and dispatches each on
    its id. Every lookup uses `operator[]`, which inserts a nullptr for a
    missing key.
  - Destroying the last window sets `should_exit`.

  The Pond server is not in the sources. `ServerEvent` sends events only for
  the windows the server has open, and nothing after a window's destroy event.

## Modules

The string class is used by the kernel code above only for names; it does not
interact with the scheduler. VFS code calls the class `DC::string`, whose code is
not in the sources. `VfsPath` takes it to be the `kstd::string` of `string.cpp`:
the same class under its earlier name, with the same interface, and the
callers' use of `find_last_of` fits its one-past-the-index convention.

| Module | Models | State | Actions |
|---|---|---|---|
| `RecursiveLock` | spec.md 3: the abstract recursive lock | `owner`, `count` per lock | `Acquire`, `Release` |
| `Mutex` | `Mutex.cpp`, `enter/leave_critical`, `yield`/`tick` | `holder` (`m_holding_thread`), `times` (`m_times_locked`), `crit` (`g_critical_count`), `cpu` (`cur_thread`), per-thread `pc`, `want`, `held`, `crits` | `Acquire` (first loop pass), `Retry` (a pass after a yield), `AddCount` (`m_times_locked.add`), `Release`, `ReleaseCritical` (`ScopedCriticalLocker::release`), `Preempt` (timer tick) |
| `Scheduler` | `TaskManager.cpp` preempt, pick_next_thread, queue_thread, add_process; `Process::cont` | `tstate`, `ready` (blocker ready), `queue` (the chain), `cur`, `plock`, `adding`, the signal flags and the three register contexts, `lastActive` | `Preempt` (the whole of `preempt` as one step), `AddProcessLocked`, `AddProcessQueue`, `Block`, `Satisfy`, `Exit`, `Cont`, `RaiseSignal`, `FinishSignal` |
| `StringValue` | the abstract string value | `val` | `Assign`, `AppendTo`, `Cut` |
| `KString` | `string.cpp`: one object | `len` (`_length`), `size` (`_size`), `buf` (the bytes of `_cstring`), `q` (the last query and its answer) | `AssignCStr`, `CopyAssign` (`operator=(const string&)`), `StringAppend` (with `ExpandTo` and `Realloc`), `PlusAssign` (`s = s + str`: `ConcatOf`, then `MoveAssign`), `SubstrAssign`, `FindChar`, `Find`, `FindLastOfChar`, `FindLastOf`, `Equals`, `NotEquals` |
| `VfsPath` | `VFS.cpp` mkdir, rmdir up to its resolve, path_base, path_minus_base; extends `KString` | the string object, `made` (the path mkdir was given and the parent and name it split it into), `rmres` (the path rmdir was given, its name and its early return) | `Mkdir`, `Rmdir` (strips the caller's string in place), and every `KString` action |
| `NetworkManager` | `NetworkManager.cpp` do_task, wakeup, handle_packet; the unblock pass | `ready` (`m_blocker`), `tstate`, `pc`, `iface` (the for loop), `cur` (the packet), `queue` per adapter, `used` and `data` per buffer, `arrived`, `taken`, `handled`, `replies` | `Receive` (interrupt and `wakeup`), `Block`, `Wake`, `Clear` (`set_ready(false)`), `Dequeue`, `NextIface`, `EndScan`, `Handle`, `Release` (`used = false`) |
| `LibUI` | `libui.cpp`: init, run, update, handle_pond_events, the register and deregister calls | `windows`, `widgets` (the maps: `Missing`, `Null` or the object), `numWindows`, `shouldExit`, `pc` (the loop), `pending` (the Pond queue), the server's `open`/`used` ids and `sent`, `last` (the last event and the handlers it reached, with what each returned) | `RegisterWindow`, `RegisterWidget`, `ServerEvent`, `Run`, `Repaint`, `Poll`, `Dispatch` (one event, through `InputEvent`, `LeaveEvent`, `ResizeEvent` or `DestroyEvent`), `Drained` |
| `ProcessLifecycle` | `Process.cpp` kill (its stop and cont dispatch), alert_thread_died, remove_thread, reap, stop, notify_thread_stopping, cont | `tstate`, `tpc` (each thread's place in its exit or stop path), `members` (`_threads`), `pstate`, `stopping`, per-sender `stopPc`/`contPc`, `rtd` (`_ready_to_destroy`), `reaped`, `sigchld`, `deleted` | `Die`, `RemoveThread`, `CheckLast`, `Notify`, `DestroyCas`, `Reap`, `Kill` (SIGSTOP or SIGTSTP to `StopCas`, SIGCONT to `ContResume`), `StopInterrupt`, `ObserveStop`, `StopSelf`, `ContClear`, `Block`, `Wake` |

Six proof modules hold the theorems: `MutexProofs`, `SchedulerProofs`, `ProcessLifecycleProofs`,
`KStringProofs` (which extends `VfsPath`), `NetworkManagerProofs` and
`LibUIProofs`. Each extends its component and `TLAPS`, and is described under
Proofs below.

How the actions are cut:

- **Where an action is atomic in the model.** An action is atomic where the code
  is atomic on one CPU: inside a critical section or the tasking lock, or at a
  single atomic instruction.
- **Mutex.**
  - `release` runs in a `ScopedCritical`, so it is one step.
  - An acquire is one step per loop pass, because a pass ends in a yield.
  - The counter increment is a separate step, because interrupts are on between
    the compare-exchange and the `add`.
- **Scheduler.**
  - `preempt` holds `g_tasking_lock` with interrupts off, so it is one step.
  - `add_process` is two steps, split at the release of `g_process_lock`.
  - The merge of the `queue_thread` loop into the second step is an
    abstraction: `queue_thread` runs in a `ScopedCritical` per thread.
  - The scan of the process table and of each process's threads is
    `ThreadsIn(ScanOrder, W)`: the threads of `W` in table order.
- **Process lifecycle.**
  - `Die` marks the thread DEAD and leaves it to the Reaper. The Reaper's
    `alert_thread_died` is split at every point where another thread can
    run: `RemoveThread` (the `remove_thread` under `_thread_lock`), the size
    test, the SIGCHLD, then the compare-exchange. `RemoveThread` waits until
    the Reaper's previous call has returned (`ReaperBusy`).
  - `stop` is split between its compare-exchange and its interrupt loop.
  - `cont` is split between its loop and its store of false into `_stopping`.

- **Strings.** Nothing in a string call can interleave with another call on the
  same object, so each call is one step. Sizes and indices are `size_t`, kept
  modulo `2^SizeWidth`. A loop that reads past the buffer sets `q.oob`, and its
  answer is then any value that the bytes it reads could produce.

- **NetworkManager.** Each statement of `do_task` is a step, and an
  interrupt (`Receive`) can come between any two of them. `handle_packet` is
  one step: it reads only the buffer, and is abstracted to whether it replies.

- **libui.** The app has one thread, so each turn of the dispatch loop is a
  step. The server's events interleave between them. App code that creates
  windows runs in setup and between two dispatches, which stands for a
  handler that opens a window.

Each MC module gives the constants small values: `MCMutex`, `MCScheduler`, `MCNetworkManager`, `MCLibUI`,
`MCProcessLifecycle` and `MCKString` (which extends `VfsPath`, and so `KString`).

## Runs

| Run | Config | Expect | What it shows |
|---|---|---|---|
| mutex | `MCMutex.cfg` | pass | Setting: 2 threads, 2 locks, nesting depth 2, every mode, preemption whenever interrupts are on. Shows that the lock holder is unique (`MutualExclusion`), that the counter agrees with the holder (`CounterMatchesOwner`), and that a thread inside a ScopedCriticalLocker is never preempted (`CriticalHolderNotPreempted`). It checks that `g_critical_count` counts exactly the open critical sections, all of the running thread (`CritInv`). It also checks that the Mutex implements `RecursiveLock` (`ImplementsRecursiveLock`): the mapping gives a thread ownership once its compare-exchange succeeds and counts its completed acquisitions. |
| scheduler | `MCScheduler.cfg` | pass | Setting: kidle plus 2 threads in 2 processes; every block, wake, exit, stop, cont, signal and add_process interleaving; at most 3 queue entries. Shows that no runnable thread is lost, that signal contexts stay valid, and that woken and queued threads eventually run, under fairness. |
| sched_dup | `MCSchedDup.cfg` | violation | A thread woken by the unblock pass in the same preempt that re-queues it appears in the queue twice. |
| life_two | `MCLifeTwo.cfg` | pass | Two threads and two senders; the Reaper handles the dead threads one at a time. Shows that STOPPED means every thread stopped (`StoppedMeansAllStopped`), that once every `alert_thread_died` has returned the parent got one SIGCHLD and the process is a ZOMBIE or deleted (`ExitedIsZombieOrDeleted`), that it is deleted only after both the reap and the last call (`DeletedAfterBoth`), and that all threads dead leads to deletion (`EventuallyDeleted`). |
| kstring | `MCKString.cfg` | pass | Setting: two characters, strings up to 3, patterns up to 2, a 4-bit `size_t`. Shows that the terminator stays inside the buffer after any sequence of C-string and copy assignments, appends, `s = s + str` and substr assignments (`StringWellFormed`). Shows that the object implements `StringValue` with `Content` as the value (`ImplementsStringValue`), and that `find(char)` answers as `std::string` does. It also runs `VFS::mkdir`'s split on every string the object reaches: the parent and the name put together give the path, and the name is its last component, except for a one-byte name after a `/` (`MkdirSplitsUnlessOneByteName`). |
| net | `MCNetworkManager.cfg` | pass | Setting: 2 adapters, 3 buffers (2 on the first), 2 frame kinds, 4 frames, arriving at any point of `do_task`. Shows that a buffer is never refilled while it is queued or handled (`PacketNotOverwritten`, `BufferAccounting`), and that every frame received is eventually handled (`EveryPacketHandled`): a `wakeup()` erased by `set_ready(false)` is always covered by the drain that follows, and one after the drain wakes the thread again. |
| kstring_find | `MCKStringFind.cfg` | violation | `find(const char*)` with a pattern longer than the string reads past the buffer; inside the buffer it returns the first index where the pattern's first character occurs. |
| libui | `MCLibUI.cfg` | pass | Setting: two Windows and a popup widget window whose parent widget sits in the first; up to 4 key, move, leave, resize and destroy events. Shows that `num_windows` counts the live windows whatever the lookups insert (`WindowCount`), and that the loop exits once every window has been destroyed (`AppExitsAfterLastWindow`). |
| libui_crash | `MCLibUICrash.cfg` | violation | After one of two windows is destroyed, `widgets` holds a nullptr for its id, and the next `update()` repaints it. |
| life_cont_lost | `MCLifeContLost.cfg` | violation | A thread stays STOPPED after SIGCONT because `_stopping` is cleared after the resume. |
| libui_key_twice | `MCLibUIKeyTwice.cfg` | violation | A key event on the popup that no widget consumes reaches the root widget's `on_keyboard` twice (`HandlerCalledOnce`). |
| mkdir_one_byte | `MCMkdirOneByte.cfg` | violation | `mkdir("/a")` creates an entry with an empty name in `/` (`MkdirSplitsAtLastSlash`). |

Every property of a passing run has a mutant in `PROJECT.json`: an operator
defined just before the definition it replaces, modelling a plausible slip in the
code. TLC finds each mutant's property violated. The mutants are:

- a compare-exchange that ignores the holder;
- a release that tests the counter after the decrement;
- interrupts re-enabled at every `leave_critical`;
- an unblock pass that does not queue the woken threads;
- `old_esp` chosen after the flags are cleared;
- a pick that keeps `cur_thread` first;
- a destroy exchange that skips delete;
- a Reaper that starts a second `alert_thread_died` before the first returns;
- a reap that deletes without the exchange;
- a stop aggregation that counts blocked threads as stopped;
- `expand_to` that only doubles the size;
- `krealloc` that does not keep the old bytes;
- a substr assignment that forgets the terminator's byte;
- `find(char)` that ignores `start`;
- `path_minus_base` that cuts one byte early;
- a for loop that starts at adapter index 0;
- `used` cleared at dequeue instead of after `handle_packet`;
- `used` never cleared;
- a `set_ready(false)` after the drain instead of before it;
- a destroy event that deregisters without the `if(windows[id])` test;
- `__deregister_window` without the `erase`;
- `__deregister_window` testing `num_windows--` (a post-decrement).

### Bounds

- **Two threads** are enough for every two-party race in this code:
  - the compare-exchange window;
  - two dead threads handed to the Reaper;
  - a dying thread against the parent.
- **Two locks** let a thread hold one and contend for the other.
- **Nesting depth 2** exercises recursion, including the last release of a
  recursively held lock.
- **Two senders** let a SIGSTOP and a SIGCONT be in flight at once.
- **Strings** of up to 3 characters over two characters (`a` and `/`), with
  patterns of up to 2 and a 4-bit `size_t`, reach every case of the loops:
  - an empty string and an empty pattern;
  - a match at the first and at the last byte;
  - a pattern longer than the string, whose bound wraps;
  - growth from a one-byte buffer by more than double;
  - a copy from a source whose buffer is larger than its characters need
    (`OtherSizes`: from strlen + 1 up to `MaxLen + 1`).
  The same strings serve as mkdir's paths. They give names of 0, 1 and 2
  bytes, at the start and after one or two slashes.
- **Network**: two adapters make the for loop pass one adapter while a frame
  lands on the other; a buffer shared by two frames (adapter 1 has 2 buffers
  for up to 4 frames) makes refilling possible; 4 frames let a wakeup land in
  every window of one pass.
- **libui**: two windows are the least for which closing one leaves the app
  running. The popup widget with a parent in a window gives a propagation
  chain of two widgets and a window. Four events let both windows and the
  popup be destroyed with an input event in between. Mouse button and scroll
  events take the same path as mouse move, so the passing run leaves them out
  to stay small.
- **Queue length 3** (`QueueBound`) covers the two user threads plus one
  duplicate. Only the violation run needs the duplicate.

### Fairness

- **Scheduler.** `WF(Preempt)`, because the timer tick keeps firing while
  interrupts are enabled, and they are enabled outside `preempt`. Also
  `SF(AddProcessQueue)`: a thread inside `add_process` continues it whenever it
  is scheduled, and it is scheduled infinitely often.
- **Process lifecycle.**
  - Weak fairness of each thread's exit path (`CheckLast`, `Notify`,
    `DestroyCas`): a thread that started dying keeps running its own code.
  - Weak fairness of `Reap`: the parent's wait returns for a zombie child.
  - No fairness is assumed for signals or for blocking.

- **NetworkManager.** Weak fairness of the thread's steps, because it is a
  kernel thread and an ALIVE thread is picked by `preempt`. Weak fairness of
  `Wake`, because the timer keeps calling `preempt`. The unblock pass is
  skipped when `g_process_lock` is contended, but the lock is held only
  briefly, so the pass runs again.
- **libui.** Weak fairness of the loop (`Run`, `Repaint`, `Poll`, `Dispatch`,
  `Drained`). It is the app's only thread, and `poll` with timeout -1 returns
  once the Pond connection has an event. Neither the server nor the user is
  assumed to act.

### Deadlock

The lifecycle runs set `CHECK_DEADLOCK FALSE`, because the process really
reaches terminal states:

- once deleted, nothing of it runs again;
- after the `cont` race of `life_cont_lost`, the process sits stopped for good.

The `net` run sets it as well: once every frame has been handled, the thread
stays blocked until the next interrupt, which is the idle state of the system.
The libui runs set it too: an app whose loop has returned, or which waits in
`poll` with no event to come, has really stopped.

## Proofs

Every theorem below is checked by `tlapm` down to the last leaf. Each invariant
`P` is proved the same way:

- find an inductive invariant `I` that implies it;
- check `I` with TLC on the module's instance;
- prove `Init => I` and `I /\ [Next]_vars => I'`, with one step per action;
- conclude `Spec => []P` by `PTL`.

### Mutex (`MutexProofs`)

These hold for every set of threads and locks and every `MaxDepth >= 1`
(assumption `MutexAssumption`):

- `TypeCorrect`: `Spec => []TypeOK`;
- `MutualExclusionHolds`: `Spec => []MutualExclusion`;
- `CounterMatchesOwnerHolds`: `Spec => []CounterMatchesOwner`;
- `IInvHolds`: `Spec => []IInv`;
- `CriticalHolderNotPreemptedHolds`: `Spec => []CriticalHolderNotPreempted`;
- `CritInvHolds`: `Spec => []CritInv`;
- `MutexImplementsRecursiveLock`: `Spec => ImplementsRecursiveLock`.

None of the first three invariants is inductive alone. The counter window
breaks each of them: a thread owns a lock after its compare-exchange but before
its `held` count rises. The strengthening `IInv` (in `Mutex`) states four
things:

- every owner, counting a thread at `pc = "add"` for `want.lock`, is the holder;
- a free lock has count 0;
- a held lock's counter equals its holder's completed acquisitions;
- an acquire in progress is below the nesting bound.

The same window means that spec.md 3's `times_locked > 0` exactly when
`holding_thread != -1` is not an invariant of the code (`Mutex.cpp:99`): the
holder is set while the counter is still 0. `CounterMatchesOwner` states what
does hold, and mutual exclusion is unaffected.

`IInvInit` and `IInvStep` prove `IInv` inductive. Lemma `CasStepInv` covers the
two outcomes of one compare-exchange pass, which `Acquire` and `Retry` share.

`CriticalHolderNotPreempted` needs `CritInv` (in `Mutex`, checked by the mutex
run). It says that `g_critical_count` equals the number of open critical
sections, and that each open section belongs to the running thread.

- A section is open from the successful compare-exchange of
  `acquire_and_enter_critical` (`Pend`) until `ScopedCriticalLocker::release`.
- The sections are counted as a set of tokens `<<t, l, i>>`, one per nesting
  level, so that no sum over functions is needed.
- Lemmas `TokensAdd` and `TokensRemove` show that entering and leaving a
  section add or remove exactly one token (`FS_AddElement`,
  `FS_RemoveElement`).
- `CritInvStep` uses `IInv` for the nesting bound.

The refinement proof maps `owner` to `holder` and `count` to
`AbsCount == times + PendingAdd`: a thread between its compare-exchange and its
`m_times_locked.add` has already acquired the lock. `RefInit` maps the initial
states. `RefStep` shows, under `IInv`, that each step is an abstract acquire,
a release (lemma `ReleaseRef`) or a stutter.

### Scheduler (`SchedulerProofs`)

These hold for every set of threads and processes that satisfies
`SchedulerAssumption`:

- `IInvHolds`: `Spec => []IInv`;
- `NoLostThreadHolds`: `Spec => []NoLostThread`, the invariant the scheduler
  run checks: every alive thread other than the idle thread is running, in
  the run queue, or inside the `add_process` that will queue it, after any sequence of preempts, blocks,
  wakes, exits, `add_process` halves, `Process::cont` and signals;
- `ContextValidHolds`: `Spec => []ContextValid`: the normal register slot
  always holds normal code, the CPU runs a handler exactly when the running
  thread is in its handler, a finished handler runs only until its yield, and
  a thread switched out inside its handler resumes from a live handler
  context.

`IInv` is `TypeOK /\ ContextValid /\ SigFlags /\ NoLostThread`. Neither
invariant is inductive alone. `ContextValid` needs `SigFlags`: a thread with
`justFinished` is the running thread and is in its handler, and a thread with
a pending signal is not in its handler and has its handler context set up. Without it a
`FinishSignal` or a preempt that delivers a signal could leave a thread with a
context its flags do not allow. `NoLostThread` needs the type of the queue,
which every preempt rebuilds.

That rebuild is where the work is. `preempt` runs the unblock pass over the
process table and `queue_thread` over the woken threads, in table order, then
`pick_next_thread` takes the first runnable thread from the chain. The model
wrote the filter of the table with the standard `SelectSeq`. `SelectSeq` is
built into the provers and cannot be unfolded, so nothing about its result
could be proved. The model now uses `ThreadsIn(ts, W)`, the same definition as
the standard module's, written as a recursive function over `0..Len(ts)`. TLC
gives the same 21665 states as before the change. The lemmas are:

- `FiltFEq`, `FiltFZero`, `FiltFSucc`: the recursive function exists and
  satisfies its two defining equations. Existence is proved by well-founded
  induction (`WFMin` over `<` on `Nat`), extending a function on `0..m` one
  index at a time. It is an induction over a fixed operator, not over one
  passed as a parameter, so the provers can do it.
- `FiltSteps` and `FiltResult`: the filter of a sequence of threads is a
  sequence of threads whose set of elements is the input's elements that are
  in `W`.
- `ThreadsInIs`, `QueueAllIs` and `QueueScan`: `ThreadsIn` and `QueueAll` are
  that filter, and the queue after the pass holds the old queue plus the
  woken threads.
- `PickNextOK`: `pick_next_thread` returns a thread (the idle thread when
  the chain has no runnable thread) and a queue of non-idle threads, and
  every runnable thread of the chain is the one returned or is still in the
  queue.
- `PassIsOK`, `PreemptIs` and `PreemptStep`: one preempt keeps `IInv`, in
  every case of whether the pass ran (`g_process_lock` free or held by the
  running thread) and whether it switched threads.

`IInvInit` and `IInvStep` then prove `IInv` inductive, with one lemma per
action. The proof needed one assumption the model lacked:
`SchedulerAssumption` now says that every process has a thread (its main
thread), which every process of the code has from its creation. It makes
`lastActive` typed in the initial state. `IInv` was checked with TLC as an
invariant of the scheduler run before it was proved.

### Process lifecycle (`ProcessLifecycleProofs`)

These hold for every set of threads and senders:

- `LifecycleTypeCorrect`: `Spec => []TypeOK`;
- `StoppedMeansAllStoppedHolds`: a STOPPED process has only stopped threads;
- `DestroyedOnceHolds`: the process object is deleted at most once;
- `DeletedAfterBothHolds`: it is deleted only after the parent's reap and the
  last `alert_thread_died`;
- `ExitedIsZombieOrDeletedHolds`: once every thread's `alert_thread_died` has
  returned, the parent got exactly one SIGCHLD and the process is a ZOMBIE or
  deleted.

The stop invariant is strengthened to `StopIInv` (lemmas `StopIInvInit`,
`StopIInvStep`). It adds that a thread is in `_threads` exactly while it is
alive, stopping or dead and not yet removed by the Reaper, and that a thread
inside `notify_thread_stopping` is alive. Without these, `ObserveStop` could
count a thread that has already left as stopped.

The destruction properties rest on `DestroyInv` (lemmas `DestroyInit`,
`DestroyFrame`, `DestroyStep`, `LifeInvHolds`). It says that at most one thread
is inside the Reaper's `alert_thread_died` past `remove_thread` (the Reaper is a
single thread), that such a thread saw `_threads` empty, and it pins the
SIGCHLD count, `_ready_to_destroy`, the delete count and the ZOMBIE state to
whether every thread has exited and whether the parent reaped. The first
conjunct is what the Reaper's serialization gives: without it two calls could
both see `_threads` empty and both delete. `DestroyFrame` covers the actions
that touch none of these counters. `DestroyInv` was checked by TLC in life_two
before it was proved.

### Strings and paths (`KStringProofs`)

These hold for every character set, every `MaxLen` and every `size_t` width
with `2 * (MaxLen + 1) < 2^SizeWidth` (assumption `KStringAssumption`):

- `KStringTypeCorrect`: `Spec => []TypeOK`;
- `StringWellFormedHolds`: `Spec => []StringWellFormed`;
- `KStringImplementsStringValue`: `Spec => ImplementsStringValue`;
- `FindCharCorrectHolds`: `Spec => []FindCharCorrect`;
- `MkdirSplitsUnlessOneByteNameHolds`: `PathSpec => []MkdirSplitsUnlessOneByteName`.

`Inv == TypeOK /\ StringWellFormed` is inductive as it stands.

- **append** (lemma `ExpandToFacts`). For a requested size up to `MaxLen + 1`,
  `expand_to` returns at least that size and at least the old size, because
  `_size * 2` cannot wrap when a buffer has to grow. `krealloc` keeps the old
  bytes, so the old characters survive, and the new bytes and the terminator
  fit.
- **copy assignment** (lemma `CopyInv`). The buffer takes the source's size,
  which holds its characters and terminator.
- **`s = s + str`** (lemma `PlusInv`). The lengths cannot wrap while the result
  fits in `MaxLen`, so the concatenation's buffer is exactly its characters and
  `'\0'`.

The refinement proof shows, under `Inv`, how each mutation changes `Content`:

- an assignment or copy sets it to its argument (`AssignRef`, `CopyRef`);
- `append` and `s = s + str` extend it (`AppendRef`, `PlusRef`);
- a substr assignment cuts it (`SubstrRef`);
- a query leaves it alone.

Lemma `ContentIs` states the common fact: a buffer longer than `c` whose first
bytes are those of `c` has `Content` `c` when `len` is `Len(c)`.

`FindCharCorrect` is proved with `FindInv == Inv /\ FindCharCorrect`. Lemma
`FindCharScanRef` shows that the scan up to and including index `_length`
finds what `std::string` would, because the byte there is the terminator. A
mutation clears the recorded query, so every answer is compared with the
string it was computed on.

The mkdir theorem is about `VfsPath`'s `PathSpec`, the specification of the
kstring run.

- Its invariant `PInv` adds `MadeOK` to `Inv`: the recorded split is the split
  of a string the object held.
- Lemma `SlashIndexIs` computes `find_last_of('/')` on a string buffer: npos
  without a slash, else the `Max` of the 1-based slash positions. A wrapped
  `_length - 1` makes the scan empty for the empty string.
- Lemma `MaxExists` shows that this `Max` exists, from the well-foundedness of
  `<` on `Nat` (`WFMin`, `NatLessThanWellFounded`).
- Lemma `SplitCorrect` does the case analysis, using `ConcatAdjacentSubSeq`
  and `SubSeqFull`.

### Network manager (`NetworkManagerProofs`)

These hold for every number of adapters, every assignment of buffers to
adapters and every bound on arrivals (assumption `NetAssumption`):

- `NetTypeCorrect`: `Spec => []TypeOK`;
- `PacketNotOverwrittenHolds`: `Spec => []PacketNotOverwritten`;
- `BufferAccountingHolds`: `Spec => []BufferAccounting`.

The two buffer invariants are not inductive alone. A receive into an unused
buffer must not put it into a queue twice, and a dequeue must remove it from
every queue. `NetIInv` adds three facts:

- `QueuesWellFormed`: each adapter's queue holds only that adapter's buffers,
  each at most once;
- `CurDequeued`: the buffer `handle_packet` works on is in no queue;
- `UsedHoldsFrame`: a used buffer holds a frame that was received.

The net run's instance checked `NetIInv` with TLC before the proof. There is
one lemma per action that touches the queues: `ReceiveInv`, `DequeueInv`,
`HandleInv` and `ReleaseInv`. Lemmas `AppendFresh` and `TailNoDup` show that
appending a fresh buffer and taking the tail keep a queue free of repetitions.
Lemma `QuietStep` covers the steps that touch no buffer.

### libui (`LibUIProofs`)

These hold for every set of window and widget ids, every widget tree and every
event bound (assumption `LibUIAssumption`, which includes a finite `WinIds`):

- `LibUITypeCorrect`: `Spec => []TypeOK`;
- `WindowCountHolds`: `Spec => []WindowCount`.

Neither is inductive alone. `IInv` adds `LiveOwnId`: a live entry of `windows`
holds the Window of its own id, and that id has been handed out by the server.
Two steps depend on it:

- `__register_window` is given a fresh id, so the id has no live entry yet.
  The count then rises by one (`FS_AddElement`).
- The live entries are a subset of the finite `WinIds`, which bounds
  `num_windows` (`FS_Subset`, lemma `LiveBound`).

Lemma `TouchKeepsLive` shows that an `operator[]` lookup only inserts nullptr:
it keeps the map's type and never makes an entry live or dead. Lemma
`HandleWindows` reduces every handler of `handle_pond_events` to three cases
for the map:

- a lookup;
- no change;
- the erase of a live window, with `num_windows` decremented (`FS_RemoveElement`).

`IInv` was checked with TLC as an invariant of the libui instance before it
was proved.

### Only model-checked

Some properties are out of TLAPS's reach and stay with TLC:

- **The liveness properties** `WokenThreadRuns`, `QueuedThreadRuns`,
  `EventuallyDeleted`, `EveryPacketHandled` and `AppExitsAfterLastWindow`.
  They rest on fairness and `ENABLED`, which the installed provers do not
  handle.

## Findings

- **Double queueing** (`TaskManager.cpp:398`). The re-queue of the old thread
  does not check whether the unblock pass has just queued it. A thread is then
  appended twice to the intrusive chain.
- **Stop survives SIGCONT** (`Process.cpp:439`). `cont` clears `_stopping` after
  resuming the threads, so a stop request can outlive SIGCONT.
- **find ignores the pattern** (`string.cpp:177`). `find(const char*)` returns
  the first index whose byte equals the pattern's first character. The inner
  loop's `break` only leaves the inner loop.
- **Wrapped bound** (`string.cpp:172`). With a pattern longer than the string,
  `_length - len` wraps, and `find` reads past the buffer.
- **Null widget repainted** (`libui.cpp:183`). The destroy event tests
  `if(widgets[id])` with `operator[]`, which inserts a nullptr for a Window's id.
  In an app with a second window, the next `update()` calls `repaint_now()` on
  it. Input events for an id that is no longer registered insert one the same
  way.

- **One-byte names** (`VFS.cpp:236`, run mkdir_one_byte). `find_last_of`
  returns one past the index of the `/`, but `path_base` compares it with
  `length() - 1`. `mkdir("/a")` then creates an entry with an empty name in
  `/`. This is why `MkdirSplitsUnlessOneByteName` has to exclude a one-byte
  name after a `/`. It rests on `DC::string` being `kstd::string`.
- **Root widget called twice** (`libui.cpp:75`, run libui_key_twice). When no
  widget consumes a key event, the loop ends on the root widget and the line
  after it calls the root widget's `on_keyboard` a second time.

## Not modelled

- Process creation (fork, exec, ELF loading).
- The `kstd::string` copy and move constructors (they build a second object),
  the moved-from object, and appending a string to itself (no caller does).
- VFS `resolve_path`, `open`, `create`, `unlink`, `link`, `truncate`, and
  `rmdir` after its early returns:
  they walk inodes of filesystems that are not in the sources.
- libui's `set_app_name`, `app_info` and polls on other file descriptors:
  they hold no state the properties distinguish.
- NetworkManager's parsing of headers, and the reads of `handle_arp` and
  `handle_ipv4` past a frame shorter than they warn about.
- The user programs: sequential, or driven by
  components that are not in the sources.
- Pid allocation.

Each is listed in `PROJECT.json` with its reason.
