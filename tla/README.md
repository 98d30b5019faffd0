# A TLA+ model of roo_threads

roo_threads gives C++ programs on microcontrollers the threads, mutexes,
condition variables, semaphores and latches of the standard library, with
roo_time's points in time and durations in the place of `std::chrono`. It has
three backends: FreeRTOS (`impl/freertos`), the C++ standard library
(`impl/cppstd`) and a single-threaded one (`impl/singlethreaded`). The FreeRTOS
backend is where the algorithms are: it builds everything from the kernel's
mutexes, counting semaphores, task notifications, critical sections and tick
count. This directory models it, the latch that is built on top, what the other
backends compute themselves, and a bounded queue that an example of the
repository builds from it. Paths below are relative to
`src/src/roo_threads/`.

## Inventory

| component | state | operations |
|---|---|---|
| optimized condition variable, `impl/freertos/condition_variable_opt.{h,cpp}` | `tasks_waiting_`, a table of 8 task handles (by default); the notification (index 0) of every task; one critical section (`s_cond_lock`) for all condition variables | `wait`, `wait_until`, `wait_for`, `notify_one`, `notify_all` |
| classic condition variable, `impl/freertos/condition_variable_classic.{h,cpp}` (with `ROO_THREADS_FREERTOS_USE_OPTIMIZED_CONDITION_VARIABLE` set to 0) | `waitlist_`, a counting semaphore; `waitcount_`; an internal mutex | the same |
| mutex, `impl/freertos/mutex.{h,cpp}` | the kernel mutex in the object's memory; with lazy initialization `initialized_` and a critical section | `lock`, `try_lock`, `unlock` |
| `lock_guard`, `unique_lock`, same files | a mutex pointer and `owns_` | constructors, moves, `swap`, `release`, `lock`, `try_lock`, `unlock`, destructor |
| latch, `latch.h` | a counter, a mutex, a condition variable | `count_down`, `wait` |
| semaphores, `impl/freertos/semaphore.h` | the kernel semaphore | `acquire`, `try_acquire`, `try_acquire_for`, `try_acquire_until`, `release` |
| thread, `impl/freertos/thread.{h,cpp}`, `callable.h` | `state_`, a pointer to a heap record that object and task share; its `join_barrier` and `join_mutex`; the callable | constructors, moves, `swap`, `join`, destructor, the task's `run_thread` |
| sleeps and tick conversions, `impl/freertos/thread.cpp`, `timeutil.h` | none; they read two clocks | `sleep_for`, `sleep_until`, `ToTicks`, `CalculateDeadlineFromDuration` |
| single-threaded backend | `lock_` and `owns_` of its `unique_lock` | the same API; what would block waits out its time |
| standard library backend | the wrapped std objects | forwards; cuts long waits down to a ceiling |
| bounded queue, `examples/ProducerConsumer/ProducerConsumer.ino` | a deque, a mutex, two condition variables | `put`, `take`, the producers' `run`, the consumer's `loop` |
| facades, configuration, documentation headers, tests, other examples | none | none |

How they interact: a waiter gives the user's mutex back inside of the condition
variable's critical section (optimized) or under its internal mutex (classic),
and blocks afterwards; notifiers reach it through its task notification, which
**all** condition variables of a task share, or through an anonymous semaphore
token. Timed operations go round a loop over one of two clocks, `Uptime` in
microseconds and the tick count, which wraps around. The latch calls the
condition variable with its own mutex held. A thread object and its task meet in
the heap record: the task reports its end through `join_barrier`, `join` deletes
task and record. The queue uses two condition variables with one mutex: each
side waits on its own and notifies the other's.

What is hard:

* the window between giving the mutex back and blocking, in which a notify must
  not be lost, and the one between waking up and having the mutex again, in
  which the waiter still looks as if it were waiting;
* timeouts that race with notifications;
* notifications and tokens that outlive the wait they were meant for;
* a table of fixed length, whose overflow stops the program;
* a double-checked initialization with an unsynchronized first check;
* who unlocks, who joins and who deletes, over every sequence of moves;
* a join, which waits for a task that uses what the join deletes;
* wrapping tick counts, rounding, two clocks read one after the other;
* two groups of threads that wait for each other, over tables of waiting tasks
  that can be full and notifications that can be somebody else's.

What makes each component correct:

* condition variables: no wakeup is lost, the mutex is held on both sides of a
  wait, a notification wakes a task that waits and not one that does not;
* mutex: exclusion, created once and before it is used; lock objects: exactly
  one owner for what is locked;
* latch: nobody leaves before zero, everybody after, and by then no `count_down`
  has anything but the end of its lock ahead (other waiters can still be inside,
  so it is the last one to leave who may destroy the latch);
* thread: one owner per record, nothing used after it is deleted, a join that
  returns when the thread is over and not before;
* timed operations: never early or late by more than the rounding to ticks,
  never a busy loop, whatever the phase of the tick and the value of the tick
  count;
* queue: never too full, nothing lost, doubled or overtaken, and never everybody
  asleep.

`PROJECT.json` lists the components with their status, the hazards with the
line where each of them bites, the runs, the mutants, and for every definition
the lines that it models.

## Modules

| module | models | extends / uses |
|---|---|---|
| `CondVar` | what a condition variable promises: the abstract specification | |
| `CondVarOpt` | the optimized condition variable, several of them | `CondVar` (refinement) |
| `CondVarOptProofs` | its inductive invariant, safety theorems, and that it implements `CondVar` | `CondVarOpt` |
| `CondVarClassic`, `CondVarClassicProofs` | the classic condition variable and its theorems | |
| `CondVarClassicHistory` | it, with a history variable for `notify_all` | `CondVarClassic` |
| `AbstractMutex` | what a mutex promises: the abstract specification | |
| `Mutex` | the mutex and its lazy initialization | `AbstractMutex` (refinement) |
| `MutexProofs` | its inductive invariant, safety theorems, and that it implements `AbstractMutex` | `Mutex` |
| `UniqueLock`, `UniqueLockProofs` | `unique_lock` and `lock_guard` of the three backends, theorems | |
| `Latch` | the latch, composed with the optimized condition variable | `CondVarOpt` |
| `LatchProofs` | its inductive invariant and safety theorems | `Latch`, `CondVarOptProofs` |
| `Channel` | what the bounded queue promises: the abstract specification | |
| `Queue` | the bounded queue, composed with two condition variables | `CondVarOpt`, `Channel` (refinement) |
| `QueueProofs` | its inductive invariant, safety theorems, and that it implements `Channel` | `Queue`, `CondVarOptProofs` |
| `JoinableThreads` | what thread objects promise: the abstract specification | |
| `Thread` | thread objects, heap records, tasks, `join` | `JoinableThreads` (refinement) |
| `ThreadProofs` | its inductive invariant, safety theorems, and that it implements `JoinableThreads` | `Thread` |
| `TimeUtil` | the conversions between durations and ticks | |
| `TimedCall` | the clock of both of the next: uptime, lag, the deadline of a call | |
| `TimedWait` | sleeps, timed acquires and timed waits against the clocks | `TimeUtil`, `TimedCall` |
| `TimedWaitStd` | the timed operations of the other two backends | `TimedCall` |
| `TimedWaitProofs` | inductive invariants and theorems of both | `TimedWait`, `TimedWaitStd` |
| `MC*` | instances for TLC | |

### CondVar and CondVarOpt

`CondVarOpt` has one table per condition variable (`tasks_waiting[c]`), the
pending notification of every task (`notified`), the user's mutex, the shared
critical section, and a program counter and locals per task. `wait` and
`wait_until_impl` are the same actions, with `timed` telling them apart: `Wait`
(enter the critical section, register), `UnlockInWait`, `ExitCritical`,
`AssertFails` (`assert(queued)`, when the section is open again and others can
run), `NotifyWaitReturn` or `NotifyWaitTimeout`, `Relock`, `Dequeue`. Critical
sections whose steps nobody else can see are one action (`Dequeue`,
`NotifyOne`); the two that touch what is not protected by the section, the
user's mutex and the notifications sent one by one by `notify_all`, are one
action per step. A timeout can happen at any time: the arithmetic that decides
it is in `TimedWait`. The initial value of `notified` is arbitrary, because
other condition variables (or the same one) can leave a notification behind;
`NotifyWaitReturn` consumes it whatever its origin, which is what makes wakeups
spurious.

`CondVar` says what that is worth: giving the mutex back and being among the
waiting threads are one step, `notify_one` takes out one of them, `notify_all`
all. In the refinement mapping a wait begins with `UnlockInWait`, `notify_all`
takes effect when it enters the critical section, and a task leaves the waiting
ones with its own `Dequeue`.

### CondVarClassic

One token of `waitlist_` is one wakeup; `waitcount_` is what notify believes to
be waiting. `try_acquire_until` is `Acquire` or `AcquireTimeout`, and a timed-out
wait subtracts itself (`Uncount`) after it has locked the mutex again, when a
notify can have counted it already. `waitcount_` is `Int`: it goes below zero.
`CondVarClassicHistory` remembers which threads the last `notify_all` found
asleep.

### Mutex

`FirstCheck` reads `initialized_` without synchronization, so it may miss the
write; `EnterCritical`, `Create`, `Publish` and `LeaveCritical` are the steps of
`ensureInitialized`. `Boot` is the code that runs before the scheduler does. The
code takes the scheduler to be off while `xTaskGetCurrentTaskHandle()` is null,
and that ends when the first task is created (`CreateTask`, `handle`), not when
the scheduler starts (`StartScheduler`). Until then operations create the kernel
mutex but do not lock it, so `Boot` can own, to itself, a mutex that the kernel
does not keep for it (`early`); from then on it locks like a task. It may start
the scheduler with either: what it locked early holds nobody off any more, and
what it locked later stays locked for ever.

`AbstractMutex` has an owner and, for each thread, the operation that it is in:
`lock` and `try_lock` end when the caller becomes the owner of a mutex without
one, `unlock` when the owner is none any more, and `try_lock` fails only while
there is an owner. There is one exception, and it is part of the promise: with
the start of the scheduler a lock from before the first task lapses. The mapping
takes the owner from `owns`, what the callers were told, not from the kernel
mutex, so what `Boot` locks early counts until it lapses (`holding`, `absEarly`,
`absOwner`), and the operation from `pc` and `op` (`absRequest`). Every step of
the initialization is a stutter.

### UniqueLock

`holder` is the kernel's view, `lock_` and `owns_` are the members of every lock
object, and `direct` is what a thread holds without a lock object: after
`mutex::lock` or `release`, before `adopt_lock`, or through a `lock_guard`.
A lock object is used by the thread it belongs to. `backend` says which of the
three the program was built for. Where FreeRTOS asserts, the program stops
(`Refuse`); where `std::unique_lock` throws, nothing changes; in the
single-threaded one nothing blocks and nothing is checked: an `unlock` of an
unowned lock is not refused, and `lock` and `try_lock` of an object without a
mutex make it own nothing (`LockNothing`), which its `unlock` or destructor then
passes over (`UnlockNothing`). Assigning a lock object to itself unlocks it in all
three, except that newer standard libraries leave it alone (`SelfAssign`).

### Latch

The latch's steps, each joined with the step of `CondVarOpt` that it calls, so
every interleaving inside of the condition variable is there. A thread in both
roles counts down first and waits then. The initial count (`Count`) is what all
threads together count down, one unit for each time that a thread counts.

### Channel and Queue

A thread of `Queue` is a producer, which puts `Values` values and is done, or a
consumer, which takes for ever. `put` and `take` are the same actions with the
roles exchanged (`WaitsOn`, `Notifies`, `MustWait`): `Begin` locks, `Await` is
the check that finds a reason to wait, `Awake` the return of `wait` to the check,
`Put` and `Take` what is done to the deque, `Notify` and `Notified` the two ends
of `notify_all`, `End` the destructor of the lock. As in `Latch`, each is joined
with the step of `CondVarOpt` that it calls, and `CondVarStep` are the steps of
the condition variables in between.

`Channel` only knows how many values of each producer have been sent and
received. In the refinement a value is sent when it is in the deque and received
when it is out of it, so order and loss are decided under the mutex, and
everything the condition variables do is a stutter. What has been received from
a producer is what it has sent less what is still in the deque (`absReceived`),
and `OrderSound` says that the latter is the last values sent, in order.

### Thread

`state_[o]` is the pointer of each object, with a value for an object that is
not constructed and one for a pointer that is not initialized; a record bears
the name of its task. `Construct`, `Create` (or `CreateFails`), `Assign` are a
starting constructor, `Enter`, `Return`, `Dispose`, `Give`, `Suspend` are
`run_thread`, and the seven `Join...` actions are `join`, one per access to
something shared. With `Together = FALSE` an object is left alone while its
constructor or `join` runs, as C++ asks for; with `TRUE`, tasks call `join` on
it meanwhile, a use that `join_mutex` and the asserts of `join` address.

`JoinableThreads` has a handle per object and the life of every thread (unused,
running, over). A start joins a thread to an object, moves and swaps pass it on,
and a join lets go of a thread that is over. In the mapping an object owns its
thread from `Create` on, when the task can already run but `state_` is not stored
yet (`absHandle`); a thread is over with `Dispose`, when its callable has
returned and is destroyed (`absLife`), and joined with `JoinClear`. All the
semaphores, the deletion of task and record and a failed assert are stutters.

### TimeUtil, TimedWait, TimedWaitStd

`TimedWait` is one task in one timed operation after the other. `now` is the
uptime, `(now + offset) \div Period` the true tick, and the code sees it through
`xTaskGetTickCount`, which adds `boot` and wraps around. Time advances between
any two steps, also while the task wants to run: `lag` counts that, up to
`MaxLag` per call. `sleep_until` and `try_acquire_until` go round a loop over
the uptime (`Check`); `wait_until_impl` computes the remaining ticks modulo the
range of `TickType_t` (`CheckTicks`). The kernel's side is `Block`, `Wake`,
`WakeEarly` (the task is resumed, or its delay aborted, before its ticks are
over) and `Take`; `TakeInVain` is the loop of the overloads with a predicate,
which wait again with the same deadline. The guard `lag < MaxLag` of `WakeEarly`
and `TakeInVain` is a bound of the model, whose time stops when the lag is used
up: in the code such turns take time, and so come to the deadline. In
`wait_until` the two clocks are read in either order. `TimedWaitStd` does the
same for the backends that hand a duration to the library, with the ceiling of
cppstd and the library's overflow that it is there for. The uptime, the lag and
the progress of a call are the same in both and are in `TimedCall`; what would
have the same name in both ends in `Std` in the second, so that one proof module
can extend both.

## Runs

| run | size | shows |
|---|---|---|
| `opt` | 3 tasks (one with a higher priority), 2 condition variables, 2 slots | the inductive invariant, with the mutex held on both sides of a wait; no lost wakeup; no stale registration; a task finds no slot only when the table is full; refinement of `CondVar` |
| `classic` | 3 threads, 3 tokens, count up to 4 | the inductive invariant, with the mutex held on both sides of a wait; every notification reaches a sleeper without a token |
| `classic_stolen` | the same | finding: `notify_all` does not wake all |
| `mutex` | `Boot` and 3 tasks | the inductive invariant, one creation included; exclusion, but for what `Boot` locked before the first task; creation before any use; refinement of `AbstractMutex`; `try_lock` and `unlock` return |
| `latch` | 2 counters (by 1 and by 2), 3 waiters, one thread is both | the inductive invariant; nobody too early, no sleeper left, no `count_down` inside once somebody is through, termination |
| `queue` | 2 producers of 2 values, 2 consumers, a queue of 2, tables of 2 slots | the inductive invariant; never too full; nobody sleeps in vain; refinement of `Channel`; everything is delivered |
| `thread_owned` | `Main`, 2 threads, 3 objects | the inductive invariant, one owner, nothing used after deletion, refinement of `JoinableThreads`; join returns when the thread is over and only then |
| `thread_two_joins` | 2 objects, shared | finding: use of a deleted record |
| `thread_self_join` | 2 objects, shared | finding: `join` reads an uninitialized pointer |
| `unique_lock` | 2 threads, 2 mutexes, 3 lock objects, three backends | the inductive invariant, with which under FreeRTOS and cppstd no lock object owns nothing; exactly one owner per held mutex |
| `timed_wait` | 4 us a tick, tick counts of 0..7, 6 durations, lag up to 4 us; woken early, or in vain | the inductive invariant; wrap-around, no busy loop, late by a tick at most (two in a wait that blocks again), early by less than a tick, always back |
| `timed_wait_std` | ceiling 4, overflow at 9, durations up to 10, both backends | the inductive invariant; never early before the ceiling, never late, always back |

Why these bounds are enough. `opt`: two slots and three tasks is the least that
overflows, and two condition variables the least for a notification to cross
from one to the other; priorities only order the candidates of `notify_one`, so
two levels show both a choice and a tie. The two symmetric tasks and the two
condition variables are interchangeable in every property of that run, none of
which is a liveness property. `classic`: a stolen or lost token takes a
notifier, a victim and a thief. Three threads count to three at
most, but when `notify_all` resets a count that is below zero, one is left over,
and so on: the count has no bound. The one in the guard of `Wait`, 4, admits a
leftover; the theorems hold for any.
`queue`: two producers of two values make a queue of two full with one of them
still to put, and empty again, and two values of one producer can overtake each
other; two consumers and two producers make each side wake its own kind too
often; a table never needs more slots than there are threads of one side.
`mutex`: two tasks race for the creation while a third already uses the mutex.
`thread_owned`: three objects allow a move through a temporary, two threads
allow each to own the other. `unique_lock`: one thread has two lock objects, to
move between, and another contends for both mutexes. `timed_wait`: a range of
eight ticks makes every deadline wrap around for some `boot`; all phases of a
tick and all tick counts are initial; the durations are past, zero, below a
tick, several ticks, and above `kMaxTicksDelay`; the lag stays below the part of
the range above `kMaxTicksDelay`, as it must (see the hazards).

Deadlock checking is off where a program can really stop: after a failed assert,
with every task waiting, with a mutex that `Boot` kept through the start of the
scheduler, and at `MaxTime` in `timed_wait`. It is on for `latch`, `queue` and
`timed_wait_std`; in `queue` the threads stop only when every value is printed
(`Quiescent`).

### Fairness

* `latch`: weak fairness of every thread's step. FreeRTOS runs every ready task
  in the end when the tasks of higher priority block, and the latch's threads
  all come to an end. Kernel mutexes are handed to waiters, and here nobody
  locks again and again, so weak fairness is enough.
* `queue`: the same. The threads compete for one mutex again and again, but every
  producer has finitely many values, and a consumer with nothing to take sleeps,
  so nobody is overtaken for ever.
* `mutex`: strong fairness of a call in progress. The critical section is free
  infinitely often, and an interrupt lock is not queued, so weak fairness would
  allow an unlucky task to miss it forever; what is assumed is that a task is
  not starved. `lock` is not claimed to return: a holder may keep the mutex,
  `Boot` for ever.
* `thread_owned`: weak fairness of `run_thread` and of constructors and joins in
  progress, and none of client code: a callable need not return.
* `timed_wait`: time goes on and the task gets to run, weak fairness of both.
  None is assumed of a kernel that wakes the task early.
* `timed_wait_std`: the same, with strong fairness of time, which the model
  stops while a task has used up its lag.

### What the runs found

* `classic_stolen`: the tokens of `notify_all` are anonymous. A thread that
  begins to wait afterwards can take one, and a thread that was waiting sleeps
  on (`condition_variable_classic.cpp:23`; "Wakes all waiting threads",
  `doc/condition_variable_api.h:36`).
* `thread_two_joins`: `join` reads `state_` before it takes `join_mutex`, which
  lies in the record that a first `join` deletes (`thread.cpp:99-120`).
* `thread_self_join`: the constructors that start a thread leave `state_`
  uninitialized until `xTaskCreate` has returned, when the new task can run
  already; a thread that joins itself reads it (`thread.cpp:84-93`,
  `test/thread_test.cpp:113`).

Known and allowed, so part of properties instead of findings: wakeups without a
notification; a `notify_one` spent on a task whose wait has timed out but which
does not have the mutex yet (`condition_variable_opt.cpp:33`; the task waits, as
`CondVar` has it, until it has the mutex, and has to pass such a wakeup on); a
lock from before the first task that holds no task off (`MutualExclusion`,
`AbstractMutex`); a single-threaded lock object that owns no mutex
(`OwnsSomething`); timeouts of the optimized condition variable up to one tick
before the deadline (the first tick has begun already) and at `kMaxTicksDelay`
for anything longer (both in `TimeoutNearDeadline`); the ceiling of cppstd
(`TimeoutNotEarly`); `try_lock` of the single-threaded mutex, which always
succeeds.

## Proofs

Checked by TLAPS, for every value of the constants that satisfies the named
assumptions (finite sets of threads where something is counted, a null that is
no thread, at least one slot, at least as many tokens as threads, a lag that the
range of the tick count can tell from a deadline, a ceiling below what overflows
in the library).

* `CondVarOptProofs`: `Invariance`, then `TypeCorrectness`, `NoWakeupIsLost`,
  `NoStaleRegistration`, `MutexHeldAroundWait`, `OverflowNeedsFullTable`, and
  `EnoughSlots`, which no run repeats: with no more tasks than slots
  `assert(queued)` cannot fail, entries of tasks that timed out included.
  `NoLostWakeup` is not inductive: it needs that from its registration until it
  leaves the critical section a task cannot be taken out of the table
  (`Reachable`), hence that the section is exclusive (`CriticalSection`), that a
  removal only takes one's own entry, so no task is in a table twice or in that
  of another condition variable (`TableSound`), and what the loop of
  `notify_all` has swept (`NotifyAllSwept`). For the overflow, a task without a
  slot found all of them taken, and they stay taken while it keeps the section
  (`NoSlotMeansFull`); the map from slots to their tasks is an injection, which
  gives the count. Before its assert fails a task that timed out can free a slot,
  and what is left is that there are more tasks than slots
  (`OverflowNeedsManyTasks`): that is `EnoughSlots`.
  `Refinement` is that every step of `CondVarOpt` is a step of `CondVar` or
  stutters under the mapping; one lemma per action, each from the inductive
  invariant.
* `CondVarClassicProofs`: `Invariance`, `TypeCorrectness`,
  `NotificationReaches`, `MutexHeldAroundWait`. The heart is `Cover`: the waits
  that are not resolved are at most `waitlist_ + waitcount_ - scan`. A
  notification turns count into token, a wakeup uses a token, a timeout gives
  the count back; so a thread asleep without a token always means that the count
  is positive, even after races that drive it below the number of threads that
  wait.
* `MutexProofs`: `Invariance`, `TypeCorrectness`, `Exclusion`,
  `NoUseBeforeCreation`, `NoSecondCreation`, `Refinement`. The invariant ties the
  flag, the kernel mutex and the critical section together
  (`InitializationSound`), says that only `Boot` runs before the scheduler and
  what it locks to no effect is from before the first task (`BootSound`), and
  that apart from that owner and kernel agree (`OwnerHolds`, `Lasting`). For the refinement of
  `AbstractMutex`, exclusion makes the owner unique (`TheOwner`), so each
  operation that ends is one step of it: a `Take` finds no owner because the
  kernel has none, an `unlock` is called by the owner (`CallSound`), and a
  `try_lock` that fails has an owner to blame, because what is not free is held:
  the kernel mutex exists by then (`InitializationSound`). While `Boot` owns what
  the kernel does not keep for it, nobody else runs; at the start of the scheduler
  that ownership lapses in both, and a lock that lasts goes on in both.
* `UniqueLockProofs`: `Invariance`, `OwnedOnce`, `NoNullUnlock`. The invariant
  replaces the counting of owners by three facts about pairs (`LocksSound`,
  `DirectSound`, `HolderSound`), which each operation disturbs for one mutex.
  All three are about FreeRTOS and cppstd: their mutexes lock, and they refuse to
  lock an object without a mutex, which is what `NoNullUnlock` rests on.
* `ThreadProofs`: `Invariance`, `RecordOutlivesItsUse`, `JoinMeansOver`,
  `OwnedOnce`, for any numbers of tasks and objects, under `Together = FALSE`:
  nobody touches an object while its constructor or `join` runs (with `TRUE` the
  two findings contradict them). The invariant has three parts: what the locals
  of a call in progress say of its object (`CallSound`), one owner per record in
  terms of pairs instead of a count (`Ownership`), and how far task, callable and
  record are in their lives (`Lifecycle`), which is what a join relies on when it
  deletes them. `OwnedOnce` gets back to the count. `Refinement` is that every
  step is one of `JoinableThreads` or a stutter. An object that is idle owns what
  `state_` says (`IdleHandle`), so client code only moves handles
  (`ClientMapped`); one constructor at most runs for an object, so the handle of
  an object under construction is that constructor's (`HandleIsSound`), and
  `Assign` changes nothing any more; `Lifecycle` gives that what `JoinClear` lets
  go of is over.
* `LatchProofs`: `LatchInvariance`, `NobodyTooEarly`, `CountersAreThrough`,
  `NobodySleepsOn`, for any threads in any roles. Every step of the latch is one
  of the condition variable or none, so all of `CondVarOptProofs` holds here too.
  `Counted` ties the counter to the threads: it is the number of units that those
  who have not subtracted theirs still have, so only the last of them finds zero.
  A thread can be registered at a count of zero only until that one has notified
  (`SleepersSound`): it checked the count under the mutex, and `notify_all`
  empties the table. Whoever leaves has seen zero under the mutex, which the last
  counter held from its subtraction to the end of its notify, so every counter is
  through with condition variable and mutex (`LeaversSound`). Other waiters may
  still be on their way out.
* `QueueProofs`: `QueueInvariance`, `CapacityKept`, `NoVainSleep`,
  `NotAllAsleep`, which no run repeats, and `DeliversInOrder`, the refinement of
  `Channel`. Every step of the queue is one of the
  condition variables or none (`StepOfCondVar`), so all of `CondVarOptProofs`
  holds here too. `NobodySleepsInVain` is strengthened to everyone who is
  registered, asleep or not yet (`WaitersSound`): a thread registers under the
  mutex when it has a reason to wait, whoever takes the reason away holds the
  mutex until it has notified (`Positions`), and `notify_all` empties the table.
  That a sleeper without a notification is registered is the theorem about
  `CondVarOpt`. For the refinement, `OrderSound` is the second half of the
  invariant: the values of a producer in the deque are an interval that ends with
  the last one sent, and smaller ones are in front. A take then removes the least
  one of its producer, which is the one that `Channel` expects, and the producers'
  intervals together are no longer than the deque, which is `Channel`'s bound.
* `TimedWaitProofs`, on `TimedWait`: `Invariance`, `WrapsSafely`, `NeverSpins`,
  `SleepsNoLonger`, `TimesOutInTime`, for every width of the tick count, every
  ceiling and every length of a tick, where TLC has eight ticks. `WaitSound`
  places the true time and the wake tick relative to the deadline with the lag;
  `RemainingTicks` shows that the code's unsigned difference is then the true
  one, or above the ceiling when the deadline has passed. `LagAssumption` is what
  this takes: a task is not kept from running for longer than the part of the
  range above `kMaxTicksDelay`. `NeverSpins` also assumes that no sleep is for
  more ticks than `TickType_t` counts. The two theorems about the deadline need
  `DeadlineSound`: `ToTicks` rounds up, by less than a tick, so blocking for what
  it returned ends within a period of the deadline (`EndsInTime`), and a wait
  whose last tick has come is past its deadline but for the tick that had begun
  already. A task that was woken early or in vain blocks again, for any number of
  times: the last tick of a wait is chosen once and ends within a period of the
  deadline (`EndTickInTime`), and the ticks that are left of it are counted from
  the beginning of the current one, so blocking again adds one more tick and not
  one each time (`Slack`).
* `TimedWaitProofs`, on `TimeUtil`: `TicksCoverDuration`, for every length of a
  tick and every duration: `ToTicks` gives the least number of ticks that covers
  a duration, although it rounds up twice, to milliseconds and to ticks.
* `TimedWaitProofs`, on `TimedWaitStd`: `StdInvariance`, `StdTimesOutInTime`,
  `StdSleepsNoLonger`, for every ceiling below what overflows in the library
  (`CeilingAssumption`). The invariant carries the two bounds of the deadline from
  the duration that is handed over to the time at which the library ends.

Only model-checked: liveness (`Terminates`, `JoinReturns`, `TryAndUnlockReturn`,
`Returns`, `ReturnsStd`, `Delivers`), which is out of the prover's reach. Every
other property of the passing runs is a theorem. The three findings are
counterexamples of TLC.

## Not modelled

* Priority inheritance of the kernel mutex, and scheduling by priority: any
  ready task may take the next step, which covers every schedule.
* Uses of task notification index 0 by the application, and calls from
  interrupts; the code forbids neither and is written for neither.
* The memory model below critical sections and kernel calls, except for the
  unsynchronized first check of the mutex.
* `thread::attributes`, `thread::id` and `yield`: values and plain setters.
  `get_id` reads the record that `state_` points to and changes nothing; with an
  object that is shared it is exposed to what `thread_two_joins` shows.
  `detach` is declared and never defined. `unique_lock`'s `try_lock_for`
  and `try_lock_until` need operations that the mutex does not have.
* The kernel's own assertions and its bookkeeping of who holds a mutex before the
  scheduler runs, when it takes the task created last for the current one: with
  them, giving back a lock from before the first task could stop the program. In
  `Give` the kernel refuses it.
* Builds without asserts, where a full table, a failed `xTaskCreate` and the
  misuses that `join` and `unique_lock` check for would go on (the
  single-threaded `unique_lock`, which has none, is modelled).
* The rest of the cppstd backend, which forwards to the standard library, and of
  the single-threaded one, which consists of empty functions.
* Facades, configuration, documentation headers, tests, the Counter example,
  build files; of the queue example, the output, its mutex and the pauses.

## Plan

Done, in this order: `CondVar`, `CondVarOpt` with its invariant and refinement,
`CondVarClassic`, `Mutex`, `UniqueLock`, `Latch`, `Thread`, the timed operations,
the proofs about `Thread`, `Queue` with its proofs, the proofs about wrapping
ticks, the proofs about `Latch`, the refinement of `Channel`, the proofs about
deadlines in all three backends, the refinements of `AbstractMutex` and
`JoinableThreads`.

What is left, by weight:

1. A `Semaphore` module: both semaphores with several tasks, tokens refused at
   the limit of the binary one, timed and untimed acquires, and conservation of
   tokens as a theorem; the classic condition variable over it.
2. A refinement of `CondVar` by `CondVarClassic`, as far as it goes: what is
   left of the promise with anonymous tokens.
3. The queue with timed waits and `notify_one`, where a wakeup that a timed-out
   task receives has to be passed on.
