# NaiveNet base library: TLA+ models and proofs

NaiveNet is a port of muduo's base library to C++11: thread pool, blocking
queue, latch, mutex and condition wrappers, threads, an asynchronous logger, and
date and time-zone arithmetic. This directory holds TLA+ models of its parts,
TLC configurations that check them on small instances, and TLAPS proofs for every
size of every safety property the runs check.

## 1. Inventory

| Part | State | Operations | What makes it correct |
|---|---|---|---|
| `ThreadPool` | `running_`, `queue_`, `threads_`, one mutex, `notEmpty_`, `notFull_` | `start`, `run`, `take`, `runInThread`, `stop`, destructor | the queue stays bounded, no wakeup is lost on either side, tasks run once and in order, `stop()` returns and leaves nothing running |
| `BlockingQueue` | `queue_`, mutex, `notEmpty_` | `put`, `take`, `size` | a FIFO channel: nothing lost, repeated or reordered, and no taker sleeps while there is a message for it |
| `CountDownLatch` | `count_`, mutex, condition | `wait`, `countDown`, `getCount` | nobody passes before the count is down, nobody sleeps after |
| `MutexLock`, `Condition` | the pthread mutex, `holder_`, the pthread condition | `lock`, `unlock`, `wait`, `waitForSeconds`, `notify`, `notifyAll`, `assertLocked` | mutual exclusion, and `holder_` never lies |
| `Thread`, `CurrentThread`, `AtomicIntegerT` | `started_`, `joined_`, `tid_` (shared with the thread through a `weak_ptr`), `t_threadName`, `numCreated_` | constructor, `start`, `join`, destructor, `runInThread` | no use of freed memory, each pthread released once, unique default names |
| `AsyncLogging` | `currentBuffer_`, `nextBuffer_`, `buffers_`, the back end's two spare buffers, `running_` | `append`, `start`, `stop`, `threadFunc` | no line disappears, comes twice or out of order on its way through the buffers, except by a reported drop; the assertions of `threadFunc` hold; lines reach the file as long as the back end runs |
| `LogFile`, `AppendFile` | the current file, `count_`, `startOfPeriod_`, `lastRoll_`, `lastFlush_`, `writtenBytes_` | `append`, `flush`, `rollFile` | unique file names, rolls and flushes in time, no bytes of a line twice or out of order |
| `Logger`, `LogStream`, `FixedBuffer` | the globals `g_logLevel`, `g_output`, `g_flush`, `g_logTimeZone`; per thread `t_lastSecond`, `t_time`; a buffer of 4000 bytes per line | the `LOG_` statements, the setters, `~Logger` | the time shown is right, the buffer is not overrun, a FATAL line gets out before `abort()` |
| `Date`, `TimeZone` | none that changes | Julian day numbers, UTC and local time, both ways | agreement with the calendar, inverse to each other |
| `Singleton` | `ponce_`, `value_`, the exit handlers | `instance`, `init`, `destroy` | one object each, destroyed after those that use it, whether in their constructors or their destructors |
| `ThreadLocal`, `ThreadLocalSingleton` | the pthread key, a slot and a `t_value_` per thread | `value`, `instance`, the destructors at the end of a thread | a value per thread and key, deleted once, no pointer to a deleted one, the asserts of `ThreadLocalSingleton` |
| `FileUtil` | a descriptor, `err_`, a buffer | `ReadSmallFile`, `AppendFile` | a file is read whole or with an error; what gets into the file of a line is the beginning of it (its end, up to half of the line, may be lost without a message: that is what the code does, and no property forbids it) |
| `Timestamp`, `ProcessInfo` | none that changes | `now`, `toString`; `procname` and other questions to `/proc` | the texts stand for what they are made from |
| `Exception`, `StringPiece`, `Types` | see section 7 | | |

How they interact. `ThreadPool`, `BlockingQueue` and `CountDownLatch` are monitors
built from `MutexLock` and `Condition`, with `Thread` objects to run in. `AsyncLogging`
runs its back end in a `Thread`, waits in `start()` for a `CountDownLatch`, and owns a
`LogFile`. A `Logger` is a temporary object for each line, whose destructor calls the
function `g_output`, for which a program may install `AsyncLogging::append`.
`Thread::start` logs through `LOG_SYSFATAL` when no thread can be created. Singletons
and thread-local values are used by any thread, and die with the thread or the process;
a `Singleton` may hold a `ThreadLocal`. The tests under `tests/` compose these parts:
`ThreadPool_test` the pool and a latch, `BlockingQueue_test` the queue, a latch and threads,
`SingletonThreadLocal_test` the last two. The hard behaviours are the interleavings of threads around the condition variables, the two
unlocked reads of `running_`, shutdown, the exchange of buffers between front and
back end, the life of a thread that outlasts its object, and what destructors at the end of
a thread or process can still reach. Nothing is persisted
but log files, and there is no network in this part of the library.
`PROJECT.json` lists every hazard at its line with the properties that watch it.

## 2. Modules

| Module | Models | Correspondence |
|---|---|---|
| `Condition` | `notify`, `notifyAll` | The threads at a condition are those at a place of a function from threads to places; `Notify` is the set of possible results. |
| `Monitor` | `Mutex.h`, `Condition.{h,cc}` | One action for each write of `holder_` and each pthread call: `Lock`, `AssignHolder`, `UnassignHolder`, `Unlock`, `WaitUnassigns`, `WaitSleeps`, `WaitEnds`, `WaitLocks`, and `Signals` and `Broadcasts` for `notify()` and `notifyAll()`. It is why the other modules may take a critical section as one step. |
| `ThreadPool` | `ThreadPool.{h,cc}` | `pc` says where each worker, client and the owner is. A critical section is one action (`PutPush`, `TakeTask`, `TakeNothing`, `StopSection`); one that ends in a wait is two (`TakeBlock` or `PutBlock`, then `Sleep`), so that the window the comment in `stop()` describes exists. `LoopTest` is the unlocked read. |
| `TaskExecutor` | the promise of `ThreadPool` | The abstract specification: `Accept`, `Begin`, `Finish`, `RunDirectly`, `Close`. `Executor` in `ThreadPool` is the instance it implements: the executor has threads when `created > 0`, is closed when `stop()` has returned, and executes what the workers have in `cur`. |
| `ThreadPoolTest` | `tests/ThreadPool_test.cpp` | Composes pool and latch as `main()` of the test does: its tasks one by one, `countDown()` as the last, `wait()`, `stop()`; another client shares the pool. `WorkerCounts` is the call of `countDown()` inside the last task, which returns in a later step. |
| `FifoChannel` | the promise of `BlockingQueue` | The abstract specification: `Send`, `Ask`, `Receive`, safety `ChanSafe`, with liveness `ChanSpec`. |
| `BlockingQueue` | `BlockingQueue.h` | `Put`, `TakeCall`, `TakeWait`, `TakeReturn`, a wakeup without a signal; `Channel` is the instance of `FifoChannel` it implements. |
| `CountDownLatch` | `CountDownLatch.{h,cc}` | `WaitCall`, `WaitSleep`, `WaitReturn`, `CountDown`, a wakeup without a signal. |
| `BlockingQueueTest` | `tests/BlockingQueue_test.cpp` | Composes queue, latch and threads as the test program does: `main()` and its workers. |
| `AsyncLogging` | `log/AsyncLogging.{h,cc}` | Extends `CountDownLatch` for `latch_`. `AppendFits` and `AppendRotates` are the two paths of `append()`; the back end has an action for each critical section and for the code between. |
| `LogFile` | `log/LogFile.{h,cc}`, `FileUtil::AppendFile` | `StartLine` is the first `fwrite()` of a line, perhaps short, `Retry` each one that the loop adds, and `AppendLine` the rest of `append()`: the end of the loop, the roll for size, the check every `checkEveryN_` lines. `ClockChanges` is time. |
| `Logger` | `log/Logging.{h,cc}`, the buffer of `LogStream` | `Log` is the constructor and the message, `Output`, `FlushFatal` and `Abort` the destructor; `Configure` is any of the setters. Buffer sizes are the real ones. |
| `Thread` | `Thread.{h,cc}`, the counter in `Atomic.h` | The object's operations and the thread's steps interleave freely. |
| `Singleton` | `Singleton.h` | `Instance`, `ConstructorAsks` and `DestructorAsks` enter `init()`, `InitReturns` leaves it; `RunDestroy` takes the next exit handler off the list, `DestroyReturns` is the end of its `delete`. `Needs` and `Parting` say which singleton a constructor and a destructor ask for; one that a destructor is the first to ask for is made during exit (`late`). |
| `ThreadLocal` | `ThreadLocal.h`, `ThreadLocalSingleton.h` | `Value` and `SingleInstance` make a value on first use; `RunDestructor` is one call of a destructor by the C library, whose `~T()` may use another value, `EndRound` the end of a round of them. |
| `Process` | `tests/SingletonThreadLocal_test.cpp` and the three tests of its parts | Composes `Thread`, `Singleton` and `ThreadLocal`: when a thread's `ThreadData` is deleted its destructors run, when the last thread ends the exit handlers do. |
| `Date`, `TimeZone`, `Timestamp`, `Numbers`, `CDivision` | `Date.{h,cc}`, `TimeZone.{h,cc}` with its reader of zone files and the `tm_zone` of a local time, `Timestamp.{h,cc}`, `convert()` of `LogStream.cc`, C's division | Pure operators and recursive functions. |
| `ReadSmallFile` | `FileUtil::ReadSmallFile`, `readFile()` | Pure operators on a description of the file and of what the system calls answer. `Throws` is `reserve()` with a negative `maxSize`. |
| `ProcessInfo` | `procname()` | One operator on a text. |
| `Conversions` | | States the definitions those are compared with, and their assumptions; one question per state. |
| `MC...` | | The instances for TLC. |
| `..._proof` | | The proofs, see section 5. |

An operator whose name ends in an underscore and a word (`IsFull_OffByOne`) is a
plausible bug in the definition that follows it. With it in place TLC finds the
property it belongs to violated; it shows that the property can fail, and no
specification uses it.

## 3. Runs

| Run | Instance | What it shows |
|---|---|---|
| `pool_safety` | 2 workers or none, 2 clients, 5 tasks of which one submits another and one throws, 2 places, 1 spurious wakeup | bound, no lost wakeup on either condition, no sleeper after `stop()`, at most one late task per worker; the pool implements `TaskExecutor` |
| `pool_live` | the test program: 2 tasks and `countDown()`, another client with 2 tasks, 2 workers, 2 places | queued tasks run, blocked producers go on, the latch opens, `stop()` returns, and no task before the latch is lost although `stop()` drops what is queued |
| `pool_drain` | 2 workers, 2 clients, 4 tasks that submit nothing | **violated**: `stop()` leaves queued tasks behind |
| `pool_stop` | a task that submits another, 1 place | **violated**: `stop()` hangs |
| `queue` | 3 workers, 3 messages and 3 `"stop"`s | the queue implements `FifoChannel` with its liveness, the latch works, every message is taken |
| `queue_join` | the same | **violated**: `joinAll()` never returns |
| `async_logging` | 5 lines, one of them too long for a buffer, one line per buffer, backlog limit 3 | assertions; a line is written, in one of the buffers, or in a reported drop; lines get written unless `stop()` comes first; `stop()` returns |
| `logger` | 2 threads, 2 seconds, 2 zones, 2 sinks | times right, buffer not overrun, FATAL line out before `abort()` |
| `log_file` | 5 lines of 1 or 4 bytes, seconds 2 to 6, 2 periods, 2 short writes | names, rolls, flushes; what a file gets of a line is the beginning of it, each byte once |
| `monitor` | 3 threads, symmetric, unbounded | `holder_` names nobody but the owner; `assertLocked()` holds |
| `thread` | a process: `main()` and 2 `Thread` objects, 3 singletons: one needs another in its constructor, the destructors of these two ask for each other, and the third is kept; 3 keys whose destructors use each other, 4 rounds | unique numbers, `tid_`, names, values are alive when used, and singletons unless a destructor asks for one that has gone before it; threads released once, values deleted, the asserts hold |
| `calendar` | years 1900 to 2500, zones of up to 3 transitions and their files cut anywhere, numbers up to 1100 either way, 30 timestamps, files of up to 10 bytes through a buffer of 3, names of up to 4 characters | the conversions and the readers |

The three violated runs are the findings in `PROJECT.json`:

* `stop()` clears `running_` and then wakes the workers, "to let them finish the
  tasks" (comment at `ThreadPool.cc:76-77`); they leave their loops instead.
* `stop()` notifies `notEmpty_` only. A worker that waits at `notFull_` inside a task
  is woken by a `take()`; when the other workers have left there is none, and
  `stop()` waits for ever. `pool_live` shows that with tasks that
  submit nothing `stop()` returns.
* `joinAll()` of the queue's test sends `"stop"` to threads that never look at it.

Bounds and why they are enough.

* Two workers and two clients are the least with two sleepers and a thread that
  overtakes the woken one, on both conditions; two places let a producer wait
  while another place becomes free, and the fifth task fills the queue again
  behind it. What the theorems cover does not depend on these numbers.
* Three takers in the queue's test leave two asleep while a third overtakes.
* Buffers of one short line and a limit of three make every mix of current, spare,
  full and dropped buffers occur within five lines; the code's 25 is a constant.
* `RollSize`, `CheckEveryN` and the period of `LogFile` are scaled so that each of the
  three branches of `append_unlocked()` is taken in each order. `Clocks`, `MaxLines`
  and `MaxShort` bound the behaviour; a line of four bytes and two short writes take the loop of `AppendFile::append()`
  around twice.
* Four rounds of destructors are those of Linux (`PTHREAD_DESTRUCTOR_ITERATIONS`); a chain of
  uses over three keys has room in them. Two threads besides `main()` race for each singleton.
  `Wants` says which keys a thread's function uses itself; destructors use the others. By `MCParting` a destructor asks for a
  singleton that is still alive, that was deleted already, or that nobody has asked for yet, as the threads had it before.
* A buffer of three bytes makes the files of `calendar` shorter, as long and longer than it and
  its multiples; the first four calls of `read()` may each give less than asked, or fail.
* In the test of the pool only the last task of the script counts the latch down, and no task of the script is
  also submitted by another one (`TestAssumption`), as in `main()` of `ThreadPool_test.cpp`.
* `MayRun` keeps tasks that throw or submit from being run in their caller before `start()` has
  returned: such a task throws at the caller, outside the pool.
* The messages in `logger` end where one number, one byte and nothing more fits.
* `Monitor`, `Process` and `Logger` need no bound on the length of a behaviour.
* `MaxSpurious` bounds wakeups without a signal in the pool. It is 0 in the runs with
  liveness, where a spurious wakeup could only help.

Runs with `CHECK_DEADLOCK FALSE` are of systems that really stop: a pool or logger that was
stopped or aborted, a test that has ended (or hangs), and in the pool a set of finitely many tasks that
was used up. `pool_live`, `thread`, `monitor`, `log_file` and `calendar` check for deadlock; in the
first two an ended process is told from a stuck one (`Terminated`, `ProcessEnded`).

## 4. Fairness

Weak fairness only, of each thread that can run: the pool's threads, callers inside
`run()`, the owner inside `start()` and `stop()`, the back end of the logger with the
timeout of its wait, `main()` and the workers of the queue's test, and in the pool's test `main()` inside `wait()`
and a worker inside the task that calls `countDown()`. It stands for the operating
system's scheduler. Nobody has to call an operation, no wakeup comes by itself, and
no thread is promised the mutex ahead of others. A step that needs the mutex is enabled
as soon as the thread in the window before its wait sleeps, which it always does.

## 5. Proofs

TLAPS checks these for every value of the constants, under the named assumptions of
the modules (finite sets of threads, disjoint kinds of threads, numbers that are numbers, singletons
whose needs have no cycle; for the conversions, what makes a year, a zone file and a file, see below).
Eight modules hold them; a test program's module also holds the
proofs about the component it drives, as it extends that component.

* `BlockingQueueTest_proof`, the monitor, which is there because the queue's critical sections are single
  steps on the strength of it: types, `MutualExclusion` (stated there: the runs need not check it, as the places
  of a model with one owner could hardly break it), `HolderOwns`, `HeldInside`. The invariant adds
  that a thread is in the condition's queue exactly while it sleeps, and that
  `holder_` names a thread only inside its critical section.
* `CountDownLatch_proof`: first the lemmas on `Condition` that the queue and the pool need too, what a
  notification does and how a count of threads at a place changes when one thread moves. Then
  types, `NoSleeperBehindOpenLatch`, and `LatchHolds` (nobody returns before the last
  `countDown()`), an action property.
* `BlockingQueueTest_proof`, the queue: types, `NoLostWakeup`, and that the queue implements the
  safety of `FifoChannel`: the initial state maps to one of the channel's and every step to a step or
  a stutter. The invariant adds that what was put is what was received followed by
  what is queued. The composition: every step of the test is a step of the queue, of the latch,
  or leaves them alone, so all of this holds in the test (`TestUsesQueueAndLatch`).
  `StartsTogether` counts: the latch's count is the number of workers that have not called
  `countDown()` (`Behind`), and `main()` gets past `wait()` only when it is 0.
* `ThreadPoolTest_proof`, the pool: types, `QueueBounded`, `NoSleeperAfterStop`, `LateTakes`,
  `NoLostTakeWakeup`, `NoLostPutWakeup`. `NoSleeperAfterStop` needs that a thread between its
  test and its sleep owns the mutex, so that `StopSection` cannot come in between.
  `LateTakes` needs that a worker that took a task after `stop()` never gets back to `take()`.
  The two wakeup properties need `WindowInv` (the test still holds when the thread falls
  asleep) and are proved by counting: `Count(Threads, pc, "take")` against the length
  of the queue, `Count(Threads, pc, "put")` against the free places. The pool implements
  `TaskExecutor`, `Spec => ImplementsExecutor`. The invariant
  says that a task is in one place only: the argument of a call, the queue, the hands of one
  worker, or finished; that a nested task is submitted by its parent only; and that the joined
  workers have ended. From it every step maps to one of the executor's or to a stutter: a push is
  of a task the executor does not know, and `stop()` returns when nothing is executed. These proofs
  use the assumption of `ThreadPool` only and hold of any use of the pool.
* The composition in `ThreadPoolTest_proof`: the test's steps are steps of the pool and of the latch
  (`TestUsesPoolAndLatch`), and `DoneAtLatch` in three parts. `BegunInv`: what was accepted is what was
  begun followed by the queue, and what was begun is finished or in a worker's hands. `ScriptInv`: the
  tasks of the script enter the queue in the order of the script, whatever the other client puts between
  them, so that all are begun when the last one is. `OpenInv`: the latch is open only after
  that last one was begun. What has been begun has finished when `stop()` has joined the workers.
* `AsyncLogging_proof`: `AssertionsHold` and `NoLineLostOrRepeated`. The invariant of the first says that
  the front has a full buffer whenever
  it lacks its spare one, so that a turn of the back end which gives both spares away gets at least two
  buffers to recycle; and that the latch keeps `start()` from returning before the back end has
  passed `assert(running_)`. The second is stated on the sequence of chunks (one for each written or waiting
  buffer) rather than on their concatenation, which would need an induction. The proof
  gives each place of a chunk its place in the new sequence after a rotation, a swap and a write, and shows that a
  backlog that is cut loses exactly the lines that it reports.
* `LogFile_proof`: `NamesIncrease`, `FilesRollInTime`, `FewOverdueLines`, `LinesArePrefixes`. The
  invariant relates the file in use to the counters: it is named by `lastRoll_`, it has at most `count_`
  lines of a later period and at most `count_` lines after the interval. They
  rest on `Periods` (a clock that goes on does not go back to an earlier period). For the bytes of a line the invariant is the
  loop's: `n` and `remain` add up to the length before every `fwrite()`, which is what keeps a retry from
  reading past the end of the line, and the bytes so far are the first `n`.
* `Logger_proof`: `TimesRight` from the cache's invariant (it shows `t_lastSecond`, in the present zone or
  one that was set since), `FatalLineSurvives` from that `SinkWrites` only
  takes lines away and a thread about to abort appends none, and `LinesFit`. The last one is about a recursion
  along the pieces of a line: `Recursion` shows that such a function exists, and `Upward` that what it keeps
  from one piece to the next it keeps to the end, both from the least number in a set of counterexamples.
  So it holds for messages of any number of pieces of any length.
* `Process_proof`: a process uses its threads as the specification of `Thread` allows (`ProcessUsesThreads`),
  so the invariants of `Thread` are those of the process: `UniqueNames` from the tickets of the
  counter, `TidOutlivesWrite` from counting the references to `tid_`, `ReleasedOnce` from the
  states of object and thread. `TlsAssertions` from that a `t_value_` pointer, its slot and its value
  are there together between destructors. `ValuesDeleted` from the rounds: for every rank of
  the keys that goes up along the uses, what is filled after a round has a rank that this round had not
  reached; such a rank within the number of rounds (`ShortChains`) leaves nothing at the end. `NothingDangles` for singletons from
  the order of `atexit()`: one that needs another registered its `destroy()` later, so it is destroyed
  earlier, whichever threads raced for them. The order stays so when a destructor makes a singleton that nobody had
  asked for, whose handler runs next. What such a late one needs may have been deleted
  before it; the property excepts it and nothing else.

* `Conversions_proof`: the five properties of `Conversions`, for any years, zones, moments, numbers, times to
  print, files and names.
  * What is defined by recursion is a choice of a function that solves an equation, so that one must be shown
    to exist first. `RecursionExists` does that for any recursion that goes down a measure, from
    solutions below every bound that agree with each other. It serves the loop of `readFile()`
    (what is left of the file goes down, whatever `read()` gives), the digits of `convert()` (the magnitude) and the
    number a text stands for (its length). Induction is over sets of numbers (`Upward`, from `Least`).
  * `DatesRight`: the days counted from year to year, from 1970 in both directions, have a closed form; the
    formula of `getJulianDayNumber()` is that form in years that begin in March. A day number comes
    apart again because a century, four years and a year each end with their leap day (`Centuries`). The
    time of day follows from quotient and remainder of either sign (`TimeOfDay`).
  * `LookupRight`: what was there of the file is the first kind of time with no transition, or all kinds with all of
    them; in an ascending sequence the search stops next to the last transition that is not later. The name is compared
    where the whole file is there; `tm_zone` points past the end when the names were cut off, and the property allows it.
  * `LocalRoundTrip`: standard time and the length of a saving being fixed, a local time is either still before
    the next transition as that one's local time counts, or already past it. In the second case the hour is
    there twice and the flag picks the side. In the first, after a transition to daylight saving, it is the hour
    that never comes, and is taken as standard time.
  * `ReadsRight`: between reads the loop is past neither the end of the file nor `maxSize`; it ends short of both only
    with an error, and a read that gives nothing is at the end. `reserve()` throws for a negative `maxSize`
    only, when `fileSize` is asked for too, and then nothing has been read.
  * `TextRight`: digits that are written last first, from remainders with the sign of the number, are those of the
    number, without leading zeros; microseconds have at most six of them.
  * Assumptions. `YearsAssumption`: Julian day numbers are positive, as `Date::valid()` asks. `ZonesAssumption`: the
    transitions of a zone file ascend, as the format requires and `lower_bound` relies on, its indices are in
    range, and a zone with daylight saving has one standard time, an hour of saving, and no local time shorter than
    that. `FilesAssumption` and `TextsAssumption`: sizes are natural numbers, a buffer has a byte, the time
    to print is not before 1970 and its microseconds are below a million, as `gettimeofday()` gives them.
    Integers are unbounded in the model. The formulas of `Date.cc` would leave the code's 32 bits only for years
    after 1 400 000; and `convert()` never negates its number, so no width matters to it.

Only model-checked: all liveness, which depends on fairness and `ENABLED`, and with it the liveness half of
`FifoChannel`. Every invariant of the runs and every action property is proved.

## 6. Abstractions

* A task, message or line is a model value, submitted at most once, so that order and
  loss can be seen; the queue's test puts one of its messages twice.
* A task submits at most one other, and that one none.
* A log line is its length; a text in `Logger` is its length, and a message any sequence of texts and numbers.
* What `AsyncLogging` has written is a sequence of buffers, each with its lines; a turn whose buffers are empty adds
  none, so that the model has finitely many states.
* The mutex appears in `ThreadPool` only while a thread owns it between two steps.
* `setMaxQueueSize()` and the thread-init callback are used before `start()`, as the header asks.
  The callback has no effect in the model.
* `run()` reads `threads_.empty()` without the mutex; while `start()` appends the first thread the
  read may go either way (`RunInCaller` and `RunCall`).
* Globals of `Logger` are set while no thread logs: anything else is a data race.
* `AppendFile`'s writes may come short; that its file cannot be opened is left out.
* What `ReadSmallFile` has read is a prefix of the file, given by its length. A descriptor 0, which
  the code takes for none, leaves the string alone without an error; the model says so.
* A zone file is a sequence of fields. `TimeZone` is `valid()` after reading any of them, also one that
  was cut short; the indices in it are taken to be in range.
* Main ends its thread with `pthread_exit()`, or returns when it is the last: that `main()` returns while
  threads use singletons and values is undefined behaviour that the tests avoid. A destructor asks for one singleton at most.

## 7. Not modelled

`StringPiece` and `Types` (views and casts adopted from other projects), `Exception` (a stack trace),
the questions of `ProcessInfo` to the kernel (it keeps nothing), the text of floating-point numbers
(that of `snprintf()`), `fork()` and with it the cached thread id, `Logger`s constructed inside the message
of another, `rollFile()` called from outside, the comparisons of `Timestamp`. The programs under `tests/`
that only measure or print are left out, too. `ThreadLocalSingleton`'s `~Deleter()`, which gives its key back when the process
exits, comes after the last thread and is left out.

Hazards without a property: that a program changes `g_output` and leaves a `g_flush` which does not suit it
(`Logging.cc:205`): `FatalLineSurvives` supposes a pair that fits. Partly watched: a singleton that
was deleted when another's destructor asks for it is what `Singleton.h` returns, and `NothingDangles` says of which singletons that
cannot happen; and `BlockingQueueTest` takes the test and the sleep of `wait()` as one step, as the latch's mutex makes it.

## 8. Plan

Done: the monitor, the latch, the queue and the pool, the abstract
specifications they implement and the test programs that compose them; the logger's pipeline; the log files;
threads, singletons and thread-local values in one process; the pure conversions; and proofs of every safety
property the runs check. What a further step could take:

1. `Logger` over `AsyncLogging` as `g_output`: the loss of a FATAL line whose `g_flush` does not suit
   its `g_output` is in `Logger` as a sink that keeps what it has not flushed; the composition
   would show it with the buffers of the back end.
2. `fork()`: `CurrentThread`'s cached id and the names of threads in the child.
