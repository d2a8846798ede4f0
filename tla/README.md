# Verification of TQLib

TQLib is a C++ library of task queues and threads: WebRTC's task queue
implementations, `rtc::Thread` with its message queues and socket servers, the
event, the tracer and the logs they rest on, two signal/slot libraries
(`sigslot`, and `sigslot2` of its own), and the helpers all of them use: numbers,
units, clocks, texts, addresses, containers. This directory holds TLA+ models of
these, the TLC instances that check them, and TLAPS proofs of what matters most.
Every definition is translated from the source; `PROJECT.json` maps each to the
lines it stands for.

## 1. Inventory

### Task queues (`api/task_queue`, `rtc_base/task_queue_*.cc`)

`TaskQueueBase` promises: tasks posted with `PostTask` run in FIFO order, one at
a time, on the queue's thread; a delayed task does not run before its delay; a
task that cannot run because the queue is deleted is destroyed, on the queue or
in `Delete`; `Delete` blocks until the running task is over.

| Component | State | Operations | What is hard |
|---|---|---|---|
| `task_queue_stdlib.cc` | pending queue, delayed tasks by (fire time, order), `thread_should_quit_`, the event `flag_notify_` | `PostTask`, `PostDelayedTask`, `Delete`; the loop `ProcessTasks`/`GetNextTask` | deciding to sleep under a lock and sleeping after it; two queues merged by posting order; clock read before the lock; rounding of the sleep |
| `task_queue_libevent.cc` | vector `pending_`, a non-blocking pipe, libevent timers, `pending_timers_` | `PostTask`, `PostDelayedTask`, `Delete`; `OnWakeup`, `RunTimer` | one wake byte per non-empty vector; a write that must not fail; timers deleted once |
| `task_queue_win.cc` | pending queue and event, thread messages, a multimedia timer or `SetTimer` | the same; `RunThreadMain`, `ProcessQueuedMessages` | delayed tasks travel as messages behind the quit message; stale timers |
| `task_queue_gcd.cc` | an active flag, a libdispatch queue | the same | tasks that libdispatch still holds after `Delete` |
| `repeating_task.cc` | next run time, a safety flag | `Start`, `DelayedStart`, `Stop`, the run | late runs shorten the next delay; `Stop` from inside the task |
| `pending_task_safety_flag.cc` | `alive_`, reference counted | `SafeTask`, `SetNotAlive`, `SetAlive` | a task posted before the owner died |

### Threads (`rtc_base/thread.cc` and its servers)

| Component | State | Operations | What is hard |
|---|---|---|---|
| `Thread` | `messages_`, `delayed_messages_`, `stop_`, the socket server | `PostTask`, `PostDelayedTask`, `Get`, `ProcessMessages`, `Start`, `Quit`, `Stop`, `Restart` | a wait chosen under the lock and begun outside it; `stop_` looked at after the queue |
| `Thread::BlockingCall` | `ready` and the caller's own event, the send graph of the `ThreadManager` | call, reply, cycle check | one event wakes for posts, replies and `Quit`; callers in a circle; a target that quits |
| policies of a `Thread` | `blocking_calls_allowed_`, `allowed_threads_`, the counts of `ScopedCountBlockingCalls` | the scopes, `AllowInvokesToThread`, `DisallowAllInvokes` | nested scopes, changes by a task of another thread |
| `ThreadManager` | the list of threads, thread-local current thread | `Add`, `Remove`, `ProcessAllMessageQueues`, `WrapCurrentThread` | a flush that waits until every queue ran or dropped a marker; what is current under nested `AutoSocketServerThread`s |
| `NullSocketServer` | one auto-reset event | `Wait`, `WakeUp` | - |
| `PhysicalSocketServer` | dispatchers by key, pipe or event, fds, sockets | `Add`, `Remove`, `Update`, `Wait` (select, epoll, poll, Windows), `WakeUp`; sockets | dispatchers removed and reopened between a wait and the use of its results |
| `AsyncResolver` | a state shared with its thread | `Start`, `Destroy` | destruction during the lookup or inside the callback |
| `SequenceChecker` | the thread and queues it is attached to | `IsCurrent`, `Detach` | several notions of "where" at once |

### Synchronization, signals and services

| Component | State | Operations | What is hard |
|---|---|---|---|
| `Event` (`event.cc`, POSIX) | flag, mutex, condition variable | `Set`, `Reset`, `Wait` | broadcast to waiters of an auto-reset event; two phases of a wait; spurious wakeups |
| `RecursiveCriticalSection` (Mac) | owner, count, semaphore, atomic queue length | `Enter`, `TryEnter`, `Leave` | a lock out of atomics |
| reference counting | `ref_count_`, `scoped_refptr` | assignment, move, release | self-assignment, the object that holds the source pointer |
| `sigslot` | the slots of a signal, the signals of a receiver, the iterator of an emission | `connect`, `disconnect`, emission, copy, destruction | slots that change the lists while they are walked |
| `sigslot2` | connections of a signal, a mutex, weak receivers | `connect`, `disconnect`, `emit`, queued and blocking emission | slots that call back into the signal under its mutex |
| logging | the list of sinks, the severities, read without the lock | `RTC_LOG`, `AddLogToStream`, `RemoveLogToStream` | stale severities; a sink removed while others log |
| `EventTracer`, `trace_event.h` | vector of events, active flag, the logging thread and its file; cached category pointers | add, `Start`, `Stop`, `Shutdown`; scopes | a check and an add in different captures; what `Stop` waits for; scopes over a change of capture |
| `FileRotatingStream` | file names, sizes, rotation index, the directory | `Open`, `Write`, rotation | a rotation is many calls that may fail, or the last thing the process does |

### What runs on one thread

| Component | What it promises |
|---|---|
| `numerics/` | conversions and comparisons between integer types are by value; sequence numbers that wrap are ordered and unwrapped; filters and counters kept sample by sample are those of the samples |
| `units/`, `api/units/` | sums, differences, quotients and conversions with two infinities |
| `time_utils`, `system_wrappers`, `system_time` | calendar, NTP and wrapping timestamps stand for the right instant |
| `platform_thread`, `system/file_wrapper` | a thread or a file has one owner, which joins or closes it once |
| `win/windows_version`, `net_helpers` | registry keys are closed; the version, edition and families told are those of the answers of the system |
| `containers/flat_*` | a sorted vector acts as a map |
| `string_*`, `strings/`, `base64`, `byte_order` | what is written reads back; what cannot be read is refused |
| `ip_address`, `socket_address`, `win32` | text, order, classes and masks of addresses |
| `logging.h`, `checks.h`, `trace_event.h` arguments | a message says what was streamed into it |

### How they interact

A program thread calls `PostTask` of a queue, which locks the queue's mutex,
appends, and wakes the worker: through an `Event` (stdlib), a pipe (libevent), or
`SocketServer::WakeUp` (`Thread`). The worker takes a task under the lock and runs
it outside; a running task may post to its own or another queue, or make a
`BlockingCall`, which posts a closure to the target and waits on the *caller's*
socket server. `AsyncResolver`, `RepeatingTask` and the safety flag are clients of
`TaskQueueBase::Current()`; the sockets signal through `sigslot` from inside
`PhysicalSocketServer::Wait`, and the slots may create and close sockets. The
call-session log is a sink of the logging that writes through a
`FileRotatingStream`.

## 2. Modules

| Module | What it models |
|---|---|
| `TaskQueueBase` | the contract of `api/task_queue/task_queue_base.h`: the abstract specification of a queue |
| `TaskQueueStdlib` | `task_queue_stdlib.cc`: posters, the worker and `Delete`, step by step |
| `TaskQueueLibevent` | `task_queue_libevent.cc` over an external pipe and event loop |
| `TaskQueueWin` | `task_queue_win.cc` over external timers, events and thread messages |
| `TaskQueueGcd` | `task_queue_gcd.cc` over an external libdispatch |
| `RepeatingTask` | `repeating_task.cc`, the safety flags and `SafeTask` |
| `AsyncResolver` | `async_resolver.cc`: owner, resolving thread, task queue |
| `EventContract` | the contract of `event.h`: atomic steps on a flag |
| `PosixEvent` | `event.cc` over a mutex and a condition variable with spurious wakeups |
| `RtcThread` | one `rtc::Thread`: queues, `Get`, `ProcessMessages`, start, quit, restart, destruction, over a `NullSocketServer` |
| `RtcBlockingCall` | several `rtc::Thread`s that post to and call each other; the send graph |
| `ThreadManager` | the list of threads, what is current, wrapping, `AutoThread`, `AutoSocketServerThread`, `ProcessAllMessageQueues` |
| `ThreadPolicies` | what a thread allows itself to call, and counts |
| `SequenceChecker` | attachment and `Detach` on threads, task queues and dispatch queues |
| `PhysicalSocketServer` | the POSIX server: select, epoll and poll, the `Signaler`, the sockets' states and their slots |
| `WinSockets` | the Windows server and its `SocketDispatcher` |
| `Sigslot`, `Sigslot2` | the two signal libraries |
| `RecursiveCriticalSection`, `RefCounting` | the Mac lock; counters and `scoped_refptr` |
| `Logging` | severities read without the lock, sinks that come and go |
| `Messages` | how a value streamed into `RTC_LOG` or `RTC_CHECK` gets into the line, and the pieces of a long line; arguments, ids and categories of the trace macros |
| `EventTracer`, `TraceScopes` | the internal tracer; the scopes of the trace macros |
| `FileRotatingStream` | `file_rotating_stream.cc` over a directory whose operations may fail |
| `SystemTime` | the Windows clock read by several threads |
| `Numbers`, `Statistics` | `units/`, the integers of `numerics/`, dates, NTP times and timestamps that wrap; the filters, counters and averages of samples |
| `Platform` | `PlatformThread` and `FileWrapper`, which own and are moved; the registry, the version of Windows and the race for its only `OSInfo`; the families of addresses |
| `FlatTree` | `flat_tree`, `flat_map` |
| `Strings`, `Addresses` | texts, JSON getters and bytes as text; addresses, and what the socket calls make of them, of options and of the system's answers on each platform |
| `MCCalls`, `MCPlatformQueues`, `MCFilesAndSockets`, `MCServices`, `MCSequential`, `MCSignals` | instances of several components for TLC; the others are checked as they are |
| `TaskQueueStdlibProofs`, `PlatformQueuesProofs`, `RtcBlockingCallProofs`, `RtcThreadProofs` | the TLAPS proofs about the module they extend |
| `ServicesProofs`, `ThreadManagerProofs` | the TLAPS proofs about six components of `MCServices`, and about `ThreadManager` with `ThreadPolicies` |
| `SignalsProofs`, `FilesAndSocketsProofs` | the TLAPS proofs about the two libraries of `MCSignals`; about the two servers and the rotating stream of `MCFilesAndSockets` |

**Granularity.** A critical section is one step, since nothing observes its
middle. A load or store of an atomic, a clock reading, a call on an event and
each call on the file system is a step of its own. Local variables of a function
that live across such a step are variables of the model (`tick_us`, `cmsNext`,
`batch`, ...). Tasks, threads and trace events are model values. Histories
(`fate`, `accepted`, `written`, ...) record what properties speak of and never
guard a step of the code; where a posted task must be new, `fate` bounds the
instance.

**State and code.** Variables have the names of the members or locals they
stand for (`pending_queue_`, `stop_`, `m_connected_slots`, ...); `pc`, `wpc`,
`ppc`, `opc`, `dpc`, `lpc` say where a thread is inside a function. Actions have
the names of the functions or of the part of one they cover; `map` in
`PROJECT.json` gives the lines. What has no state is an operator, with the
reference it is compared to beside it (`...Agree`).

**Data.** Integers have a width that is a parameter, and wrap or saturate where
the code does; real numbers are exact fractions; an address is the set of its one
bits; a text is a sequence of the few characters the code tells apart; a byte
written to a log is its number in the order of writing.

**Mutants.** A definition whose comment begins with `Mutant` is a version of the
definition after it with a plausible bug, and is used by no specification: each
property of a run has one that breaks it.

**Composition.** `TaskQueueStdlib` and `RtcThread` use an event as one atomic step;
`PosixEvent` implements `EventContract`, which is where that is justified. All four
queues implement `TaskQueueBase` (`ImplementsTaskQueueBase`,
`OthersImplementTaskQueueBase`), so that a client may be modelled over the contract, as
`AsyncResolver` and `RepeatingTask` are. `MCServices`, `MCSequential`,
`MCPlatformQueues`, `MCFilesAndSockets`, `MCSignals` (which `MCSequential` extends) and
`MCCalls` (the calls and the event) put several components side by side in one instance:
the variable `subject` chooses at the start which one a behaviour is about, and only
that one takes steps. They are not products; they keep the number of instances small.

## 3. Runs

| Run | Instance | What it shows |
|---|---|---|
| `call` | two `rtc::Thread`s, one of which may quit and be destroyed, a caller that is no `rtc::Thread`, two jobs, with and without `RTC_DCHECK_IS_ON` | `NoLostWakeup`, `CallerStays`, `NoCyclicWait`; a call returns (`CallReturns`) unless a thread quits or threads wait in a circle. The event: three threads, auto or manual reset, timeouts 1, 2 and forever for both phases: `ImplementsEvent`; a signal does not stay beside a waiter and a timed wait returns (`WaitsEnd`) |
| `services` | ten subjects, below | each component of the inventory that runs concurrently and is no queue, event, signal library, socket server or file |
| `stdlib` | three tasks, one posting thread and the worker, delay 1 us with 2 us per ms | `NoLostWakeup`, `NoOvertaking`, `ImplementsTaskQueueBase`; every accepted task settles and `Delete` returns |
| `platform_queues` | libevent: three tasks, two posting threads, delays 0 and 2, a pipe of 2 bytes; Windows and libdispatch: two tasks, one posting thread, delays 0 to 2, a thread queue of 3 messages | `OneWakeByte`, `NeverSleepsPastWork`, both refinements of `TaskQueueBase`; liveness of libevent's |
| `thread` | two tasks, one posting thread, `ProcessMessages` with a timeout of 2 or none, delay 1, two starts | `NoLostWakeUp`, `StartsInOrder`; accepted tasks run and `Stop` returns |
| `files_and_sockets` | two sockets opened up to three times on two descriptors, four (POSIX) or five (Windows) calls; a plain stream of 3 files of 2 bytes, sessions of 8 and of 12 bytes, 14 bytes written 5 at a time, two openings | `EpollFollowsEnabled`, `EventsOfTheSameSocket`; events are told, `WakeUp` ends the wait (`EventsAreTold`); `ReadsInOrder`, `LogIsKept` |
| `sequential` | a map of three keys; two thread objects, the temporary and two threads; two file wrappers and three files; three callers of `GetInstance` that ask twice; four samples; and every input of a small width for the pure functions | `ActsAsMap`, `PlatformIsGivenBack`, `NumbersAgree`, `ConversionsAgree` |
| | and the signals. `sigslot2`: two threads, three kinds of connection, one receiver and none, five calls; `sigslot`: two signals, two receivers, three connections, slots two deep | `DeadLeaveNoTrace`, `SlotsCalledAsDue`, and a call returns (`CallsReturn`) unless mutexes are waited for in a circle; `SlotsCalledRight` |
| `win_leak`, `tracer_stop`, `system_time`, `resolver_destroyed`, `signal_erased` | two tasks; three events and two captures; two threads over one wrap of 5 bits; one resolution; `sigslot2` as above | violations, see 6 |

The subjects of `services`: a resolver with two resolutions, which its owner or another
thread destroys (`ResolverSettles`); a repeating task with a `SafeTask` beside it and
time up to 5 (`RepeatsOnSchedule`); the Mac lock with three threads and two holds each,
and a sequence checker on two threads and two task queues (`AccessIsExclusive`); three
pointers of two threads to two objects (`ReferencesAreCounted`); the `ThreadManager`
with two threads of the program and two of the library, one of the two flushing all
queues while the other stops, joins and deletes (`EarlierMessagesDispatched`, and with
the policies of a thread `ThreadsAgree`); two logging threads and two sinks
(`LogsReachSinks`); the tracer with two events, two threads and two captures
(`WorkIsFinished`) and, with the scopes of two call sites, `CaptureIsClean`.

Deadlock is not checked: every instance ends by itself (the queue is deleted, the
tasks, calls or openings are used up). That waits end is said by the liveness
properties instead.
No symmetry is used.

### Why the bounds are enough

*Queues.* Three tasks and two actors that post make every pair of posts race with
each other and with the step of the worker between its decision and its sleep;
the third task runs while the other two are queued, and posts from inside. The
order rules relate two tasks at a time. *Time*: the clock may stand or advance at
every step, up to a bound, and beyond it only while something waits for it; the
delays are on either side of the rounding (1 us is less than a model millisecond
of 2 us) and of the bound. *The pipe* holds one byte more than is ever needed, so
that a second write would be seen. *Event*: one thread that sets and two that
wait is where a broadcast and an auto-reset can go wrong; all waits begin at
instant 0 and differ in their two timeouts, which gives every order of the
instants at which phases end. *Blocking calls*: two threads that call each other
are the smallest circle, and with two jobs each may be in a call while the other
quits; for more threads there are the theorems. *Rotation*: 14 bytes are one or more
rotations beyond those the sessions need to reach their final rotation index; two
openings give a restart onto files of an earlier log. *Sockets*: two sockets, so
that the slot of one closes and reopens the other on the same descriptor while
its event waits in the batch; the third opening is the one an old event could
reach. *Signals*: three connections give one before, at and behind the iterator
of an emission. *Lock*: a holder, one that is being woken, one that spins.
*Pure functions*: the widths are small (2 to 12 bits) and every input of them is
tried, so that both ends of every range, every wrap and every exact half occur;
texts are all those of up to five characters out of the ones the code tells apart.

### Fairness

Weak fairness of each thread that can run, that is of the actions that continue
what it has begun, and of the clock: the operating system schedules runnable
threads and time passes. Never of a call the program may or may not make
(posting, starting, quitting, tracing, deleting). Running tasks are assumed to
return. `PosixEvent` needs strong fairness of `TimeOut`: a waiter that is woken
for no reason again and again still sees `ETIMEDOUT` once its instant has passed.
The loop of a socket server is fair; what peers send is not. The resolver's
thread and task queue are fair, its owner is not. The logging thread of the tracer
is fair, its owner only within a call it has made, and the threads that trace are
not. The flush of all queues is fair, and so is every thread that is run by someone:
the loops of the library's threads, and the thread of the program that flushes, which
processes its own messages meanwhile.

## 4. Properties, by component

Each invariant is about two pieces of state that different steps change.

* **queues** `NoLostWakeup`: while the worker sleeps with its event clear and no
  notifier on its way, nothing is pending, no quit was requested, and the sleep ends no
  later than the first delayed task. `NoOvertaking` relates a start to the order and
  times of posting. `OneWakeByte`: the byte in the pipe, the writer about to write and
  the reader about to take the vector are together one exactly when the vector is not
  empty. `NeverSleepsPastWork`: the Windows timer is never set later than the first task
  of `timer_tasks_` and its event is set while `pending_` holds one (what travels in a
  thread message is not covered), libevent's byte always fits and its timers live until
  they fire. `ImplementsTaskQueueBase`, `OthersImplementTaskQueueBase`,
  `EveryTaskSettles`.
* **thread** `NoLostWakeUp`, `StartsInOrder`, `EveryTaskSettles`.
  `EarlierMessagesDispatched`: what was posted before `ProcessAllMessageQueues` was
  run or dropped when it returns (that it returns is part of `WorkIsFinished`,
  below). `ThreadsAgree`: the current thread, the current
  task queue and what is on the stack agree, and policies hold.
* **blocking call** `CallerStays`: a caller does not leave while its functor, which
  is on its stack, is queued or runs. `NoLostWakeup`: a wakeup taken while waiting
  for a reply is given back. `NoCyclicWait`, `CallReturns`.
* **event** `ImplementsEvent`, `WaitsEnd`.
* **sockets** `EpollFollowsEnabled`: what epoll watches is what the socket has
  enabled once the batch of changes is over. `EventsOfTheSameSocket`: a batch is not
  given to a socket that was opened after the batch was read. That is not so in two
  cases, which the property leaves out: the POSIX `OnEvent` tells the flags of one event
  one after the other without a look at the socket, so the slot of the first may open
  another connection that the next is told to; and on Windows an accepted socket keeps
  the id 0 that it shares with the next accepted one. `EventsAreTold`.
* **signals** `SlotsCalledRight`: an emission calls what was connected before and
  stays, once, and nothing that is gone. `SlotsCalledAsDue`, `DeadLeaveNoTrace`,
  `CallsReturn` say it for `sigslot2`; the first also says which calls may take a
  connection out of the list while its slot is called, posted or waited for: only one
  that this slot itself makes or ends in, and only in a build with recursive mutexes.
* **services** `ResolverSettles`: a destroyed resolver is not used and does not signal,
  any other does signal. Not covered: a `Destroy` on another thread that meets the
  handling of a result (`resolver_destroyed`, section 6). `RepeatsOnSchedule`,
  `ReferencesAreCounted`, `AccessIsExclusive`, `LogsReachSinks`: a sink that was there
  before a statement and after it has it, one that is removed does not get it later.
  `CaptureIsClean`: a capture's file holds what was traced during it and, of each
  thread, at most the one event it had in its hand when the capture began.
  `WorkIsFinished`: what was traced while the logging thread runs is written, a `Stop`
  that waits for it returns, and so does a flush of all queues, unless a marker stays
  with a thread that nobody runs.
* **rotating stream** `ReadsInOrder`: what is on disk reads back in the order of
  writing, whatever fails and wherever the process ends. `LogIsKept`: the beginning
  and the end of a session survive and the files keep to their sizes.
* **one thread** `NumbersAgree` (with the statistics), `ConversionsAgree`, `ActsAsMap`:
  the code's result is that of a reference definition.
* **what the system lends** `PlatformIsGivenBack`: whatever objects are moved, assigned
  to themselves or die, a thread is joined once and after its end and a file is closed
  once, unless the program took it; every registry key that was opened is closed; all
  callers of `OSInfo::GetInstance` get the one object that stays.

## 5. Proofs

TLAPS proves these for every value of the constants (any number of threads,
tasks, jobs or files, any widths and delays); the runs above find no
counterexample on a small instance first.

| Module | Theorem | What it says |
|---|---|---|
| `TaskQueueStdlibProofs` | `TypeCorrect` | every reachable state is well typed |
| | `WakeupNotLost` | `NoLostWakeup` of the standard-library queue |
| | `QueuesAgree` | the queues and the record of what was posted agree |
| | `NothingOvertakes` | `NoOvertaking`: an action property of every start |
| | `ContractIsKept` | `ImplementsTaskQueueBase`: the refinement |
| `PlatformQueuesProofs` | `TypeCorrect` | every reachable state of the libevent queue is well typed |
| | `WakeByteExact` | `OneWakeByte` of the libevent queue |
| | `WorkIsNoticed` | `NeverSleepsPastWork`: timers and event of the Windows queue, pipe and timers of libevent's |
| | `ContractIsKept` | `ImplementsTaskQueueBase`: libevent's queue refines the contract |
| | `OthersKeepContract` | `OthersImplementTaskQueueBase`: so do those of Windows and libdispatch |
| `RtcThreadProofs` | `TypeCorrect` | every reachable state is well typed |
| | `WakeUpNotLost` | `NoLostWakeUp` of `rtc::Thread` |
| | `QueuesAgree` | the messages, the delayed messages and the record of what was accepted agree |
| | `StartsAreInOrder` | `StartsInOrder`: an action property of every start |
| `RtcBlockingCallProofs` | `TypeCorrect` | every reachable state is well typed |
| | `SendGraphAcyclic` | the graph of who calls whom never has a cycle |
| | `NobodyWaitsInACircle` | `NoCyclicWait`: with `RTC_DCHECK_IS_ON` no set of threads waits for each other |
| | `CallersStay` | `CallerStays`: a caller is still in the call while its functor is queued or runs |
| | `WakeupsKept` | `NoLostWakeup` on the event that posts, replies and `Quit` share |
| | `EventKeepsItsContract` | `ImplementsEvent`: `rtc::Event` on POSIX is the atomic event that callers rely on |
| `ServicesProofs` | `LockExcludes` | at most one thread is inside the Mac lock, and nobody who waits for it is forgotten |
| | `AccessExcludes` | `AccessIsExclusive`: the lock, and the places a sequence checker accepts |
| | `ReferencesCounted` | `ReferencesAreCounted`: counts, references and deletions |
| | `CaptureStaysClean` | `CaptureIsClean`: the tracer's captures and the scopes of the trace macros |
| | `SinksAreReached` | `LogsReachSinks`: statements, sinks and severities |
| `ThreadManagerProofs` | `ThreadsKeepAgreeing` | `ThreadsAgree`: what is current, and the policies of a thread |
| | `EarlierAreDispatched` | `EarlierMessagesDispatched`: an action property of the end of a flush, whoever stops or ends meanwhile |
| `SignalsProofs` | `SignalsCallSlotsRight` | `SlotsCalledRight`: both ends of a `sigslot` connection agree, and an emission is complete |
| | `TheDeadLeaveNoTrace` | `DeadLeaveNoTrace`: a dead receiver of `sigslot2` has no connection left |
| | `SlotsAreCalledAsDue` | `SlotsCalledAsDue`: a single shot once, the dead never, every slot an emission owes, and who takes a connection in use away |
| | `BothCallSlotsRight` | the three, in runs where one library at a time takes steps |
| `FilesAndSocketsProofs` | `EpollIsTold` | `EpollFollowsEnabled`: what epoll watches is what the sockets have enabled |
| | `EventsReachTheirSocket` | `EventsOfTheSameSocket`: an action property of every step of either server |
| | `TypeCorrect` | every reachable state of the rotating stream is well typed |
| | `ReadBackInOrder` | `ReadsInOrder`: whatever call fails and wherever the process ends |
| | `BothEndsAreKept` | `LogIsKept`: the beginning and the end of the log are on disk, within its size |

Each safety theorem has the same form: a strengthening holds initially, every
action keeps it (one lemma or step per action), and it implies the property.
Why each strengthening is what it is:

* **`WakeupNotLost`.** The property speaks of the sleeping worker only, so it says
  nothing about the moment a task is posted between the worker's decision to sleep
  and its sleep. The invariant adds those steps: from the decision on, what is
  pending but was not seen comes with a notifier that has not been spent, and the
  length of the sleep is no more than the time to the first delayed task.
* **`WakeByteExact`.** A byte that is read belongs to a vector that has not been
  taken yet, a writer stands for the first element of the vector, and nothing is
  posted from outside once `Delete` has begun (the contract of `Delete`).
* **`WorkIsNoticed`.** Windows: what is pending came with `in_queue_` set by whoever
  pushed it, and the worker resets the event before it takes the queue. After a delayed
  task is added, and after due ones are run, `ScheduleNextTimer` sets a timer to the
  first due time, which is the least of finitely many; a message of the old timer may be
  on its way and does no harm. libevent: `kQuit` is written once, so beside the one wake
  byte the pipe holds at most one other; a closure is in one vector, one timer or one
  call, so a timer in the list has a task that is still to run.
* **`ContractIsKept`, `OthersKeepContract` (platform queues).** The abstract queue is
  the pending tasks of each: of Windows the pending queue as it is, of libevent the
  immediate ones of its batch and vector, of libdispatch those whose blocks it holds.
  libevent's are a sequence filtered by the kind of task (`Only`), so the proof rests on
  lemmas about what such a filter does to an `Append`, a `Tail` and a concatenation. The
  invariant is that a task is in one place and there once, that a delayed one gets there
  no earlier than it was due, and how far `Delete` has come. On Windows a delayed task
  travels as a thread message, and the system refuses messages beyond a quota
  (`WinQuota`, 10,000 on a real system); `PostDelayedTask` then deletes the task it
  could not post and says nothing (`task_queue_win.cc:235-239`), so the theorem assumes
  fewer tasks than that. A lemma then shows there is always room: the messages under way
  are of different tasks, and the quit message beside them is one.
* **`SendGraphAcyclic`, `NobodyWaitsInACircle`.** A new edge from source to target
  is added only if the source is in no set that contains the target and is closed
  under edges. Were there a cycle afterwards, cutting the new edge out of it would
  leave a path from target to source. Edges are added before the caller waits and
  removed after it, so every waiting thread is registered, and a circle of waiting
  threads would be a cycle of the graph.
* **`CallersStay`.** Each job belongs to one call; how far the call has got (`pc`)
  and what has become of the job (`fate`) go together; `ready` is set only when the
  functor is over; a job is in at most one queue, once, and then it is `queued`.
* **`WakeupsKept`.** Only a thread itself clears its event, and then it looks again
  (`Awake`); whatever it may find was put there by someone who is about to set its
  event or has; and who waits in a call gives back the wakeup it used up.
* **`QueuesAgree`, `NothingOvertakes` (standard library).** A start is in order
  because of how the queues came about, so the invariant says it of the queues: both
  are in the order of `thread_posting_order_`, which counts each entry once, their
  entries are tasks of their kind with the times the callers asked for, and a task is
  in one call, one queue or the worker's hands. An order counter below every entry
  that is still to come is what makes the merge in `GetNextTask` right.
* **`ContractIsKept`.** The abstract queue of `TaskQueueBase` is the sequence of tasks
  in `pending_queue_`, the set of those in `delayed_queue_`, and the stage of `Delete`.
  With the invariant above, each of the seventeen kinds of step is mapped: posting and
  starting are steps of the contract, what happens to events, clocks and local
  variables is a stutter, and the end of the loop is the destruction of what is left.
* **`WakeUpNotLost` (thread).** As above, for the steps of `Get`: between the look at
  the queue and the wait, whoever adds a message or sets `stop_` is about to wake the
  thread; the wait is no longer than to the first delayed message.
* **`StartsAreInOrder` (thread).** Delayed messages get numbers in the order of posting
  and are moved to `messages_` in the order of (time, number) when they are due; the
  invariant says of any two messages that wait in that order that the first may start
  before the second.
* **`EventKeepsItsContract`.** `Block`, `SpuriousWakeup`, `TimeOut` and `Warn` change
  nothing of the contract, the other steps are one of its steps each. The invariant is
  that a wait of the system that has timed out had an instant, which has come; after
  `Warn` that instant is the end of the whole `Wait`, so it does not end early.
* **`LockExcludes`.** A thread *carries* the lock from winning it until it has let
  go or woken the next; a count of the semaphore is a lock nobody carries at the
  moment; there is never more than one of both together. `lock_queue_` counts the
  holds of the carrier and the threads that wait. The assumption is that the value
  for "nobody" is not a thread.
* **`ReferencesCounted`.** Who holds an object is a finite set of three kinds: pointers
  that are not hidden by an assignment about to change them, assignments under way, and
  callers of `release()`. Each step of `IncRef` adds one holder and each of `DecRef`
  takes one away, so the count is its size; the step that reads one is the only one to
  delete. Threads work on pointers of their own, which is what `scoped_refptr` asks.
* **`CaptureStaysClean`.** An event is in the hands of one tracing thread, in the vector,
  in the batch of the logging thread or in the file, in one of them only and once; from
  the moment a capture has cleared the vector until its thread has ended, what is in the
  vector and the batch was pushed in it, and looked at the flag in it unless a thread had
  it in its hand at that moment. For the scopes: what was recorded was let
  through, and a site once let through stays so.
* **`SinksAreReached`.** The macros read without the mutex, so the values a thread may
  see are those from the last one it knows of. The invariant says what the mutex passes
  on: its holder knows the last `g_min_sev` and `streams_empty_`; who knows of a sink
  can read nothing but "not empty"; the last level for debug is known to the mutex or to
  a thread about to update. That `g_min_sev` is not too high for a sink somebody knows
  of follows from it, and so does that a statement owes nothing when it returns.
* **`ThreadsKeepAgreeing`.** A thread is current at one place at most, where it is
  registered as the task queue in place of none; it is alive, in the list once, and on
  the program's stack or wrapped or started. A thread that an `AutoSocketServerThread`
  hides lies below it on the same stack or is wrapped there, so nothing ends it and it
  is put back as it was; no two hide the same one. The policies: `blocking_calls_allowed_`
  says whether a scope around it forbids, and so does what each scope remembers.
* **`EpollIsTold`, `EventsReachTheirSocket`.** The table of dispatchers: a socket is in it
  exactly when it has a descriptor, which no other has, under a key that is never given
  out again. What epoll watches for a socket is what is enabled, or, while its slots run,
  what was enabled before them; `Close` forgets that, so a descriptor opened by a later
  slot starts from nothing. An entry of a batch names its key: the key is gone, or its
  socket still has the file the entry was seen on. On Windows a socket's id is that of its
  handle, the end it remembers is that of its connection or none, and the event under way
  keeps the id of the handle it was seen on, which every slot but that of `DE_READ` is
  checked against. What an accepted socket, whose id is 0, may still be told is in the
  theorem as in the property: the rest of the event after it was closed, and the end of
  its connection.
* **`SignalsCallSlotsRight`.** The connections of a signal are in the order of their
  numbers, so "before" and "behind the iterator" are comparisons. What an emission has
  called lies before its iterator; what was connected when it began and stays was called
  or still lies at or behind it; what its slots connect has a higher number than all of
  that. An emission nothing has disturbed is the only one of its signal from its place on
  the stack upwards, so the iterator the signal keeps is its own. A receiver knows every
  signal that is connected to it unless it was connected to one twice, which is the case
  the code gets wrong (section 6).
* **`TheDeadLeaveNoTrace`, `SlotsAreCalledAsDue`.** The depth of a signal's mutex is the
  number of its owner's calls that hold it, and nobody else's call holds it; so a list
  changes under an emission only through the slots it runs itself. Who waits for the
  `rtc::Thread` has one task in its queue or its call running there, not both. A
  receiver that has a connection knows the signal, is about to be told of it, was made
  to forget it by a `disconnect` that left another connection, or is about to take its
  connections away: its destructor cannot be done. The iterator stands in the list
  unless all is being disconnected, and what the emission owes lies at or behind it as
  long as it is the only one. A single shot that was called or posted is about to be
  marked, is marked, or is out of the list, and a marked one is not called. A connection
  is taken away only by a call on the top of a stack that holds the signal's mutex; the
  call whose slot is running holds it too, so with plain mutexes there is none, and with
  recursive ones it is of the same thread and above.
* **`ReadBackInOrder`.** Every rename and deletion moves files so that their order
  by index stays the order of writing; the current file is closed while its name is
  given away; the rotation index of a call-session log is lowered once.
* **`BothEndsAreKept`.** While the current file is open, the *n* next files hold the
  *n* times `max_file_size_` bytes before it, as far as so much was written; in the
  middle of a rotation the same holds of the files without the index that is being
  freed. The first file of a call session is the current one until its rotation, and
  then at the index the rotations leave alone. One file at most has the size of the
  first, the others that of the rotated ones; an index holds one file whatever renames
  fail, and so the sizes of all indices, added up, bound the log.
* **`EarlierAreDispatched`.** A queue holds one marker at most, what the flush waits for
  in it is before that marker, and a queue still to be asked holds none. The count of
  open queues is that of the markers, and one for the marker about to be posted;
  whatever takes a marker away, dispatch (also by a thread that is told to stop, which
  hands out what is ready before it looks at `stop_`) or destruction of its thread, lowers
  it. At
  zero there is no marker, and so nothing before one.

The proofs of the services, signals, sockets and files are about each component's own
specification; lemmas named `...Run` or `...Runs` and the last section of `ServicesProofs`,
`ThreadManagerProofs` and `SignalsProofs` show that `MCServices`, `MCFilesAndSockets` and
`MCSignals`, in which one component at a time takes steps, run each as it is specified.

Constants are assumed to be what the code makes them: delays natural numbers, threads
apart from the worker, at least two files to rotate, and so on (`...Assumption` in the
modules; TLC evaluates each with the values of the runs). That libevent's pipe holds at
least two bytes is one of them: `kQuit` may be in it when a task wakes the loop.
`ServicesAssumption` says that what stands for nobody or nothing is no thread, object or
pointer, that each pointer belongs to one thread, that the main threads are not those
the library starts, and that `None` is a number at or above the default severity.
`SigslotAssumption` says the same of nobody, no receiver and no connection, and that
connections are numbered; `PlainAssumption`, that a signal is no receiver.
`FilesAssumption` is `RotatingAssumption` of the instance of the rotating stream. Two
unnamed facts about programs are in the models and so in the theorems: nobody posts to a
queue after `Delete` except its own tasks, and a task returns.

**Only model-checked**, and why:

* liveness (`EveryTaskSettles`, `CallReturns`, `WaitsEnd`, `EventsAreTold`,
  `WorkIsFinished`, `ResolverSettles`, `RepeatsOnSchedule`, `CallsReturn`), since the
  prover has no rules for fairness and `ENABLED`;
* the pure functions (`NumbersAgree`, `ConversionsAgree`, `ActsAsMap`, and those in
  `PlatformIsGivenBack`), which are compared with their references on every small input:
  what a fold over data computes for every input is not provable here, as the library's
  induction theorems have operators as parameters;
* the ownership of threads, files and the one `OSInfo` in `PlatformIsGivenBack`, which
  stands in one property, and one module, with such functions.

## 6. Where the code and its documents disagree

Five runs expect a violation; `findings` in `PROJECT.json` quotes both sides.

* `win_leak` (`task_queue_win.cc:228`): a task that posts a delayed task after
  `Delete` has posted `WM_QUIT` leaves it behind that message, and nothing deletes it.
* `tracer_stop` (`event_tracer.cc:217`): `Stop` returns early exactly when it is the
  one that ended a capture, so the thread is not joined and the file stays open.
* `system_time` (`system_time.cc:82`): a thread held up between reading the clock and
  exchanging it makes a second wrap out of one, 49 days ahead for good.
* `resolver_destroyed` (`async_resolver.cc:173`): the posted task looks at the status
  under the mutex and calls `ResolveDone` without it; a `Destroy` on another thread,
  which the header allows, may delete the resolver in between. `ResolverSettles` is
  stated for all other placements of `Destroy` (`met` marks this one).
* `signal_erased` (`sigslot2.hpp:873`): `emit` keeps a reference into a node of the
  list while it calls the slot and uses it afterwards; a slot that disconnects its own
  connection, or ends the last use of its receiver, has freed the node by then. The
  model goes on as if what is written there had no effect; `SlotsCalledAsDue` says that
  nothing else takes a connection in use away.

Two properties are stated in their modules and checked by no run of this project;
TLC refutes both. `ReadyPostsDelivered` in `RtcThread`: `thread.h:252-257` says that
ready posts are delivered before `Get` returns false, but `Get` looks at `stop_` once
it has found nothing ready (`thread.cc:452`), and a task posted in between, before
`Quit`, stays in the queue. `WritesToOpenFile` in `FileRotatingStream`: a rotation that
cannot open its new file leaves a stream whose loop writes to a closed one, where
`FileWrapper::Write` asserts (`RTC_DCHECK(file_)`) that there is a file.

Smaller things met on the way. The models do what the code does; the reference
definitions take these cases out or say so.

* *Numbers and statistics.* `MovingAverage` divides a signed sum by an unsigned
  size, so a negative average is not "rounded down" (`moving_average.h`).
  `HistogramPercentileCounter::Add(other)` walks its own high histogram
  (`histogram_percentile_counter.cc:32`). `RunningStatistics::RemoveSample` of the
  last sample divides by zero. `EventBasedExponentialMovingAverage` gives an old
  value more weight the longer ago it was, its comment less (`.cc:27-29`).
  `EventRateCounter::IsEmpty` is about durations, and true with one event. `ExpFilter`
  starts anew when its value is exactly -1.
* *Addresses.* `FromString` accepts "[..." without the closing bracket and changes
  nothing; `inet_pton_v4` accepts a trailing dot, `inet_pton_v6` a leading single
  colon; `CountIPMaskBits` counts to the last one bit; `0.0.0.0:80` read from text
  differs from the same address built from its parts.
* *Strings.* `GetUIntFromJson` accepts "-1" where `long` has 32 bits; the getters of numbers
  read a JSON text up to its first NUL and accept whatever follows, which
  `string_to_number.cc` takes care to refuse; a number may
  have spaces or a plus in front; a getter writes its output even when it fails, and
  `JsonArrayToVector` keeps what it had converted.
* *Messages.* An operand of a check that holds a NUL is cut there; a null
  `const char*` prints "(null)" in a log and is undefined in a check; the number of
  pieces announced for an Android line of an exact multiple is one too large.
* *Signals.* A receiver connected twice to a `sigslot` signal forgets the signal at
  the first `disconnect`; an emission inside an emission ends the outer one; what
  the last slot connects is not called. In a build of `sigslot2` without recursive
  mutexes a slot that calls the signal again waits for itself, which `CallsReturn` exempts
  with every other circle.
* *Logging and traces.* A sink that logs from `OnLogMessage` waits for a lock it
  holds; a sink added twice makes the list a circle. A category asked for before
  `SetupEventTracer` stays off for good. A scope open when a capture starts gives an
  end without a beginning. An event whose thread is between its look at the flag and
  the push when a new capture clears the vector is written to the new capture, although
  `event_tracer.cc:195-199` clears "to not log events from a previous logging session";
  no run shows it, `CaptureIsClean` names it as its exception (`heldOver`). The internal
  tracer ignores ids and copy flags.
* *Sockets.* A slot that closes and reopens its socket in the middle of an event lets
  the rest of the event reach the new connection: always on POSIX, whose `OnEvent`
  (`physical_socket_server.cc:902-943`) does not look, on Windows for accepted sockets,
  which all have the id 0 (`697-703`, `1193-1196`). A `Close` while its address is being
  resolved keeps the resolver (`physical_socket_server.cc:556`); the DSCP of an accepted
  IPv6 socket is set with the IPv4 option, since `family_` is 0; an empty datagram reads
  as the end of the connection. On Windows what a `CheckSignalClose` slot enables on a
  socket already asked in the same pass is seen in the next pass.
* *Windows.* `PRODUCT_PROFESSIONAL_N` is no case of `OSInfo`'s switch and counts as
  `SUITE_HOME` (`windows_version.cc`).
* *Other.* A call-session stream that is opened again keeps its lowered rotation
  index and sizes. On a Mac a `SequenceChecker` accepts another dispatch queue on the
  thread it is attached to; the Mac lock is compiled out by default.

## 7. Not modelled

* External, taken as what the code relies on: libevent, libdispatch, POSIX threads,
  the file system, `getaddrinfo`, the kernels' socket calls, Windows' timers, messages
  and kernel events. Their steps are in the map as external where the code waits for
  them.
* `mutex` and the Windows `Event`: wrappers of what the system provides. A lock is a step
  that only happens when the lock is free.
* Of `PlatformThread` `QueueAPC` and stack sizes, of `FileWrapper` reading, writing and
  positions, and the names Windows gives its processors.
* Names and priorities of threads and the warnings about slow dispatches, which change
  no state that is read.
* One `scoped_refptr` that two threads use: only the counts are atomic, not the pointer;
  in `RefCounting` each pointer belongs to one thread.
* More than one flush of all queues at a time; a `PostTask` that has looked at
  `IsQuitting` and not pushed yet is modelled in `RtcThread`, in `ThreadManager` for the
  markers only.
* When buffered bytes reach the disk: what `Write` has handed over counts as on disk in
  `FileRotatingStream`. That libdispatch frees the context (`freed` in `TaskQueueGcd`)
  after the last block is in the model and in no property.
* The output of the log on each platform's console, the wording of formatted
  numbers, and the JSON parser, which is a library.
* `sigslot` with the policies that lock (the default, `single_threaded`, is
  modelled); the cloning of receivers in `sigslot2`.
* The table of `trace_event.h` that turns the
  macros off; errors of `fclose`; the wrap of the 32-bit counter of posted delayed
  messages, which takes four billion posts that are still queued.
* The demo program, whose calls are among those the models allow, and tests.

## 8. What could follow

`RtcThread` over the model of the socket server in place of a `NullSocketServer`; the
cloning of `sigslot2`'s receivers; the ownership in `Platform` split into a module of its
own and proved.
