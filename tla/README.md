# GyrOS in TLA+

GyrOS is a small preemptive kernel for single-processor ARM microcontrollers
(C, with a few lines of assembler per port). These modules model its scheduler,
its task services, its synchronisation objects, its timers, its memory pools and
its trace log, check them with TLC on small instances, and prove the central
invariants and refinements with TLAPS for
any number of tasks. Paths below are relative to `src/`, the repository.

## 1. Inventory

### How the system works

The whole kernel works on one structure, `_gyros` (`src/task.c:42`: the current
task, the list of running tasks, the lists of timeouts and timers), and on the
`gyros_task_t` of each task (`include/gyros/task.h:98`: a node for the running
or a wait list, a node for the timeout list, a timeout, two priorities, a list
of joiners). Nearly every service disables interrupts around its work, so a service,
or each part of one that blocks, is atomic. The exceptions are the fast paths of the
mutex (an exclusive load and store), the two halves of `gyros_free`, the tests with
which `gyros_trace_off` and `gyros_trace_string` begin, and `gyros_trace_clear`, which
goes through the log with interrupts enabled: these are several steps in the models.
What interleaves are the services of different tasks, interrupt handlers, the timer interrupt and the context
switch, which on Cortex-M is itself an interrupt (PendSV) that
`gyros__reschedule` only requests: the caller goes on until it enables
interrupts again.

A service blocks by moving the current task from the running list to the list
of an object (`gyros__task_move`), perhaps after linking it in the timeout list
(`gyros__task_set_timeout`), and requesting a switch. Somebody else moves it
back (`gyros__task_wake`, which also takes it off the timeout list), or the
timer interrupt does (`gyros__tick`, which also sets `timed_out`). When the task
is current again it goes on after `gyros_interrupt_restore`, and must look at
the object again, because others may have run before it.

### Components

| Component | State | Operations | Hard behaviours | What makes it correct |
|---|---|---|---|---|
| Scheduler core (`src/task.c`) | running list, `current`, `main_list`, priorities, pending switch | insert, suspend, move, wake, set priority, reschedule | tasks become runnable from interrupt handlers, while a switch is pending, while the current task is leaving | every task in one list, lists ordered, the highest runnable task executes, turns among equals |
| Task services (`src/{task,suspend,priority,yield,join,delete}.c`) | joiner lists, `joinable` | create, exit, delete, suspend, resume, set priority, yield, join | joins, exits and deletions in every order; joins with a timeout | nobody waits for a finished task; results tell what happened |
| Sleep and timeouts (`src/sleep.c`, `src/timeout.c`) | timeout list, `timed_out`, clock | set timeout, tick, sleep | a wrapping clock; wake-ups racing timeouts | no timeout early, late or left over |
| Mutexes (`src/mutex.c`, `include/gyros/mutex.h`) | owner, wait list, inherited priority | try lock, lock, unlock, with an exclusive load/store fast path | steps between load and store; priority inheritance; two mutexes | exclusion, no lost wake-up, no priority inversion |
| Condition variables (`src/cond.c`) | wait list | wait, timed wait, signal one, signal all | a signal between unlock and wait; a timeout while the mutex is being locked again | no lost signal, the mutex is locked on return, results stand |
| Semaphores (`src/sem.c`) | value, wait list | try wait, wait, timed wait, signal | others take the unit a task was woken for | no unit is left while a task sleeps |
| Static message queues (`src/smq.c`) | ring, positions, one wait list | send, receive, timed receive | senders and receivers in one list; positions wrap | bounded FIFO, no message is left while a receiver sleeps |
| Reader/writer locks (`src/rwlock.c`) | writer, reader count, two wait lists | (try, timed) read and write lock, unlock | hand-over to a writer before it runs; timed-out writers that held readers back | exclusion, no lost wake-up |
| Event groups (`src/event_group.c`) | event set, wait list | get, timed get, set, clear | a set wakes everybody, each takes what matches | no event is left while a task sleeps for it |
| Message queues (`src/mq.c`) | linked list of messages, wait list | send, receive, timed receive | as for the static queue, unbounded | FIFO, no message left while a receiver sleeps |
| Software timers (`src/timer.c`, `src/timeout.c`) | timer list | start, stop, callbacks from `gyros__tick` | callbacks that start and stop timers during the walk | each fires once, not early, not after it was stopped |
| Tickless timer (`src/timeout.c`, `target/*/init*.c`) | compare register, counter, `s_last_counter` | `gyros__dyntick_update`, `gyros__dyntick_set`, `gyros_time` | a counter that wraps and passes the compare value | the clock is monotonic, no timeout is missed |
| Alarm clocks (`src/alarm_clock.c`) | alarm, wait list | wait, set, reset | setting an alarm retimes those that wait already | waiters wake at the alarm |
| Memory pools (`src/mempool.c`) | free lists, unused rest | try alloc, alloc, free | an interrupt between the two halves of a free | blocks never overlap, none is lost |
| Iteration (`src/iterate.c`) | list of tasks, mutex | iterate, with exit and delete | deletion during iteration | the iterator is never dangling |
| Trace (`src/trace.c`, `src/hooks.c`) | ring of entries | log, clear, seek, on, off, iterate | the context hook in the middle of a switch; a clear that is preempted at each entry; wrap of the ring | the newest entries in order; context entries tell the switches |
| Ports (`arch/`), targets (`target/`), hooks, error handler, debug aids | registers | context switch, interrupt entry, clocks, printing | machine level | see "Not modelled" |

How they interact: every object uses the scheduler core through `task_move`,
`task_wake`, `reschedule` and `cond_reschedule`, and its timed calls use
`task_set_timeout`; condition variables call the mutex functions; mutexes
change priorities of other tasks; task exit and deletion wake joiners; the timer
interrupt wakes the waiters of every object.

`PROJECT.json` lists the hazards: what is hard to test here, at its line, with
the properties that cover it.

## 2. Modules

| Module | Models | Extends |
|---|---|---|
| `GyrosList` | `private/list.h`: doubly linked lists as sequences | community modules |
| `GyrosKernel` | `_gyros`, the scheduling part of `gyros_task_t`, the internal functions of `task.c` and `timeout.c`, as operators from a kernel state to a kernel state | `GyrosList` |
| `TaskManagement` | the task services and sleep, one action per call and per return from a blocking call | `GyrosKernel` |
| `PriorityQueues` | abstract: one FIFO per priority | `GyrosList` |
| `TaskProperties` | properties of the task services, refinement of `PriorityQueues` | `TaskManagement` |
| `GyrosServices` | a started application: processor, timer, tasks that rest and are resumed | `GyrosKernel` |
| `RwLock` | `rwlock.c` | `GyrosServices` |
| `Mutex` | `mutex.c` and the fast path of `mutex.h`, `ldrex` and `strex` as separate steps | `GyrosServices` |
| `CondVar` | `cond.c`, composed with the mutexes | `Mutex` |
| `Semaphore` | `sem.c`, and its properties | `GyrosServices` |
| `StaticQueue` | `smq.c` | `GyrosServices` |
| `EventGroup` | `event_group.c` | `GyrosServices` |
| `MessageQueue` | `mq.c` | `GyrosServices` |
| `Iterate` | the list of all tasks and the mutex that `iterate.c`, task exit and task deletion share, and an application that uses it and other mutexes | `MutexProperties` |
| `Timers` | `timer.c`, `alarm_clock.c`, sleep, and `gyros__tick` with callbacks in the middle of it | `GyrosServices` |
| `TimerService` | abstract: each timer has a time at which it calls back | – |
| `TimerProperties` | properties of timers, alarms and sleep, refinement of `TimerService` | `Timers` |
| `DynTick` | `gyros__dyntick_update` and the tickless timer of four ports, one step per register access; has its own properties | – |
| `MemPool` | `mempool.c`; consistency of the pool, refinement of `Zones` | `GyrosList` |
| `Zones` | abstract: zones that do not overlap | – |
| `Trace` | `trace.c`, the context and interrupt hooks, and the switch they record; refinement of `TraceHistory`, entries against switches | `GyrosServices` |
| `TraceHistory` | abstract: the latest events, in order | – |
| `MessagingProperties` | an application that uses an event group and a message queue, and the properties of both | `EventGroup`, `MessageQueue` |
| `BoundedFifo` | abstract: a FIFO with a capacity | – |
| `MutexProperties`, `CondProperties`, `SmqProperties`, `RwProperties` | specification (fairness, client behaviour) and properties of one component each | the component |
| `MC*` | values of the constants for TLC | the properties |
| `*Proofs` | theorems | see section 5 |

### How state and actions correspond to the code

- `gyros` is a record: `current`, `lists`, `main_list`, `timeouts`, `timeout`,
  `timed_out`, `priority`, `base_priority` and `joinable` are the fields of the
  same name; `pendsv` is the PendSV bit, `now` the clock. A list is named by the
  structure its head is embedded in: `Running`, a task (its `joiner_list`), or
  an object (its `task_list`).
- An internal C function `f` is an operator `f(k, ...)` on a kernel state `k`;
  services apply those operators in the order in which the C code calls them.
  The loops that walk a list are recursive functions over a sequence.
- A call that does not block is one action. A call that blocks is one action up
  to `gyros__reschedule`, after which the task is not current, and one action
  after it, enabled when the task executes again. `pc` says in which call a
  task is. A loop such as `while (s->value == 0)` is one operator used by both.
- `Executing(t)` is "`t` is current and no switch is pending": on Cortex-M the
  pending PendSV comes in as soon as interrupts are enabled. Interrupt handlers
  do run while a switch is pending. On ARM ports the switch is made at once;
  the modules model the Cortex-M port. The difference reaches a service only where
  it reads state between `gyros__reschedule` and the end of the call, which
  `gyros_task_join_until` does (section 6).
- The variable `app` of `TaskManagement` is the application, one of `Applications`:
  how many task structures it has, and which functions its tasks and its interrupt
  handlers call. So one run covers several small applications.
- `ForgetTimeout` resets `timed_out` when a timed call has returned, and `timeout`
  unless the task is still in the timeout list. Neither is read again before the
  next such call sets it, so this only merges states that differ in dead values.
- In the modules of the synchronisation objects tasks exist already (`Started`:
  any order of creation that their priorities allow) and leave the processor
  by suspending themselves; an interrupt handler resumes them. Suspension of
  one task by another is the business of `TaskManagement`, exit and deletion
  among tasks that use a mutex that of `Iterate`.
- `CondProperties` adds a client: a flag guarded by the mutex, set by some tasks
  and waited for by others. `SmqProperties` adds a history variable,
  `sender_slept`.
- `Iterate`: a task that iterates, exits or deletes calls `gyros_mutex_lock` of
  module `Mutex` for `iterate_mutex`; `doing` says for what, and the step that
  follows (`IterateFirst`, `ExitFinish`, `DeleteFinish`) is enabled when the lock
  function has returned. In the code nothing else locks that mutex. In the model
  tasks lock and unlock it for themselves as well, so that the properties of
  mutexes and the one of the iteration are checked in one instance.
- `Timers`: the interrupt wakes the sleepers in one step and then takes timer
  after timer off the list (`gyros__tick_timer`); between that and the return of
  the callback (`CallbackReturn`) the actions of the application are those a
  callback can make. Nothing else runs before `TickEnd`. `Applications` lists
  which tasks, timers and alarms are used together, so that one run covers
  several small applications.
- `DynTick`: `time` is the counter of the chip, without its wrap; `Advance` lets
  it run on between any two register accesses, up to `Latency` ticks while
  interrupts are disabled (`spent`). The lists of the kernel are reduced to the
  sets of times in them. `rearms` chooses how the port forces an interrupt when
  compare has been passed: by pending it (STM32, LM3S, STR91x) or by setting
  compare two ticks ahead (AT91SAM7S).
- `MemPool`: `header` is the union in front of each block. `allocated` and
  `made_for` are history variables; the refinement maps the zones in use.
- `Trace`: `hook` says how far the context hook has got. On ARM ports interrupts
  are masked from the hook to the switch (`HookAtomic`); on Cortex-M they are
  not (`arch/armv7-m/pendsv.S:38-45`). `gyros_trace_clear` is a call, a `ClearEntry`
  for each entry and a `ClearReturn`, with other tasks, interrupts and switches
  between any two of them; its loop variable is static, so that a second clear moves
  the loop of the first one (`LoopShared = TRUE`) unless the compiler keeps it in a
  register (`FALSE`). The caller asks that tracing is off when it calls, and others
  may turn it on before it returns. What iterating shows (`Shown`, to somebody whom
  nothing interrupts meanwhile) is what refines `TraceHistory`, together with the
  clears under way and those that nothing but clears has disturbed (`alone`).
- An operator `Faulty_f` (or `FaultyX_f`) is `f` with a mistake somebody could
  make; no action uses it. Put in the place of `f`, it makes a property fail,
  which shows that the property can.

### What the model asks of the application

A live task is resumed, and a task that has finished is not; a task is created
again only when nobody is linked in its joiner list (the call reinitialises it);
priorities of an application are at least 1 (0 is the idle task's); a timeout
lies less than half the range of the clock ahead; a mutex is unlocked by its
owner only and not locked twice. The constant `PriorityOfUsers` opens a further
case (set the priority of a task that has or wants a mutex). The documentation
allows it, and it breaks a property: see section 6.

A task that is resumed while it waits with a timeout stays in the timeout list
(`src/suspend.c:64`). `TaskManagement` has that call, the run of the task with the
node linked, and the timeout that comes meanwhile. When such a task is about to wait
with a timeout again, the code links a node that is linked (`TimeoutUnlinked`): the
model stops there, because what the two lists look like afterwards depends on
pointers it does not have. It is a limit of what the properties cover, not a
promise of the code.

Of the components beyond the kernel: a timer or timeout is queued at most `MaxLate` (in `DynTick`:
`Latency`) ticks after its time; interrupts are disabled for at most `Latency`
ticks, which is less than a quarter of half the counter's range; the position of
the trace log is moved (`gyros_trace_seek`), and clearing the log begun, only while
tracing is off; a task deletes none that is above it (`DeleteHigher = FALSE`), see
section 6. Any task may exit. One that inherits a priority between locking
`gyros__iterate_mutex` for its exit and disabling interrupts would be inserted into
the list NULL points to (`src/task.c:96`, `src/mutex.c:129`); what follows is
undefined, so `ExitFinish` is not enabled then and that task stops there, while the
others go on.

`GYROS_CONFIG_ITERATE` is on in `Iterate` only; GYROS_CONFIG_DEBUG only adds
checks of arguments, and `FastPath` is the absence of it on Cortex-M.

## 3. Runs

| Run | Instance | Properties |
|---|---|---|
| `TaskAll` | three applications: three tasks with creation, exit, deletion, join, suspend, resume, yield and priorities, and interrupt handlers that resume and set priorities; two tasks that also sleep and join for 0-1 ticks; two tasks that interrupt handlers suspend; two priorities, a clock of 4 values | `ListsConsistent`, `JoinerNotStranded`, `HighestPriorityKept`, `TurnsKept`, `ImplementsQueues` |
| `JoinUntil` | two tasks that are created, exit, delete and join each other with a timeout | `JoinUntilTellsFinished`, which TLC finds violated (section 6) |
| `MutexIterate` | three tasks of three priorities, one mutex, fast path, priorities of others change; tasks iterate, exit, delete each other and are created again | `MutualExclusion`, `NoLostWakeup`, `OwnerInherits`, `PriorityRestored`, `NoPriorityInversion`, `ListingStands` |
| `CondWaits` | two tasks of two priorities, one mutex, one condition, waits of 0-1 ticks | `NoLostSignal`, `LockedAfterWait`, `ResultStands`, `TimedWaitReturns` |
| `SemCounting` | two tasks of two priorities, one semaphore of at most 2 | `UnitsNotStranded`, `HighestGetsUnit` |
| `SmqRing` | two tasks of two priorities, two places, two messages, blocking senders, interrupt handlers that send and receive | `MessagesNotStranded`, `ImplementsFifo` |
| `RwLocks` | three tasks of two priorities, one lock, waits of 0-1 ticks | `RwExclusion`, `HandedOver`, `NoSleeperAtFreeLock`, `ReadersKeepOut` |
| `Messaging` | two tasks of two priorities, one event group with two events, three kinds of request, one queue, two messages (symmetric), waits of 0-1 ticks, interrupt handlers that set, clear, send and receive | `NoMatchingSleeper`, `MessagesHaveReceivers` |
| `Timers` | three applications: two timers and a sleeper; an alarm with two waiters that also sleep; a timer, an alarm and a waiter; delays of 0-2 ticks of a clock of 6 values, timers started up to one tick late, one-shot and periodic | `NoOverdueTimeout`, `TimesOutOnlyWhenReached`, `WaitersFollowAlarm`, `WaitEndsAtAlarm`, `TickReturns`, `TimeoutFires`, `ImplementsTimers` |
| `DynTick` | a counter of 12 values, a clock of 24, one timeout and one timer up to 8 ticks ahead, latency of one tick | `ClockAccurate`, `NeverOverdue` |
| `MemPool` | 24 bytes, two slots, one of them rounded up, words of two bytes | `PoolConsistent`, `ImplementsZones` |
| `TraceLog` | two tasks, a log of three entries, tracing that stops at once or after one more trace, `HookAtomic = TRUE`, `LoopShared = TRUE` | `SwitchesChain`, `ImplementsHistory` |

Why these bounds are enough. No service looks at more than two tasks besides
the idle one: the caller and the task it acts on, or the first one of a list.
A third task is needed where the order in a list matters (`TaskAll`: two
joiners of one task, a task that passes another one), for a medium priority
between the owner and the waiter (`MutexIterate`, which also needs one task
that iterates, one that deletes and one that is deleted), and for a reader, a second
reader and a writer (`RwLocks`). Two priorities tell "equal", "higher" and
"lower" apart. The clock wraps several times in every run; delays
of 2 of 6 ticks put timeouts on both sides of the wrap. A ring of two places
has the states empty, partly full and full, with positions that differ. Two
timers are enough for a callback to start or stop another one before and behind
its own place in the list. In `DynTick` timeouts of 8 ticks lie beyond the 6 to
which compare is limited, the counter wraps twice before the clock does, and the
latency of one tick may fall between any two accesses. The memory of `MemPool`
holds several blocks of either size and leaves rests that are just too small.
Three entries are fewer than the events of two switches. Nothing else is bounded: the state spaces are finite and explored completely.
Deadlock is checked in every run.

`HighestPriorityKept` is about steps, because one call breaks what it says: after
`gyros_task_delete` of another task that somebody waits to join, a woken joiner
of a higher priority waits for the next switch (section 6). The property names that
step and no other; every switch restores the order, and every other call, from a task or
a handler, a switch pending or not, keeps it. `HighestPriorityRuns` compares priorities
and turns, not list positions of unequal tasks.

`TurnsKept` names the two calls, and the late timeout of a task that was resumed in its
wait, by which a task may lose its turn; `LosesTurn`
compares the list before and after each step. `ImplementsQueues` is the abstract
view of the same promise. Seen as one queue per priority, in one step at most one task
leaves its place (`Change`): it stops running, goes to the end, or changes its
priority. All others keep their places and whoever is new comes behind them; a
timer interrupt may move several, but only those whose timeout is reached
(`Timeouts`). A switch is to the first task of the highest queue, and once requested
it stays requested. `PriorityQueues` leaves open when a switch is requested while
the current task stays runnable: that is `HighestPriorityKept`.
`UnitsNotStranded`, `MessagesNotStranded` and `MessagesHaveReceivers` count:
every unit or message has a woken task of its own as long as somebody sleeps for
one. A weaker form ("some task is woken") would accept a signal that is lost
while another is on its way.
`MessagesNotStranded` holds until the first sender has slept (section 6).

`HandedOver` is about the moment between `rwlock->writer = task` in an unlock
and the return of that task's lock call: the task has been taken off the wait
list and its timeout list node removed, so it cannot time out any more and leave
the lock to nobody. `ReadersKeepOut` is about all steps in that moment and
before it. `NoSleeperAtFreeLock` includes the readers that queued up behind a
writer which gave up. What the code does not promise, and the model does not
claim: while another reader still holds the lock, such readers sleep on until it
unlocks, although they could share it.

`ListingStands` is why the mutex of `iterate.c` is there: the tasks that an
iteration has returned so far are the first ones of the list as it is now,
whatever exits, deletions and creations fall between its calls.

`WaitersFollowAlarm` and `WaitEndsAtAlarm` belong together: setting an alarm moves
the timeouts of those that wait already, and taking an alarm back must leave them
asleep. A callback may start any timer with any delay, its own with none: then
`gyros__tick` calls it again before it returns, and if it does so for ever, the
interrupt never ends. `TickReturns` says that this is the only way to keep it from
ending, and `TimeoutFires` excuses what follows from it and nothing else.
`ImplementsTimers` forgets the sorted list: the callbacks come in the
order of their times, each once per period, also when a callback has just
changed the list the interrupt is walking.

`ClockAccurate` asks of the software half of the clock that no wrap of the counter
is missed, `NeverOverdue` of the compare register that the interrupt comes in
time, although the counter runs on between the reading of the clock, the writing
of compare and the check that it has not been passed.

`PoolConsistent` says that the pool is tiled with blocks, each of them in use, in
one free list or on its way there. `ImplementsHistory` compares what iterating the
log would show before and after each step: while a task is clearing the log, entries
may vanish, also new ones, and the log may be turned in the end, but a clear that
nobody else has disturbed leaves it empty. `SwitchesChain` relates two entries, or
an entry and the present: the task that one context entry names as next is the
one the following context entry switches from; it says nothing of a log that has been
turned or half cleared (`torn`).

## 4. Fairness

Safety runs use no fairness. `Timers`, `CondWaits` and `SemCounting` check
liveness under these assumptions:

- the timer keeps interrupting and a pending PendSV is taken (weak fairness of
  `Tick` and `ContextSwitch`): hardware;
- a resting task is resumed some time (weak fairness): what "rest" stands for, a
  wait for something outside the model;
- a task that executes again and again goes on in the call it is in, unlocks
  what it has locked and signals what it owes (strong fairness: other tasks
  and interrupts may preempt it between any two of its instructions);
- `Timers`: the timer interrupt comes again and again, and once it has begun its
  handler goes on, callbacks included (weak fairness of `TimerInterrupts` and of
  `TickStep`; nothing preempts it in the model);
- `SemCounting`: the semaphore is signalled again and again.

A step of a task is enabled only while it executes, so none of this
lets a task run that the scheduler does not choose. The liveness properties are
therefore about the task of the highest priority only: the others may starve,
by design.

## 5. Proofs

All theorems hold for every value of the constants that satisfies the named
assumptions (`KernelAssumption`, `TaskAssumption`, `ServicesAssumption`,
`MutexAssumption`, `CondAssumption`, `IterateAssumption`, `SemAssumption`,
`SmqAssumption`, `RwAssumption`, `MemPoolAssumption`, `EventAssumption`,
`MqAssumption`, `MessagingAssumption`, `TimersAssumption`, `DynTickAssumption`,
`TraceAssumption`).

- `GyrosKernelProofs`: what insertion, removal and sorted insertion do to
  membership, distinctness and order of a list, and what each internal function of
  the kernel preserves and whom it moves.
- `ServicesProofs`: what each step of an application of `GyrosServices` (a
  blocking call, a wake-up, a timer interrupt, a switch, a rest) does to a kernel
  state that is `Sound` (every task in the one list that `main_list` names, lists
  in order, the idle task runnable, only waiting tasks in the timeout list), and
  that the first running task stays current or a switch to it pending
  (`ScheduleOK`). The proofs about the objects rest on it.
- `TaskProofs`: `IInvHolds`, and from it `TypeCorrect`, `ListsAlwaysRight`,
  `NoStrandedJoiner` and `HighestPriorityAlwaysKept`, for every application, with no
  assumption on what it calls. The
  inductive invariant joins the type, the consistency and order of the lists,
  and where each task may be: a joiner is linked in the list of a joinable task
  or in none but the running list, a task that is gone is linked nowhere, the
  current task is runnable or a switch is pending (`CurrentRuns`), the idle task is
  always in the running list and so that list is never empty.
  `HighestPriorityKept` is proved in the form "the head of the running list is the
  current task or a switch is pending" (`FirstIsCurrent`), which each call but one
  keeps (`FirstKept`) and the switch restores. That this means the highest priority
  (`IInvFirst`) rests on the order of the list, and that is kept through moves only
  if each task is linked once, in the list that `main_list` names.
- `TaskProofs`, turns: `TurnsAlwaysKept` and `KernelImplementsQueues`. Both are about
  the running tasks of one priority, `Level`, which is what `Keep` keeps of the list
  of running tasks. `Keep` is a recursive function; `GyrosKernelProofs` proves from
  its definition, by induction over the length of the list, what it does to an
  append, a concatenation, a removal and the order of two nodes. Then every internal
  function of the kernel is shown to requeue the levels (`RequeuedAll`): only the tasks of a set
  `moved` leave their places, and those who come back go to the end
  (`InsertRequeues`: what is inserted before the first task of a lower priority is
  the last of its own). Such steps compose (`RequeuedAllTwice`), also along the loops
  that wake tasks (`WakeSeqRequeues`). `NextTurns` gives for each call the set that
  moves; each of its tasks was not running, does not run any more, has another
  priority, yields, is resumed, or was resumed before its timeout came (`Excused`). So
  nobody else loses a turn, which is `TurnsKept`. For the queues it matters how many
  move: of the running tasks at most one (`OneLeaves`; the joiners that a finished task
  wakes were not running), or those whose timeout is reached (`TimeoutsReached`). A
  level that is requeued is then a step of the queue of `PriorityQueues`
  (`QueuesMove`). That the head of the list is the first task of the highest queue
  that is not empty is its order (`HeadOfLevels`).
- `MutexProofs`: `LockInvHolds` and `MutexesExclude`. Exclusion rests on
  `StoreIsSafe`: a store-exclusive that would succeed (the monitor is still set,
  the task executes, it is at the store) finds the mutex as its load found it,
  because every step of another task begins with a context switch and that
  clears the monitor. `NoWakeupLost` and `PrioritiesRestored` follow from
  `WaitInv`. A task in the list of a mutex is in the loop of its lock
  (`WaitersLock`), so each unlock that finds a list not empty wakes a task that is
  going to look again; and the fast unlock, which looked at the list one step
  before it stores, is protected by the monitor as the fast lock is
  (`UnlockSafe`: if it can still succeed, nobody has queued up). A priority that is
  not the task's own belongs to an owner somebody waits for (`InheritsForWaiter`);
  the fast unlock leaves priorities alone, and it is taken only when nobody waits.
  `PriorityInherited` (`OwnerInherits` and `NoPriorityInversion`) needs two things
  the code needs too and section 6 shows broken: nobody sets the priority of
  a task that has or wants a mutex (`~PriorityOfUsers`), and no task calls a mutex
  function while it has another mutex (`OneAtATime`, which `OneMutexInherits`
  shows for one mutex). The step that is not obvious is the lock of a free mutex
  that others wait for: an unlock has woken the highest of them (`WokenHighest`),
  but another task may come before. It executes, so it is the first of the running
  list, where the woken task is, so it is no lower.
- `WakeupProofs`: `RingAlwaysRight` (the write position is the read position plus
  the number of messages, modulo the size) and `QueueImplementsFifo`, the
  refinement of `BoundedFifo`: every call leaves the ring alone, puts a message
  in or takes one out (`StepKinds`, read off the code), and those act on the
  ring, seen as a sequence, as `Append` and `Tail` (arithmetic).
  `NoMessageStranded` and `NoUnitStranded` are proved by counting: `Attended` says
  that while tasks sleep, as many are woken and still going to look as there are
  messages or units. What adds one wakes a sleeper if there is one, what
  takes one away is at most one woken task, and a task that was not woken and takes
  one only makes it easier. A task that times out sleeps no more, and counts as
  woken until it returns empty-handed, which it does only when nothing is there.
  The invariants (`AttendInv`, `SemAttendInv`) add to the count in which call
  each sleeping or woken task is. For the queue this holds until the first sender
  has slept (section 6); `NeverStrandedUnlessBlocking` says that it always holds
  when nobody sends with `block` set.
- `WakeupProofs`, event groups and message queues: `MessagingInvHolds`,
  `NobodyMissesEvents` and `EveryMessageHasReceiver`, for the two kinds of objects
  side by side, each structure with a list of its own (`MessagingAssumption`).
  `AtMessaging` says that who sleeps is in the list of its own call, at an event
  group only for events that are not set. Taking and clearing only remove events
  (`FewerMatch`), so they make nobody match; the set of an event that was not set
  wakes everybody. Messages are counted as units are (`MailAttended`).
- `WakeupProofs`, reader/writer locks: `RwInvHolds` and `WritersExclude`. The code keeps a number and a
  task for two sets of tasks; the invariant says that the number is the size of
  the set of readers, that who writes is `writer`, that there are no readers
  when there is a writer, and that a task inside a lock call holds nothing yet.
  Exclusion alone is not inductive: an unlock decides by the count whether it
  hands the lock over. `LockHandedOver`, `NobodySleepsAtFreeLock` and
  `WritersKeepReadersOut` follow from `SleepInv`, which says of each task in whose
  list it may sleep (`SleepsInCall`), that a timeout has passed only for a timed
  call that runs again (`TimeoutRight`), that a task in a call for writing sleeps
  or is the writer unless it has timed out (`WriterWaits`), and that the writer
  has locked or is about to return from its call (`WillTake`). That last one is the
  hand-over: the unlock that names the writer has also taken it off the timeout
  list, so nothing else ends its call.
- `MutexProofs`, condition variables: `CondInvHolds`, and from it
  `WaitsReturnLocked`, `ResultsStand` and `NoSignalLost`. `CondInv` joins `Sound` and
  `LockInv` to `AtCond`: who sleeps at a condition is in a wait for it and does
  not hold the mutex it will lock again, and nobody else has a timeout. So a
  timeout cannot reach a task that has been signalled and now waits for the mutex
  (`ResultsStand`). `NoSignalLost` is for one condition variable: the client of
  `CondProperties` has one flag and signals any condition, so with two of them
  it may signal the one nobody waits for. It is inductive together with `CondInv`,
  and rests on the release of the mutex and the entry into the list being one
  step.
- `MutexProofs`, iteration: `IterInvHolds`, `ListingAlwaysStands` and
  `IterationExcludes`, for the composition of the mutexes with task iteration, exit, deletion and
  creation. A listing is a prefix of the list of tasks only because no task is
  taken off while somebody lists, so the invariant adds to `LockInv` that a task
  inside one of these functions is still in `gyros_mutex_lock` or has the mutex
  (`DoingLocks`), and that the list has exactly the tasks that exist. That a
  deletion leaves the current task alone, which `StoreIsSafe` needs, rests on
  `Unjoined`: nobody joins in this module, so `gyros__task_finish` wakes nobody.
  Mutual exclusion is proved again because a task that exits gives the mutex up
  outside `gyros_mutex_unlock` and a deletion removes a task from inside a mutex
  function.
- `MutexProofs`, iteration and priorities: `IterationServes` (`NoLostWakeup`,
  `PriorityRestored`, `OwnerInherits` and `NoPriorityInversion` for `IterateSpec`), for
  one mutex, the iteration's, while nobody sets the priority of a task that uses it
  (`~PriorityOfUsers`) and the ranks are respected: a task that deletes another has at
  least its base priority (`RanksRespected`). Two steps are not steps of `Mutex`. An exit
  unlocks the mutex for a task that is in no list any more and has nothing to give
  back: `ExitFinish` stops where it has (section 2). A deletion may take the very task out of the list whose priority the
  owner has; then nothing tells the owner to give it back. `WaitInv` only says that
  somebody waits for a task that has inherited. What is inductive is stronger: somebody
  waits whose base priority is above the owner's (`InheritsFromWaiter`). In a
  deletion it is not the one that is deleted. A
  waiter has no other mutex, so it has its own priority (`WaitersOwnPriority`);
  of a task that is gone nothing is left (`GoneOut`), so it can be created again.
  `RanksKept` derives `RanksRespected`, which is about the states of a run, from the
  constants: no priority that is set puts a task above one created with as high a
  priority, and a task deletes none created with a higher one (`FixedRanks`).
  `IterationServesRanked` is the conclusion from both; its hypotheses are those of
  `MutexIterate`.
- `MemoryProofs`: `PoolAlwaysConsistent`, `PoolImplementsZones` and
  `BlocksLargeEnough`. `PoolConsistent` is inductive as it stands: a block that is
  carved begins where all others have ended, and a block that is taken from a
  free list is in use by nobody because no block is in two places. That zones do
  not overlap then follows from the order of the blocks, and from the size for
  which each was carved, which the slot in its header still names.
- `MemoryProofs`, trace log: `SwitchesAreChained` and `TraceRefined`, for any tasks
  and any size of the log, where the exception that switches tasks is not
  interrupted (`HookAtomic`). The log is seen as a `Ring`, oldest entry first; that
  `gyros_trace_iterate` goes through it is `ShowIs`. Every step writes one entry or
  the running tasks at its end, leaves it alone (`Effect`), turns it, or erases one
  entry of it for a clear, and each of these is a step of `TraceHistory`. What is
  behind the loop of a clear that nothing has disturbed is empty (`ClearInv`), with
  and without a common loop variable. An entry that the hook has taken
  and not filled in does not count yet (`Counts`), which is why `HookAllocates`
  changes nothing. `ChainInv` says where the last switch in the log led: to the
  task that executes or, once the hook is done, to the one that will
  (`Standing`). The hook's entry extends the chain because what the hook has
  looked at, the first running task and whether tracing is on, stands until the
  switch (`HookInv`).
- `DynTickProofs`: `ClockAlwaysRead`, `ClockAlwaysAccurate` and `NothingOverdue`.
  `gyros_time` finds a wrap of the counter if less than one round has passed since
  it was last called. Nobody calls it on purpose for that: what guarantees it is
  that compare is never more than `MAX_PERIOD`, half a round, ahead. `ClockInv` is
  the sum for each phase: ticks since the clock was read plus ticks to the match
  while a task runs; plus those until a pending interrupt is taken; plus those of
  the handler until it reads the clock. Each phase may add `Latency`, so three of
  them have to be less than half a round (`DynTickAssumption`; every port checks the
  match from `MAX_PERIOD / 4` on, which presupposes more). `QueuesInv` adds how late
  each queued time can be in each phase. Its first case is the one to look at:
  when the first time is more than `MAX_PERIOD` ticks ahead of the time that the
  update began with, compare is set `MAX_PERIOD` after the last reading, and
  the ticks spent in between make the match late by as many. While the match is
  checked, compare is the place of the earliest time in either list (`AtEarliest`):
  if the counter has passed it the interrupt is pended, if not, then the signed
  difference of 2 * `MAX_PERIOD` values is the true distance (`MatchAtTime`). Most
  lemmas are arithmetic of remainders, which the provers need in small steps.

- `TimerProofs`: `TimersInvariant`, and from it `TimeoutsAhead`, `AlarmsFollowed`,
  `TimeoutsReached` and `AlarmWaitsEnd`. Times wrap, so two of them have an order
  only as seen from a third one, and "the timeout list is sorted" means nothing by
  itself. The invariant measures every queued timeout from `now`: it is ahead by
  at least one tick and less than half the range (`InOrder`), which holds because
  nobody queues a time that has been reached (`TimeoutReached` is asked first), and
  the list is sorted by how far ahead each is. Then one more tick makes exactly
  those expire that were one tick ahead, and they are at the front
  (`ExpiredAre`); `gyros_alarm_clock_set`, which takes all who wait out of the list
  and splices them back in at one place, keeps it sorted (`RetimeClock`), as does
  the removal by `gyros_alarm_clock_reset`. With the list sorted, `AlarmsFollowed`
  (who waits for an armed alarm is in the list with its time, who waits for one
  that is not armed is not) is what makes a wait end only at the alarm.
- `TimerProofs`, software timers: `TimersRefined`, the refinement of
  `TimerService`. `QueueInv` measures the times of timers from `now` as well, but
  they may be past: between interrupts by at most `MaxLate`, and by one tick
  more until the interrupt has called them. So the list is `Sorted` between
  `-MaxLate - 1` and `MaxDelay`, and the walk can end only when all that is left is
  ahead. `gyros_time_compare` orders two times only if they are less than half the
  range apart, hence the hypothesis of the theorem, `MaxLate + 1 + MaxDelay <
  TimeRange \div 2`: an application must not have timers in use that are further
  apart. (`Timers` checks the refinement with
  a smaller range, where the periods in use happen to fit.)

The first theorems of `MutexProofs` are about `Spec` of `MutexProperties`, tasks that
use mutexes and do not exit. For the composition with exit and deletion that
`MutexIterate` checks, `ListingAlwaysStands` and `IterationExcludes` are proved for any
number of tasks and mutexes, any priorities and whoever exits or deletes whom; like
all that is said of `Iterate` they reach up to the exit of a task that has inherited
a priority, where what the code does is undefined (section 2). The other four
properties are proved by `IterationServes` and `IterationServesRanked` under
conditions that the code needs: section 6 names the deletions that break these
properties otherwise.
The specifications with fairness that `CondWaits` and `SemCounting` use imply
`CondSpec` and `SemSpec`, which the theorems are about.

Only model-checked:

- liveness (`TimedWaitReturns`, `HighestGetsUnit`, `TickReturns`, `TimeoutFires`):
  the prover has no support for fairness.

## 6. Disagreements between code and documentation

Met while modelling. Each is true of the model; where a constant or a property is
named, setting the one or adding the other to the run shows it.

- On Cortex-M `gyros_task_join_until` returns the value `joinable` had before the
  caller slept (`src/join.c:84`), so false for a task that has finished in time;
  `include/gyros/task.h:199-200` says "True if the task has finished". The run
  `JoinUntil` shows it: a task joins another one, which exits before the timeout, and
  the call returns false (`JoinUntilTellsFinished`).
- A receive makes room in a static queue but wakes no sender (`src/smq.c:130`): a
  task in `gyros_smq_send` sleeps on although there is room, until some other send
  wakes it (`smq.h:100`). Once a sender sleeps in the shared list, sends may also
  wake it in place of a receiver. `SmqRing` with `SenderSleepsOnlyWhenFull`.
- Setting any new event wakes every waiter, and `gyros_event_group_get_until` does
  not wait again (`src/event_group.c:121`): it returns false at once when an event
  is set that it does not wait for; `event_group.h:122` says false means that the
  timeout was reached. `Messaging` with the action property
  `GetFailsOnlyWhenReached`.
- `gyros_task_delete` of another task wakes its joiners without a reschedule
  (`src/delete.c:58-64`); a joiner of a higher priority does not run until the next
  switch. It is the exception that `HighestPriorityKept` names (`DeletesJoined`);
  `TaskAll` with `HighestPriorityRuns` as an invariant fails there.
- `gyros_task_resume` leaves the timeout node linked (`src/suspend.c:64`);
  `task.h:236` says the task times out at once. Its wait ends, but `timed_out` is not
  set; when the timeout comes later, a task that runs goes behind its equals (the third
  case of `TurnsKept`); and its next timed wait links the node twice, where the model
  stops (`TimeoutUnlinked`).
- Unlocking one of two mutexes gives up the priority inherited through the other
  (`src/mutex.c:129`); `mutex.h:43` says it is kept until that one is unlocked.
  With two members of `Mutexes`, `OwnerInherits` fails.
- `gyros__mutex_unlock_slow` lowers the caller's priority but reschedules only if
  it wakes somebody (`src/mutex.c:135-141`). With two mutexes a higher running
  task then waits.
- `gyros_task_set_priority` on a task that has inherited a priority overwrites
  it (`src/priority.c:56`); on a waiting task it does not reach the owner. With
  `PriorityOfUsers = TRUE`, `OwnerInherits` fails.
- `gyros_cond_signal_all` wakes the last waiter first into a list that appends
  (`src/cond.c:141-144`), so waiters of equal priority run in reverse order; the
  comment says it preserves it. The event group and the rwlock do the same.
- `gyros_sem_wait_until` and the timed receives return false before the
  timeout when another task took what the caller was woken for (`src/sem.c:142`).
- `gyros_task_resume` of a running task moves it behind its equals, so that an
  interrupt handler may take the processor from the executing task (`task.h:51`).
- `gyros_task_join_until` on a finished task waits for the whole timeout
  (`src/join.c:77`).
- With `GYROS_CONFIG_ITERATE`, `gyros_task_create` takes no mutex although
  `iterate.h:53` says iteration blocks it; a new task goes to the end of the list,
  so `ListingStands` holds all the same. A task that exits while it has inherited
  a priority is moved to a NULL list (`src/task.c:96-98`, `src/mutex.c:129`), although
  `task.h:42` calls returning from the main function a normal way to end; the model
  stops that task there.
- When a waiter leaves the list of a mutex other than through an unlock (it is
  deleted or suspended), the fast-path unlock, which looks only whether the list
  is empty (`mutex.h:169-179`), does not give the inherited priority back; the
  owner keeps it, `mutex.h:43` says until it unlocks. `MutexIterate` with
  `DeleteHigher = TRUE`: `PriorityRestored` fails.
- A task that an unlock has woken may be deleted or suspended before it takes the
  mutex; the next waiter is not woken (`src/mutex.c:138`). `MutexIterate` with a
  second mutex: `NoLostWakeup` fails.
- On Cortex-M the context hook runs with interrupts enabled
  (`arch/armv7-m/pendsv.S:38-45`): an interrupt may trace between the step of the
  position and its wrap and so write behind the log, and may make another task
  the next one after the entry has named it (`trace.h:143`). `TraceLog` with
  `HookAtomic = FALSE`: both properties fail.
- `gyros_trace_running_tasks` writes entries of kind STRING that hold a task
  (`src/trace.c:119`), also while tracing is off, and more of them than
  `gyros_trace_off` may have asked for. `gyros_trace_string` and `gyros_trace_off`
  look whether tracing is on before they disable interrupts, so an entry may come
  after the end, and a late `gyros_trace_off` turns tracing on again.
- `gyros_trace_clear` does not disable interrupts (`src/trace.c:60`): what is written
  meanwhile may be erased or shown as older than it is. Where its static loop
  variable lives in memory and a second clear runs between the test and the increment
  of the first one, the first loop passes the end of the log and goes on; the model
  takes test, erasure and increment as one step and leaves that out.
- On AT91SAM7S the tickless timer forces an interrupt by setting compare two ticks
  ahead (`target/at91sam7s/init-dyntick.c:96`) and does so again on each call, so a
  timeout that has passed waits as long as calls keep coming. `NeverOverdue`
  without `~rearms` fails.
- A timer that is started more than `MAX_PERIOD` ticks after its time is not
  noticed until the counter comes round (`target/stm32/init.c:124-143`).
- A callback that starts its timer with a time that has been reached is called
  again before `gyros__tick` returns (`src/timeout.c:109`), and keeps it in its loop
  with interrupts disabled if it always does so; `timer.h` does not forbid it.
  `Timers`: `TickReturns` and `TimeoutFires` fail without `CallbacksNeverDone`.
- `gyros_try_alloc` returns NULL when the slot of the size is exhausted although
  larger blocks are free (`src/mempool.c:74-92`).
- With GYROS_CONFIG_TIME_TYPE of 32 bits and a 32-bit timer the ports shift
  `time_hi` by its width (`target/stm32/init.c:159`), and `gyros_us` rounds up the
  factor instead of the product (`include/gyros/time.h:84`: nine are added before
  the multiplication): read off the code, not modelled.

## 7. Not modelled

- Saving and restoring registers, stack frames, vector tables, chip setup:
  machine code below the model, and most of the lines of the repository (the
  register headers of the chips alone are some thousands). What PendSV and the
  timer exception do to the kernel state is modelled, and so are the registers
  the tickless timer depends on.
- The periodic timer of `target/at91sam7s/init-pit.c`, which may count several
  ticks in one interrupt: `Tick` counts one.
- The compiler: the `ldrex`/`strex` statements carry no memory clobber; the
  model takes the accesses as issued in program order.
- The error handler, busy waits, conversions of time, debug printing: no protocol
  and no state of their own. Of the hooks, the context and the interrupt hook are
  part of `Trace`.
- `gyros_task_init`, `gyros_task_joinable`, `gyros_task_get_priority`,
  `gyros_smq_empty` and other calls that only initialise or read.

## 8. What is left

Every component with a protocol of its own has a module, and every safety property of a
passing run is stated by a theorem. What would add most is `IterationServes` for
applications with mutexes of their own: there a task may be deleted that owns one or
has been woken for one, so it needs a condition on deletions that also speaks of
what the deleted task has (section 6 has the run that fails without it).

The two halves of `gyros__tick` are modelled apart: `TaskManagement` has the tasks
without timers, `Timers` the timers without joins and priorities that change.
