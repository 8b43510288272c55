# A TLA+ model of the ES operating system kernel

The ES operating system (`src/os`) is a component operating system in C++: a
multiprocessor kernel for the PC (`src/os/kernel/port`, `src/os/kernel/pc`), a
network stack (`src/os/net`) and file systems (`src/os/fs`). This directory
holds TLA+ specifications of its dispatcher, its monitors, its page cache, its
TCP and its FAT file system, the TLC configurations that check them
and the TLAPS proofs of their main properties. `PROJECT.json` maps each
definition to the lines it models and lists the runs, the deliberate mistakes
each property is known to catch, the hazards and the theorems.

## 1. The system

| component | state | operations | talks to |
|---|---|---|---|
| `SpinLock` (`port/spinlock.cpp`) | `spin`, `owner`, `count` | `lock`, `tryLock`, `unlock`, `wait` | every thread that shares it; reads the current thread |
| `Lock` (`port/lock.cpp`) | `spin` | the same, not reentrant | threads, rendezvous points, the scheduler, alarms |
| `Thread` (`port/thread.cpp`) | `state`, `priority`, `base`, `core`, `rendezvous`, `attr`, `val`, `label`, `alarm` | `start`, `exit`, `join`, `sleep`, `cancel`, `setPriority`, `setCancelState`, `setCancelType`, `testCancel` | scheduler, rendezvous points, alarms, monitors |
| `Thread::Rendezvous` (`port/rendezvous.cpp`) | `queue` in order of priority | `sleep`, `wakeup`, `remove`, `update` | the threads on it; the condition is a callback |
| `Thread::Monitor` (`port/monitor.cpp`) | `owner`, `lockCount`, two rendezvous points | `lock`, `tryLock`, `unlock`, `wait`, `notify` | its owner's priority and list of monitors |
| `Sched` (`port/sched.cpp`) | `runQueue`, `runQueueBits`, `runQueueHint` | `setRun`, `unsetRun`, `selectThread`, `yield` | threads, cores |
| `Core` (`pc/pc_core.cpp`, `pc/pc_thread.cpp`) | `current`, `freeze` count | `reschedule`, `dispatchException` | threads, scheduler, interrupt handlers |
| `Alarm` (`port/alarm.cpp`) | two sorted queues of alarms | `setEnabled`, `setInterval`, `process` | the timer interrupt; calls back threads and monitors |
| page cache (`port/cache.cpp`, `page*.cpp`, `stream.cpp`, `swap.cpp`) | pages with reference counts on free, standby, changed lists; per-stream page tables | `lookup`, `read`, `write`, `flush`, `invalidate`, steal | MMU, disk streams, monitors |
| process (`port/process.cpp`, `map.cpp`, `mmu.cpp`) | list of maps, page tables, threads, interface table | `map`, `unmap`, `validityFault`, `exit`, `wait` | page cache, threads |
| system calls and upcalls (`port/syscall.cpp`, `upcall.cpp`, `interface.cpp`) | interface records, upcall records and a pool of user stacks | calls in both directions | processes |
| heap and arena | free lists by size | `alloc`, `free` | |
| network (`net`) | conduits and multiplexers, socket queues, TCP control blocks, address states, timers | packets up and down, socket calls | alarms, monitors, device streams |
| FAT (`fs/fat`) | on the disk cluster chains, directory entries, the clean bit, FSInfo; in memory the `FatStream`s of open files in a hash table, the count of free clusters | mount, dismount, create, `setSize`, read, write, rename, remove | page cache, which calls back to write a directory |
| ISO 9660 (`fs/iso9660`) | open streams | lookup, read | page cache |
| devices (`pc/*.cpp`) | registers of the hardware | interrupts, DMA, commands | rendezvous points and monitors |

Where it is hard. Several cores execute kernel code at once, with interrupts
disabled and with a lock per thread and per rendezvous point, taken in
different orders in different places. A thread is on a queue, visible to
others, before the core it ran on has left its stack. An expired alarm calls
back without its lock. `cancel()` and `setPriority()` reach into a thread in
whatever state it is. Locks are held across context switches and released by
other code than took them. Above the kernel, the page cache drops its locks
around every copy and every transfer; a TCP segment may be lost, repeated or
overtaken, and a timer answers for each; the file system's writes reach the disk
one at a time and the machine may stop between any two. The hazards section of `PROJECT.json` names the
lines.

What makes each part correct: a lock excludes and is free again after the last
unlock; a thread is on at most one core, on exactly the queue its state says
and nowhere else; what is waited for and has happened wakes the waiter;
a core that spins gets out; priorities order what they should; an inherited
priority ends with the monitor that caused it; a page is on the list its
reference count says and what was written last is what is read next; a stream
arrives as it was sent and a closing connection ends; a cluster belongs to one
file at any moment the power may fail; the maps of a process do not overlap.

## 2. The modules

| module | what it is |
|---|---|
| `ReentrantLock` | what `SpinLock` promises: one holder, counted |
| `SpinLock` | `port/spinlock.cpp`, one step per memory access |
| `SpinLockProofs` | its theorems |
| `ThreadLife` | what the dispatcher promises: the states of `es::Thread`, and no thread in use by two cores |
| `Dispatch` | threads, rendezvous points, run queue, context switch and timer interrupt on several cores |
| `Lists` | what is left of a list when some of its elements are unlinked |
| `ListLemmas` | lemmas on sequences: appending, inserting, unlinking, order, elements that occur once |
| `ThreadControl` | `Dispatch` with `cancel()`, `setPriority()`, the cancel attributes and repeated `start()` |
| `ThreadProofs` | lemmas on the queue operators of `Dispatch`, its inductive invariant and its theorems; then those of `ThreadControl` on one core |
| `Monitor` | monitors with priority inheritance, their waiting and notification, on several cores |
| `MonitorProofs` | the inductive invariant of `Monitor`, what one core adds to it, and its theorems |
| `PageCache` | `Cache`, `Page`, `PageSet`, `PageTable` and the update thread |
| `PageCacheProofs` | the inductive invariant of `PageCache`, that on what the sectors hold, and its theorems |
| `Tcp` | both ends of connections to a listening socket and the network between |
| `TcpProofs` | the inductive invariant of `Tcp`, what more holds in order, and its theorems |
| `Fat` | a FAT32 volume, the files open on it, and crashes |
| `FatProofs` | what each action of `Fat` does, its invariants on calls, streams and entries, and what they prove |
| `FatChains` | the inductive invariant of `Fat` on cluster chains, remembered clusters and counts, and its theorems |
| `MCDispatch`, `MCThreadControl`, `MCMonitor`, `MCPageCache`, `MCTcp`, `MCFat` | instances for TLC: symmetry, the calls of each thread, the view of `Fat` |

### SpinLock

`spin`, `owner` and `count` are the fields; `pc` is where each thread is in
`lock()`, `tryLock()`, `wait()` or `unlock()`. The exchange is one step, every
other read or write of a field is one step too, so that a thread can be seen
between the exchange and the assignment of `owner`. `held` counts the
acquisitions a caller has not given back. `MaxDepth` bounds the nesting.

### Dispatch

The state is that of the C++ objects, by their names: `state`, `prio`, `core`,
`rendezvous`, `val`, `label`, `alarm` and the lock `tlock` of each thread;
`queue` and lock `rlock` of each rendezvous point; `runQueue`, `runQueueBits`,
`runQueueHint` of the scheduler; and for each core `current`, the local
variables `self`, `point`, `peer`, and `pc`, the place in the kernel code it
executes. The places are:

| `pc` | code |
|---|---|
| `thread` | the thread's own code, interrupts enabled |
| `start`, `startUnlock` | `Thread::start()` |
| `exit`, `exitVal`, `exitUnlock` | `Thread::exit()` |
| `sleep`, `enqueue` | `Rendezvous::sleep()` before the test, and between the test and the queueing |
| `wakeup`, `wake`, `wakeUnlock`, `wakeWait` | `Rendezvous::wakeup()` |
| `reschedule` | `Thread::reschedule()` |
| `switch`, `setRun`, `save`, `leave` | `Core::reschedule()`, away from a thread |
| `select`, `selected` | `Sched::selectThread()` and the jump to the thread |
| `isr` | an interrupt handler |

Abstractions. Kernel code of one core between two accesses to shared state is
one step. The scheduler's own lock protects short sections that take no other
lock but by `tryLock()`; each is a single step. A `Lock` is a bit in the code;
the model stores which core set it, so that `UnlocksOwnLock` can be stated, and
never uses it in a guard otherwise than as the bit. The time of an alarm is
`off`, `pending` or `due`; the timer interrupt of the boot core decides which
pending alarms are due. `start()` enables interrupts between its unlock and its
call of `reschedule()`; an interrupt there ends in the same `reschedule()`, and
the model has no step in between. `runQueueHint` is never cleared by the code,
nor by the model. Reference counts, the FPU, segment registers, upcall records
and processes are left out.

`Init` is the state `esInit()` leaves (`pc_init.cpp:260`): one running thread on
the boot core, the other cores in `Core::reschedule()` with none.

### ThreadControl

Adds `base` and the three bits of `attr`, and the steps of `cancel()` and
`setPriority()` from one thread to another. The constant `Calls` selects which
calls a run makes. No thread owns a monitor here, so `resetPriority()` reduces
to `priority = base`; when it comes after a wait for the point's lock, `base` is read
again, which tells apart only calls of `setPriority()` on several cores, and no run has
these hold. `rendezvous->remove()` and `update()` lock the point for
the time of one queue operation and are part of the step they are called in.

### Monitor

`owner` and `lockCount` of each monitor; `queue` and lock `rlock` of its two
rendezvous points; `base`, `prio`, `monitor`, `monitorList`, `rendezvous` and
lock `tlock` of each thread. The processes are the threads and the timer
interrupt. `pc` is where each is in the kernel code:

| `pc` | code |
|---|---|
| `thread`, `waiting`, `dead` | outside kernel code: running its own, switched away, terminated |
| `sleep`, `enqueue`, `switch` | `Rendezvous::sleep()`: the condition, the queueing, the context switch |
| `inherit`, `inheritOwner`, `raise`, `ownerWait` | `condLock()` when another thread owns the monitor |
| `update`, `reset` | `updatePriority()`, and `resetPriority()` collecting the locks of the monitors a thread owns |
| `tryLock`, `tryList` | `condTryLock()` |
| `unlock`, `unlockList` | `condUnlock()` |
| `waitRelease`, `waitList`, `restore` | `condWait()` and the end of `wait()` |
| `wakeup`, `wake`, `wakeWait` | `Rendezvous::wakeup()` |
| `exit`, `exitNext` | `exit()` and `unlockAllMonitors()` |

Abstractions. `Dispatch` has the context switch in detail and proves what
`Monitor` uses of it: a thread that waits stays locked until its core has left
it, and runs on at most one core. Here a thread may go on in the kernel when
fewer than `Cores` processes are in it; kernel code disables interrupts, so with
`Cores = 1` calls do not interleave except at context switches. `RUNNABLE` and
`RUNNING` are one state, `ready`. `depth` is auxiliary: how often a thread
believes it holds a monitor. Clients take monitors in the order of their
numbers, unlock only what they hold and wait on the innermost monitor;
`condLock()` asserts the absence of a deadlock that such an order excludes.
`monitorList` is a sequence for each thread, whereas the code has one link in
each monitor: once a monitor would be on two lists the sequences say so and the
links are corrupt. `wait()` can bring this about on several cores, so
several cores and several monitors together are not used for other properties.
Reference counts, the Boolean that `wait(timeout)` returns, and the cancellation
of threads that hold or want a monitor are left out.

### PageCache

`page` holds the fields of each `Page`; `freeList`, `standbyList` and
`changedList` are the lists, `size` and `monitor` those of the `Cache`, `store`
the backing store. `th[t].pc` is where a thread is in its call:

| `pc` | code |
|---|---|
| `get`, `wait` | `Cache::getPage()`: lookup, alloc or steal under the monitor; the wait for a page |
| `fill`, `filling` | `Page::fill()`, before and during the read from the store |
| `copy`, `mark`, `change` | `memmove()`, `filled` and `map`, `Cache::change()` |
| `drop`, `park` | `Page::release()`: the count, then the list |
| `flush`, `clean`, `snap`, `store` | `Cache::flush()`, `Page::sync()`: off the list, the map, the write |
| `update`, `extend` | the loop of `Cache::Constructor::update()`; `Cache::write()` beyond the size |

What a sector holds is one bit, whether it is what the last write left there: a
write makes every other copy out of date, and `Coherent` says that a read never
meets an out-of-date one. A section under a spin lock or under the cache's
monitor is one step. There is one cache and one page set; reads and writes stay
within a page. Reference counts of caches and forked page sets are left out.

The code does not cope with some situations; they are actions of the module,
admitted by the constant `Allow` (see `Situations`), which is empty in the runs.
Section 3 says what TLC finds when they are admitted.

`update()` only tries the cache's monitor. When that fails the code reschedules and tries
the same cache again; nothing of the cache changes, so that in the model the round is not
there. Whether the thread that has the monitor runs meanwhile is a question of priorities,
which the model does not have. The code doubts it: "We should fix this implementation so
that update() does not lock up the system." (`cacheFactory.cpp:99`). Hence nothing is
claimed about when a changed page is written back, only what is true when it is.

### Tcp

`tcb` is the `StreamReceiver` of each end with the fields of the code,
`listener` the counters and queue of the listening one, `net` the segments in
flight. `input()`, `output()`, `error()` and the calls of applications hold the
monitor of the `StreamReceiver`, so an action is a whole call: `Input` finds the
state's handler, runs `trim()`, `ack()`, `text()` and the change of state, and
ends with `output()`; `ListenInput` clones the listening end. The network keeps a
set of segments: one taken from it may stay (a duplicate), be lost, or wait while
others pass it.

`expired()` does not hold the monitor (`stream.h:71`, `streamTimer.cpp:93`); only the
`output()` it ends with does (`stream.cpp:140`). It is on the timer thread, which has the
highest priority (`src/include/es/timer.h:150`), and a monitor does not disable
interrupts: also on one core it begins in the middle of a call, sets
`sendNext = sendUna` or aborts, and then waits, while the call goes on with what it had
read. `timeout` is `expired()` up to that `output()`. It happens

- between two calls: the action `expired`;
- between a handler and the `output()` the call ends with: an outcome of every call
  (`Outcomes`), without condition. When it begins inside the handler its result is that of
  one of these two, as `ack()` and `expired()` both leave `sendNext` at `sendUna` at least
  and no handler uses `sendNext` for more than that; but an `abort()` that a
  `setState()` of the handler then undoes is left out;
- at a moment of `send()` (`Moments`, `interrupted`): when it has what is sendable
  (`sized`, before `streamOutput.cpp:362`), the data (`copied`, before `:382`), the number
  (`numbered`, before `:419`), or has counted the segment (`counted`, up to `:478`). The
  code does not cope with these, so that `Allow` admits them: `sent` the last, `build`
  the others. The third name, `gap`, is data that arrives before data sent earlier.

The steps of `interrupted` are one step of the model: another end never sees the state
between `send()`'s end and the `output()` of `expired()`, which waits for no more than that.

Abstractions. Sequence numbers count from the initial one of each end, so wrap
round is left out; so are windows, congestion control, SACK, urgent data,
options, the delayed acknowledgement (whose timer's `delayedAck()` runs on the same
thread), simultaneous open and a second connection between the same ports. An
application does not write after `shutdownOutput()`, which the code does not
prevent (`stream.cpp:271`).

### Fat

The disk is `fat`, `dir`, `clean` and `fsi`: the FAT, the entries of the root
directory, the bit in `FAT[1]` and the FSInfo sector. `stream` holds the
`FatStream`s: their place in the directory, their copy `fcb` of the entry,
`fstClus`, `size`, and the memory of `getClusNum()`. `fatMonitor`, `rootMonitor`
and `pageMonitor` are the monitors of the FAT, of the directory and of the page
it is cached in; `th[t].lock` is the stream whose monitor a thread holds.

| `pc` | code |
|---|---|
| `alloc`, `mark`, `link` | `allocCluster()`: the count, the two writes for each cluster |
| `chain`, `cut` | `setSize()` joining the new clusters, or cutting the chain |
| `free`, `count` | `freeCluster()`: the write, then `++freeCount` |
| `sync`, `entry`, `written` | `FatStream::flush()` and the write-back of the directory's page |
| `remove`, `erase` | `FatStream::remove()` outside and inside the directory's monitor |
| `create`, `swap`, `flush` | `rename()` between its calls |

Each write of the FAT and of the directory is one step and `Crash` may follow
any of them. It takes everything but the disk; `mount` then goes on from what is
there. That `flush()` has written when it returns is assumed: the page cache can
return early when another thread has taken the page off the changed list, and
that is a finding about the page cache. `Release` counts the references of the
code: the stream's own cache holds two, so that the count of a removed file never
gets to 1 and its clusters are not freed; the model does the same, and
`ChainsSound` covers such files for as long as they are open.

`rootMonitor` and `pageMonitor` are taken in both orders by the code: `flush()` of a
stream holds the page's and wants the directory's, to write the entry
(`fatStream.cpp:307`); `create()` and `remove()` hold the directory's and want the page's.
The model has both, and the calls that meet so stay there (`Embraced`). `lookup()` and
`create()` also read the directory while they hold its monitor (`fatDirectory.cpp:207`),
which takes the page's monitor when the page has to be filled (`page.cpp:54`); here the
directory's page stays in the cache and these reads are one step.

### Operators marked "Mistake"

An operator whose comment begins with `Mistake:` is not used by any
specification. It is the operator that follows it with one plausible error, and
`PROJECT.json` records which property finds it.

## 3. The runs

| run | instance | question |
|---|---|---|
| `spinlock` | 3 threads, nesting 2 | the owner is right, it implements `ReentrantLock`, a spinning thread gets the lock's release |
| `dispatch` | 2 threads, 2 cores, fairness | `OnOneCore`, the run queue exact, implements `ThreadLife`; `JoinReturns`, `SleepReturns`, `KernelIsLeft` |
| `cancel` | 3 threads, 1 core | `cancel()` in every state of its target, repeated `start()`: no wake-up is lost |
| `priority` | 3 threads, 1 core, 2 priorities | `setPriority()` on a thread in every state; `HighestRuns`, `ControlNeverSpinsAlone`, `WaitQueueExact`, `JoinGetsValue` |
| `monitor_up` | 3 threads, 2 monitors, 1 core, 2 priorities | `InheritanceExact` along chains of monitors, exact queues and lists, `TimeoutWakes` |
| `monitor_smp` | 3 threads, 1 monitor nested twice, 3 cores, 2 priorities | `HolderOwns`, `NobodyForgotten`, `NotifyWakesAll`, no ring of locks when priorities are not set |
| `page_cache` | 2 threads and the update thread, 2 pages, 2 offsets | references, lists and the hash table exact under steal, truncation and write-back; `Coherent`: no write is lost |
| `tcp` | 1 connection, 2 bytes, a network of 2 segments that loses, repeats and delays; no gap, time-outs outside `send()` | `StreamIntact`, `EndsAgree`, `FinIsLast`, `AnswerIsTimed` |
| `fat` | 2 threads, 2 names, 3 streams, 2 clusters of 2 bytes, files of up to 3 bytes, crashes | `ChainsSound`, `FreeSpaceExact`, `HintIsRight`, `BoundWhileOpen`, `OnlyEmbraceStops` |
| `priority_smp` | 2 threads, 2 cores | violated: `OnOneCore` |
| `tcp_reorder` | 1 connection, 2 bytes, 3 segments, with gaps | violated: `StreamIntact` |
| `tcp_preempt` | 1 connection, 1 byte, 2 segments, time-outs at the end of `send()` too | violated: `FinIsTimed` |

The `TypeOK` of `ThreadControl`, `Monitor`, `PageCache`, `Tcp` and `Fat` give
the ranges of the variables; they hold in the instances above and are not among
the runs' properties.

Bounds. Two cores are what a race needs; a third thread is what two waiters at
one point, or a waiter, a waker and a thread to switch to, need; two priorities
make the order of queues visible. The state of `Dispatch` is finite without a
bound, since nothing counts. The proofs remove the bounds for all that they
cover.

For `Monitor`, two monitors and three threads are the shortest chain along which
a priority is propagated twice; a nesting of two makes the count that `wait()`
restores visible; three cores let an owner, a waiter and a notifier be in the
kernel together.

`dispatch` has the liveness properties and therefore two threads; the invariants
among its properties are proved for any number of threads and cores.

For `PageCache`, two frames for two offsets make every fill steal once a page is
cached, and three actors are a writer, a reader or mapper, and the write-back;
one thread only changes the size, since two lose data (below). One sector is
enough for `Coherent`, as the bits of different sectors never meet. For `Tcp`, two
bytes are what has an order, can be sent in one segment or two, and be sent again in one
when they went out in two; with two segments in flight one can come too late or twice,
or be a FIN that comes before the data, and a third is dropped, as any network
may. `R2 = 1` lets a retransmission and a time-out both happen. For `Fat`, two
clusters are a file that can grow, shrink and run out of space, and that another
file's cluster was taken from; three bytes on clusters of two have sizes within,
at and beyond the boundary. The view of `MCFat` leaves out the content of FSInfo
where it is written before it is read, and the identity of stream objects, which
only their users tell apart. That of `MCTcp` leaves out `err`, which is only reported, and
what no call reads of a closed end.

Deadlock is checked in the runs of `SpinLock`, `Dispatch` and `ThreadControl`: a
core can always take an interrupt. In those of `Monitor` all threads may have
exited, or wait for a notification nobody is left to send, so it is not; that no
processes spin on each other is the property `NoRingOfLocks`. In `page_cache`
every page may be mapped and everybody wait for one. A TCP connection ends. In
`fat` a crash is always possible, so that TLC's deadlock check would say nothing;
`OnlyEmbraceStops` says that calls in progress stop only where two of them have the
directory's and its page's monitor and want the other's, which they can.

Fairness (`Dispatch!FairSpec`). A core goes on executing kernel code (weak
fairness of `Step`). `Select` and `Interrupt` compete on an idle core and are
strongly fair: an interrupt that is pending is taken when interrupts are
enabled, however briefly, and handlers leave the idle loop time to look at the
run queue. The clock of the boot core passes every alarm. Nothing is assumed of
the calls a thread makes; a thread that never calls anything is preempted by
the interrupt.

Nothing is assumed of `Monitor`, `PageCache`, `Tcp` and `Fat`, which have no liveness
property. That an end of a TCP connection does not wait for ever for an answer is stated
as `AnswerIsTimed` instead: it has a timer running, which the code's timer thread serves.

### What the violated runs show

1. `priority_smp`. `Core::reschedule()` ignores the result of `tryLock()`
   (`pc_core.cpp:631`). If `setPriority()` on another core holds the thread's
   lock, the switch goes on, and when that lock is released the thread, already
   on the run queue, can be selected while its context is still in use.
2. `tcp_reorder`. A segment that is next in order is written to the ring, which
   takes in the block kept above it, but `recvNext` advances by the length of the
   segment alone (`streamInput.cpp:521`): the bytes are delivered, not
   acknowledged, and delivered again when they are sent again.
3. `tcp_preempt`. An end that has sent a FIN sends an acknowledgement. After `send()` has
   counted it (`streamOutput.cpp:419`), the timer goes off: `expired()` clears it and sets
   `sendNext = sendUna`, so that `send()` does not start it (`:447`), and then puts
   `sendNext` back behind the FIN (`:478`). The `output()` of `expired()` has nothing to send
   (`:318`): the FIN is not sent again, and no timer runs. `getSendableWithFin()` says of that
   state "FIN has been sent and the retransmission timer has not expired yet." (`:171`).

The first needs two cores; on one core `OnOneCore` is proved with the rest. The others
need one.

### What TLC shows in other instances

These are not among the runs. Each was found by admitting, in the instance of a
run, what its configuration leaves out.

- `CANCEL_DISABLE` is zero, so its test in `cancel()` is never true
  (`thread.cpp:337`).
- On several cores, `unlock()` takes the thread's lock with the rendezvous locked
  and `updatePriority()` the other way round (`NoRingOfLocks`); the alarm of
  `wait(timeout)` can expire before the thread is on the condition variable
  (`TimeoutWakes`); `condWait()` frees the monitor before it unlinks it from its
  former owner's list (`ListedOnce`).
- Page cache, by the names in `Allow`: a whole-page write does not wait for a fill
  that is going on (`whole`, `cache.cpp:246`); what was stored through a mapping is
  lost by `put()` (`store`, `cache.cpp:376`); a truncation does not wait for a
  write-back (`overlap`, `page.cpp:117`); a failed write is forgotten (`fault`,
  `page.cpp:118`): each breaks `Coherent`. A lookup in the middle of `release()`
  breaks `ListsExact` (`preempt`, `page.cpp:207`). Two threads that extend a file
  break `Coherent` (`cache.cpp:221`).
- TCP, when `expired()` begins while `send()` puts a segment together (`build`). With one
  byte outstanding and lost, a FIN that was to follow it takes the byte's number and the
  peer closes before the data (`FinIsLast`, `streamOutput.cpp:382`). With two bytes, the
  second goes out under the number of the first (`StreamIntact`, `:362`). Between `:382` and
  `:419`, the segment is sent and not counted in `sendMax`; `expired()`'s own `output()` then
  sends and counts it, and as that is the same step of the model, `EndsAgree` is not reported:
  in the code a receiver that is faster than this is beyond `sendMax` for a while. With
  `sent` alone, `StreamIntact`, `EndsAgree` and `FinIsLast` hold and `AnswerIsTimed` does not.
- FAT, likewise: a crash in `rename()` leaves two entries with one chain (`torn`,
  `ChainsSound`; `fatCheck.cpp:139` wants "each clusters are referenced at most
  once"); a lookup during `remove()` makes a second stream for one file (`names`,
  `BoundWhileOpen`); `++freeCount` outside `fatMonitor` can be lost (`race`,
  `FreeSpaceExact`). That two calls stop in the directory's monitor and that of its page
  needs nothing more than the run has: `Embraced` is reached in it.

Seen in the code and not expressed as a property: `flush()` of the cache can
return before another thread's write-back of the page is done
(`cache.cpp:314`); the page set's and the page table's spin locks are taken in
both orders (`pageSet.cpp:119`); `getSectorSize()` assigns to `size`
(`cache.cpp:300`); `ack()` reports a FIN as acknowledged for a duplicate
acknowledgement too (`streamInput.cpp:269`); the counters of a listening socket
are not corrected by `abort()` (`streamInput.cpp:724`); a repeated segment that
ends at `recvNext` is not acknowledged again (`streamInput.cpp:176`); `cancel()`
can switch away inside `unlockAllMonitors()` with its target locked
(`thread.cpp:395`); `wait(timeout)` can report a notification as a time-out
(`monitor.cpp:316`); `create()` of a FAT directory does not look at the failure of
`allocCluster()` (`fatDirectory.cpp:377`); the clusters of removed FAT files are
never freed (`fatStream.cpp:444`, `cache.cpp:389`).

Three more properties hold on one core, where the runs check them, and not on
several, as TLC shows when the instance is given a second core and the other
calls: `JoinGetsValue`, since `TERMINATED` is visible before `val` is stored
(`thread.cpp:243`); `CallerIsRunning`, since an asynchronous `cancel()` sets
`TERMINATED` on a thread that runs on another core (`thread.cpp:394`); and
`PropagatesToOwner`, since a monitor has no owner between `condUnlock()` and the
wake-up of a waiter that is locked (`thread.cpp:117`). And `setPriority()` on a
thread that is not started yet only changes `base` (`thread.cpp:125`), which
`RunQueueExact` allows.

## 4. What is proved

`SpinLockProofs`, for any set of threads and any `MaxDepth`: the type
invariant, `HolderOwns`, `SectionExclusive`, `FreeIsClean`, and that `SpinLock`
implements `ReentrantLock`. The inductive invariant ties `pc` and `held` of each
thread to `spin`, `owner` and `count`: at most one thread is between the
exchange and the write that clears `spin`, and `owner` is that thread from the
assignment on.

The first part of `ThreadProofs`, for any threads, cores and priorities (`BootAssumption`,
`PriosAssumption`, `NullAssumption`, `PointAssumption` only): `TypeOK`,
`OnOneCore`, `RunQueueExact`, `WaitQueueExact`, `NoLostWakeup`,
`UnlocksOwnLock`, and `ImplementsThreadLife`. None of these is inductive alone;
`IndInv` is their conjunction with what they lean on:

- who holds each lock at each `pc`, and conversely that a lock that is set is
  held by a core at a `pc` that says so;
- for each core, how `current`, `self`, `point` and `peer` are related at each
  `pc`, and the state of the thread there;
- a thread whose context is in use and that is not `RUNNING` is locked, which
  is why `Select` and `WakeFirst` cannot take it: this is the heart of
  `OnOneCore`;
- the queues are exact.

`ListLemmas` and the beginning of `ThreadProofs` have the facts on `Append`, `Tail`, `InsertAt`,
`Only` and `InsertPrio` that the steps need: insertion by priority keeps the order
and adds one thread, unlinking keeps the order and takes one away, and so on.
`Only` is the library's `SelectSeq`, about which these lemmas need no recursion
of their own.

The second part of `ThreadProofs`, for any threads and priorities and any `Calls`, on one core
(`Cores = {BootCore}`): the types (`ControlTypeOK`), `CallerIsRunning`,
`ControlNeverSpinsAlone`, `RunQueueExact`, `WaitQueueExact` and `NoLostWakeup`; and,
when `Calls` does not have `"cancel"`, `HighestRuns` and `JoinGetsValue`. Both
hypotheses are needed: on two cores `CallerIsRunning` and the findings of section 3
say what fails; a deferred `cancel()` makes its target runnable and returns without
`reschedule()` (`thread.cpp:359`), so that a thread of lower priority goes on; and a
thread that is cancelled asynchronously stores no exit value. `ControlInd` says

- for each place of the only core, the state of its thread (`ThreadKnown`) and what
  its local variables refer to (`LocalsKnown`);
- that a lock is taken exactly when the place says so (`LocksKnown`), since nobody
  else is in the kernel: every `Free` guard of a lock then holds, which is
  `ControlNeverSpinsAlone`;
- that the queues are exact, and that the queues are empty as long as the hint is not
  set (`HintKnown`): `reschedule()` may go on with its thread only then, from which
  `HighestRuns` follows;
- that only a thread itself waits at its sleep point (`SpotsKnown`), so that setting
  an alarm again leaves nobody behind, and that a condition that holds has its waiters
  woken (`WakeUpsKnown`).

The queue lemmas are about the queues as sets of threads (`RunQueueSets`,
`WaitQueueSets`), which is what unlinking a thread and queueing it elsewhere change by
one element.

`MonitorProofs`, for any threads, cores, monitors, priorities and nesting: `TypeOK`,
`HolderOwns`, `QueuesExact`, `NobodyForgotten` and `NotifyWakesAll`.
`MonitorAssumption` says that the names are distinct, that there is a highest
priority, as `IThread.idl` has one, and that monitors are numbered. `IndInv` is
made of

- where each process is, what its variables are there, and in which states a
  thread can be (`PlacesOK`, `WaitsOK`, `StatesOK`);
- which rendezvous points a process has locked at each place (`PointsHeld`). In
  `wait()` this is the condition variable from the test of the owner, through the
  monitor's release, the priority update and the wake-up of its waiters, to the
  queue; `NotifyWakesAll` follows from that alone;
- who owns a monitor: a thread that knows that it does, or one at the few places
  where it is about to know or to give it up (`OwnersOK`), and that the lists of
  monitors agree with that (`ListsOK`);
- a thread that queues itself for a monitor has it locked and sees an owner
  (`ContendersOK`); so an empty queue is not added to after the last wake-up, and
  `NobodyForgotten` follows from whoever gives a monitor up being on its way to
  wake the queue.

A step changes little of what is said of the other processes (`KeepsOthers`), so
that each action has one lemma on its own process (`LockTakeOwn`, ...) and one
lemma covers all others (`OthersSound`).

With `Cores = 1` the same module proves `ListedOnce`, `TimeoutWakes` and
`PropagatesToOwner`: one process at a time is in the kernel (`OneInKernel`), so that
nothing comes between `condWait()`'s release of the monitor and its unlinking
(`GivenUp`), nor does an alarm expire before its thread is queued (`AlarmsOK`). The
assumption is needed: section 3 says how each fails on several cores.

`PageCacheProofs`, for any threads, pages, offsets and sectors: the type invariant,
`OnePagePerOffset`, `HeldStays`, `RefExact` and `ListsExact`, whatever else `Allow`
admits than `preempt`, the lookup in the middle of `release()` that breaks the
lists. `IndInv` counts who refers to each page: the calls at the places
where they have one (`Callers`), the mappings (`Mappers`) and the changed list. A
page that nobody refers to is on the free or the standby list or about to be put
there, and only such a page is stolen; from this, with the hash table being one to
one, the others follow.

The second part of `PageCacheProofs` proves `Coherent` when `Allow` is empty and at most one thread
changes the size (`OneSizer`), which is what the runs check, and section 3 has what
goes wrong otherwise. `CohInv` adds to `IndInv` which copy of a sector is the last
written: the filled page, else the store; and that the store is behind only where a
write-back is pending, the sector being in the map of a page on the changed list, in
that of a call which is about to put it there, or in what a write-back has taken off
the map.

`TcpProofs`, for any number of connections, of bytes and of segments in flight,
whether the network is reliable or not: `EndsAgree`, and that an end which took a
FIN has counted exactly what its peer wrote before it (`EndedLast`). Both have the
hypothesis `"build" \notin Allow`: `expired()` may begin between two calls, between a handler
and its `output()`, and at the end of `send()`, but not while `send()` puts a segment together,
where section 3 says how it breaks the stream. `IndInv` says of each end
(`EndOK`) where its numbers are with respect to its peer's (`NumbersOK`), that a FIN
is counted last and only when the peer has closed (`EndOfStreamOK`), that `sendRing`
has the bytes from `sendUna` to the last one written (`SendRingOK`), and what a state
implies (`StateOK`); and of each segment that it carries what its sender had, then
(`CarriesOK`), an RST apart, which carries nothing that is used. A segment may be as
old as it likes, since all that the invariant uses of the other end never goes back
(`Grows`): that is why loss, repetition and delay cost no further case. Each
operation has one lemma (`Acks`, `Trims`, `RingWrites`, `Texts`, `Outputs`, ...), each
handler one that composes them, and every step changes one end (`OneEnd`). For `expired()`
at the end of `send()` the lemma `Interrupted` goes through its parts: the segment that is
sent and counted (`Sends`), the time-out (`TimesOut`), `sendNext` put back to where it was
(`Resent`), which is within `sendMax`, and the `output()` after that (`Outputs`).

`StreamIntact` and `FinIsLast` do not hold of the code when a segment is kept beyond a
gap: that is the finding `tcp_reorder`. They have the second hypothesis `"gap" \notin Allow`,
from which no block is kept in any `asb` (`AlwaysInOrder`) and the ring and `recvNext` agree;
loss, repetition, retransmission and segments that are late remain. `FinIsTimed` and
`AnswerIsTimed` are not proved.

`FatProofs`, for any clusters, sizes, entries, names, streams and threads: the type
invariant in every situation, crashes and all that `Allow` admits, so that no link and
no remembered cluster is ever outside the FAT; and `BoundWhileOpen`, unless `Allow`
admits `names`, with which section 3 says that it fails. Its first part gives the effect
of each action on calls and streams, in a few named forms (`Goes`, `Returns`, `Opens`,
`Makes`, `Drops`, `Wrote`, ...). `BoundWhileOpen` is not inductive: an entry is written
some steps after the stream has changed, and `rename()` exchanges two streams and their
names on the way. The inductive invariant has

- `Base`: each call is in a place of its operation with the monitors it has there, what
  it works on is in memory, two calls do not hold one stream's monitor, and an unmounted
  volume has neither calls nor streams;
- `ApartOK`: no two calls in the directory, one of which is `unbind()` or `rename()`;
- `FilesOK`: the streams in the hash table have entries of their own (`KeptOK`,
  `OffsetsOK`, `BoundOK`), a new one is empty and nobody has it (`NewOK`), its `fcb` is
  what the stream is, or what `setSize()` is about to make of it (`FcbOK`), and the entry
  is the `fcb`, but for a call that is at work on it (`EntriesOK`). `Excused` names those
  calls; while `rename()` is one, the other entry has the clusters and the size.

`FatChains`, for any clusters, sizes, entries, names, streams and threads, with crashes and
mounts: `ChainsSound` and `HintIsRight` when `Allow` admits neither `names` nor `torn`, and
`FreeSpaceExact` when it does not admit `race` either; section 3 has what each of the three
breaks. The runs check the instance in which `Allow` is empty. `ChainsSound` says that the
clusters of two files are disjoint, which no step preserves by itself: a chain is found by
walking, and one write of the FAT may change where every walk through it goes. The invariant
`ChainsOK`, beside `Base`, `ApartOK` and `FilesOK`, says it locally:

- no link is to a free cluster and no two links are to the same cluster (`Linked`), so that
  two walks which meet begin on one chain; no link is to the first cluster of a chain
  (`RootsOK`), nor to the one `mark()` has taken and `link()` has still to use (`SpareOK`);
- a chain is that of one stream, one call or one entry, or of a stream and the entry it bears
  (`HeadsOK`). An entry that `rename()` has still to write or to erase (`Doubtful`) says
  nothing; the streams that were exchanged do;
- a stream and an entry have as many clusters as their size needs (`StreamsLong`,
  `EntriesLong`), and `allocCluster()` has chained as many as it has counted (`AllocOK`);
- what `getClusNum()` remembers is on the chain of the stream, unless `setSize()` is about to
  reset it (`HintsOK`).

A step that writes a link does so on one chain, and `Linked` gives that all the others are
spared: their walks stay (`Spared`, `SparedLong`, `UsedRelinked`, `FileRelinked`). Each action has
one lemma on the FAT (`MarkFat`, `LinkFat`, `FreesFat`, `ChainFat`, `CutFat`), one on whose
the chains are (`...Heads`) and one that has all of `ChainsOK` (`...Chains`). `CountOK` counts the
free clusters by `Cardinality`: a write that makes a link of a link frees none, `mark()` and
`freeCluster()` take or add one, and the calls at `++freeCount` are what is missing.

Only model-checked: liveness (`JoinReturns`, `SleepReturns`, `KernelIsLeft`,
`LockNeverWedges`), which is out of the prover's
reach; `OnlyEmbraceStops`, which uses `ENABLED`; `AnswerIsTimed`, whose argument is about the
timer of one end alone and which the run covers; `NoRingOfLocks` and `InheritanceExact`,
which are about cycles and chains of any length and would take induction over them.
`SectionExclusive`, `FreeIsClean`, `UnlocksOwnLock` and, on several
cores, `NoLostWakeup` are proved and not repeated in a run.

## 5. What is not modelled

Drivers and interrupt controllers (what they do depends on hardware outside the
repository), boot code, the hosted kernel, the browser `escort`, the IDL
compiler, the applications, and third-party libraries. `PROJECT.json` lists each
with its reason.

Of the modelled parts: in the file system FAT12 and FAT16, long names,
subdirectories, the contents of files, `format()` beyond the volume it makes, and
`check()`, which only reports; in TCP what section 2 lists; in the
page cache several caches that compete for one page set, and the swap file.
Processes, address spaces, system calls and the heap are planned.

## 6. Plan

1. `Alarm`: periodic and one-shot alarms on the two queues, `setEnabled()`
   racing `process()`; the result of `wait(timeout)`.
2. `Process`: maps that do not overlap, over `PageCache`; `Swap`.
3. `Upcall` records and interface reference counts.
4. `cancel()` of threads that own or want monitors, joining `Monitor` and
   `ThreadControl`.
5. Network: ARP and DHCP address states, IP reassembly.
