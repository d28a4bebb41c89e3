# Verification of GPCC's concurrent core

GPCC is a C++ class library for embedded Linux systems. Its heart is a set of
components that are called by several threads at once: a read-write lock, work
queues with and without time, threads that execute them, a cyclic executor with
an asynchronous controller, a server for remote access to an object dictionary
with a multiplexer on top; a log facility; and a store for data in an EEPROM that has to survive
power failures. This directory holds TLA+ modules of those components, TLC
configurations that check them on small instances, and proofs, checked by TLAPS,
of the most important properties for every instance.

Source files are named below as they are under the library's `src/` directory
(`include/gpcc/` for headers). In `PROJECT.json` a path begins with one more
`src/`, which stands for the root of the repository.

Contents

1. [The system](#1-the-system)
2. [The modules](#2-the-modules)
3. [The runs](#3-the-runs)
4. [Fairness](#4-fairness)
5. [The proofs](#5-the-proofs)
6. [Findings](#6-findings)
7. [What is only model-checked, what is not modelled](#7-what-is-only-model-checked-what-is-not-modelled)
8. [The plan](#8-the-plan)
9. [How to run it](#9-how-to-run-it)

## 1. The system

### 1.1 Components that are modelled

**RWLock** (`osal/universal/RWLock.cpp`). State: `nbOfLocks` (> 0: number of
read-locks, 0: free, -1: write-locked), `nbOfBlockedWriters`, a mutex, one
condition variable for writers and one for readers. Operations: `WriteLock`,
`TryWriteLock`, `WriteLock(timeout)`, `ReleaseWriteLock`, and the same for
readers; `ReadLock` and `WriteLock` are cancellation points. Used by the object
dictionary, by the objects and by the thread registry. Hard: a wake-up is sent
to one writer only, and that writer may time out, be cancelled, or find the lock
taken by somebody else. Correct if: a writer excludes everybody, the counters
say exactly who owns or waits for what, writers have priority over new readers,
and no thread stays asleep while the lock is free.

**WorkQueue and WorkPackage** (`execution/async`). State: an intrusive list of
packages, the package and the owner that are executed now, a termination flag, a
mutex for the queue and one for flushes; each *static* package has an atomic
state of its own (`staticNotInQ`, `staticInQ`, `staticExec`, `staticExecInQ`),
because it may be offered to several queues, each with a mutex of its own.
*Dynamic* packages belong to the queue once they are added. Operations: `Add`,
`InsertAtHeadOfList`, `Remove` (one package; all of an owner; all of an owner
with an ID), `FlushNonDeferredWorkPackages`,
`WaitUntilCurrentWorkPackageHasBeenExecuted`, `RequestTermination`, `Work`.
Interactions: a package runs a callback in the thread of the queue; the callback
may add packages (also itself) or throw. Hard: the shutdown of an owner while
its packages are queued, fetched or running; packages that re-enqueue
themselves; wake-ups that are sent only when the list was empty; the lifetime of
the semaphore on a flushing thread's stack. Correct if: a package is in one
place at a time and its state says which, packages are executed in the order
of acceptance, nothing of an owner is left in or executed by a queue after the
owner has cleaned it, and nobody who waits is forgotten.

**DeferredWorkQueue and DeferredWorkPackage** (`execution/async`). Like
WorkQueue with a second list that is sorted by points in time. The worker sleeps
with the time of the first deferred package as timeout, so every change in front
of that list must end the sleep. Correct if, in addition: no deferred package is
executed before its time, equal times are executed in the order of addition,
and the worker never sleeps longer than the first deferred package allows.

**SuspendableDWQwithThread** (`execution/async`). State: one status value that
carries both requests and answers, a mutex, an API mutex, a thread, one
condition variable in both directions. Operations: `Start`, `Stop`, `Suspend`,
`Resume`. Interaction: the thread runs `DeferredWorkQueue::Work()`, and
`Suspend`/`Stop` call `RequestTermination()`; users reach the same queue by
`GetDWQ()` and may request termination themselves. Correct if: no package runs
while suspended, status and thread agree between two calls, each call returns.

**TriggeredThreadedCyclicExec (TTCE)** (`execution/cyclic`). A thread that waits
for a trigger and, while sampling is on, calls the virtual methods `OnStart()`,
`Sample()` and `OnStop()`. State: the state of sampling (stopped, starting,
waiting for the PLL, running), the pending request flags, the start delay.
Operations: `StartThread`, `StopThread`, `RequestStartSampling`,
`RequestStopSampling`; each state change is reported by a callback, without the
mutex. Hard: a request arrives while the thread is outside the mutex, and the
callback reports a state that may already be history.

**TTCEStartStopCtrl** (`execution/cyclic`). Starts and stops sampling for
arbitrary threads, restarts it after errors, lets clients lock the start and
wait for the stop. State: the controller's state (stopped, starting, running,
stop pending, stopped with stop pending), the counter of start-locks, restart
attempts. Interaction: the TTCE's callback enqueues a work package; `OnRun_WQ`
and `OnStop_WQ` run later in a work queue. So the controller sees the TTCE only
through a queue of old reports, and it calls `PANIC()` where it believes a
report or a refusal to be impossible. Correct if: none of those branches is
reachable, a stopped controller has a stopped TTCE, and a client that holds
sampling stopped can rely on it.

**EEPROMSectionSystem** (`file_systems/eeprom_section_system`). Named sections of
data in an EEPROM that is divided into blocks. State in the EEPROM: an info
block, free blocks and section heads and data blocks, each with a checksum, a link to
the next block and, in heads, a 16 bit version; in RAM: the state of the section system,
the head, end and length of the list of free blocks, and a lock per open section.
Operations: `Format`, `MountStep1`, `MountStep2`, `Unmount`, `Create`, `Open`,
`Delete`, `Rename`, and the methods of section writers and readers. Hard: power may fail
at every block that is written, also while the damage of an earlier failure is repaired, and
a block may be left half written. Correct if: each call has happened completely or not
at all after the next mount, no block is lost or used twice, and a reader sees one version
of its section.

**RemoteAccessServer** and **WorkQueueBasedRemoteAccessServer**
(`cood/remote_access/infrastructure`). State: the registered client, a queue of requests, a flag for a requested
loan of the execution context, the state of the server, two mutexes (`apiMutex` and
`clientMutex`); in the derived class the state of a work package. Operations: `Register`,
`Unregister`, `Send`, `RequestExecutionContext`; `OnStart`, `Work`, `OnStop` in the
execution context; `Start` and `Stop`. Hard: the client may unregister while a callback
runs or is about to run; each class has a state of its own, under a mutex of its own, and
an invocation of `Work()` must not get lost between them. Correct if: the client is told what the
RODA/RODAN interfaces promise, in that order, and nothing after `Unregister()`.

**Multiplexer and MultiplexerPort** (`cood/remote_access/infrastructure`). A
client of one server that serves several clients, one at each port. State: the state of the
connection, per port the state, a session ID of 8 bits, the oldest session ID that
may still be on its way, and flags; a mutex for the multiplexer, one for all ports and
one for connecting. Requests carry port and session ID through the server and back. When a
port has used up its IDs a *ping* that travels through the server tells it that
old ones are free. Hard: clients come and go while responses to their predecessors are on
their way, the connection may be lost at any time, and session IDs wrap round. Correct if: each port
looks like a server of its own, and nobody is given a response to the request of somebody else.

**ThreadedLogFacility and Logger** (`log`). State: a queue of log messages, the
remaining capacity for messages that are not errors, counters of dropped messages, of messages that
could not be created and of losses still to be reported (each of 8 bits, they stop at the
largest value), a flag for deliveries; a mutex for the queue and one for the delivery, two condition
variables, a thread. Operations: `Log`, `ReportLogMessageCreationFailed`, `Flush`, `Start`, `Stop`.
Interaction: loggers of any thread call `Log`; the thread takes all messages at once and hands them to the
back-ends, which may throw. Hard: a dropped message wakes nobody; capacity is given back without the
mutex of the queue; reports about losses may be lost themselves. Correct if: messages arrive in the order of
acceptance, no loss is silent, and neither the thread nor a flush is forgotten.

### 1.2 Interactions

```
 TTCEStartStopCtrl --requests--> TTCE (cyclic thread)
        ^                          | OnStateChange
        | OnRun_WQ / OnStop_WQ     v
      WorkQueue <---- Add(package) -
        ^ Work()
      DWQwithThread / SuspendableDWQwithThread (over DeferredWorkQueue)

 ObjectDictionary, Object*, ThreadRegistry --lock/unlock--> RWLock

 clients <--RODA/RODAN--> MultiplexerPort
                             |
                         Multiplexer
                             |
                        RODA/RODAN
                             |
                     RemoteAccessServer
                             | RequestWorkInvocationHook
              WorkQueueBasedRemoteAccessServer --Add--> DeferredWorkQueue

 SectionWriter, SectionReader --> EEPROMSectionSystem --> EEPROM

 Logger --Log--> ThreadedLogFacility --Process--> Backend
```

### 1.3 Components that are not modelled (yet)

| component | state and operations | what is hard | status |
| --- | --- | --- | --- |
| DWQwithThread | a queue and a thread; Start, Stop | nothing beyond `RequestTermination` and `Work()`, which are modelled | left out |
| ThreadBasedRemoteAccessServer | the other derived class of RemoteAccessServer: a thread with a condition variable | shares the base class, which is modelled | planned |
| Named read-write locks | name or path to lock state | hierarchical names: a lock on a path and locks above and below it | planned |
| Memory management | memory blocks and free list | splitting, merging, alignment | planned |
| Time Flow Control | emulated time, number of blocked threads | time advances when all threads are blocked; dead-lock detection | planned |
| Time points and spans | 64 bit pairs | overflow, normalisation | planned, small |
| RODA clients, requests and responses | parsing, serialisation, printing | sequential | left out |
| Object dictionary, objects | ordered list of objects under an RWLock, user callbacks | its lock is modelled; the rest is sequential data access | left out |
| NonBlockingSemaphore | counter, callback | planned with its users | planned |
| ThreadRegistry, lockers | list under an RWLock, scope guards | the lock is modelled | left out |
| OSAL | wrappers of POSIX primitives | appears as actions of the modelled components | left out |
| Containers, callbacks, streams, strings, CRC, hash, DSP, math, RAII | sequential data structures and pure functions | unit-testable | left out |
| CLI, linux_fs, stdif | terminal, files, driver interfaces | I/O | left out |

`PROJECT.json` lists all of them with their files, and lists the hazards of the
code, each at its line with the properties that cover it.

## 2. The modules

In all modules an action is the code between two points at which its thread does
not hold the mutex concerned: entry, waits on condition variables, callbacks, and
exit. A condition variable is a state of its waiting threads: a signal or
broadcast makes them `woken` (or `signalled`); they go on, with the mutex, in an
action of their own, so anybody may come between. Spurious wake-ups, timeouts and
cancellation are actions. Operators whose comment begins with *Deviation* are
not part of the specifications: each is a form of the definition that follows
it with a plausible mistake, kept to show that the properties notice it.

| module | role | code |
| --- | --- | --- |
| `ReadersWriters` | abstract: grants and releases of a readers-writers lock | - |
| `RWLock` | the lock, all methods | RWLock.cpp/.hpp |
| `WorkExecutor` | abstract: each queue executes what it accepted, in order, one at a time, a package accepted at most once | - |
| `WorkQueue` | the queues, the packages, owners that flush and shut down | WorkQueue.cpp, WorkPackage.cpp |
| `DeferredExecutor` | abstract: normal packages in order, deferred packages by time, none before its time | - |
| `DeferredWorkQueue` | one queue with both lists, a clock, owners | DeferredWorkQueue.cpp, DeferredWorkPackage.cpp |
| `SuspendableDWQ` | the four calls and the thread, over an abstraction of `Work()` | SuspendableDWQwithThread.cpp |
| `TTCE` | actions of the cyclic thread; extended by the next one | TriggeredThreadedCyclicExec.cpp |
| `TTCEStartStopCtrl` | controller, TTCE, work queue and clients together | TTCEStartStopCtrl.cpp |
| `SectionStore` | abstract: a map from names to contents that a call changes as a whole | - |
| `SectionStorage` | the blocks, and the algorithms on them as operators: free list, search for heads, repair | EEPROMSectionSystem.cpp, BlockAccessor.cpp |
| `EEPROMSectionSystem` | the calls, one step per block that is written, power failures and device errors | EEPROMSectionSystem.cpp, SectionWriter.cpp, SectionReader.cpp |
| `RemoteAccess` | abstract: what RODA and RODAN promise to a client | - |
| `RemoteAccessServer` | the base class | RemoteAccessServer.cpp |
| `WorkQueueBasedRemoteAccessServer` | the derived class, its work package, Start and Stop; extends the former | WorkQueueBasedRemoteAccessServer.cpp |
| `Multiplexer` | multiplexer, ports and their clients, over any server that keeps to `RemoteAccess` | Multiplexer.cpp, MultiplexerPort.cpp |
| `MessageLog` | abstract: order, limit, no silent loss, flush | - |
| `ThreadedLogFacility` | the queue, the thread, clients in `Flush` | ThreadedLogFacility.cpp, Logger.cpp |
| `MC*` | constants for TLC: the sets and which package belongs to whom | - |
| `*_proofs` | inductive invariants and proofs of the module of that name (`DeferredWorkQueue_proofs`: of `SuspendableDWQ`, too; `EEPROMSectionSystem_proofs`: of `SectionStorage`, too; `SectionStore_proofs`: that `EEPROMSectionSystem` implements `SectionStore`; `Services_proofs`: of `Multiplexer` and `ThreadedLogFacility`) | - |

### RWLock

`nbOfLocks` and `nbOfBlockedWriters` are the code's. `pc[t]` is the blocking call
thread `t` is in, `wake[t]` how its wait has ended (`waiting`, `signalled`,
`expired`, `cancelled`). `writeLocks` and `readLocks` are history: which requests
were granted; the code keeps counters only, and `LockInv` states that the
counters are right. Each call is an action for the case that it does not have to
wait (`WriteLock`), one for entering the wait (`WriteLockBlocks`), and one for
each end of it (`WriterAcquires`, `WriterFindsItLocked`, `WriterGivesUp`). Both
the timed and the untimed call are modelled; they differ in which waits may time
out and which may be cancelled. `SignalZero` is the code's helper that picks one
writer, or all readers. The scope guards of `WriteLock` that decrement
`nbOfBlockedWriters` and pass a wake-up on are part of `WriterGivesUp`. A read-lock request at the limit of the counter throws; the limit is
`Int32Max`, 2 in the run. A thread is cancelled only while it owns no lock, for
a cancelled owner would break the rules of `RWLock.hpp` itself.

### WorkQueue

`queue[q]` is the linked list; `state[p]` the package's atomic state; `current`,
`currentOwner`, `terminate` are the members of the same meaning. `worker[q]` is
where the thread of queue `q` is: outside `Work()`, waiting, woken, with a package
fetched, executing it, inside `Semaphore::Post` of a flush package, after the
execution, or unwinding an exception. The top of `Work()`'s loop is one operator,
`LoopTop`, used by the three actions that reach it with the mutex held:
`EnterWork`, `NextPackage` (which first finishes the executed package) and
`WakeUp`. Removing all packages of an owner unlocks nothing but is broken into one
action per package because each changes an atomic that other queues look at.

Clients are owners of packages. They call the API at any time, flush, and shut
themselves down as `IWorkQueue.hpp` and the FAQ in `async.dox` tell them: add
nothing any more; for each queue, `Remove` and then wait for the current package
(or flush). After `EndShutdown` of a queue nothing of the client may be left in
it. Two pieces of state exist only for properties: `flushed[c]` is what a flush
promised to wait for, and `sem[c]` whether the semaphore of a flush exists, was
posted, or is gone (`FlushProtocol`: it exists whenever a queue posts it, and the
flush does not return before what it promised to wait for has left).

### DeferredWorkQueue

The same structure for one queue (packages in several queues behave as in
`WorkQueue`) plus the sorted list `deferred`, the time `tp[p]` of each deferred
package, `now`, and `arrivals`, a history of the order of addition that the
refinement needs to say what "equal times in order" means. `waitsFor` is the package whose time is the timeout of the
worker's wait. The code passes a reference to the `tp` member of that package to
`TimeLimitedWait`; should `Remove` free the package meanwhile, the time can be
anything, so `Timeout` is then allowed at any time. `Decide(timeout, s)` is the
code after the wait: deferred packages only if the wait timed out (or was not
necessary), else normal packages.

### SuspendableDWQ

`ctrlStat` is the code's combined request and status; `call` and `callState` are the
thread inside the API mutex; `thread` is the created thread. The queue is
reduced to what `DeferredWorkQueue` shows of it: `Work()` runs packages one at a
time and returns, consuming `terminateDWQ`, between two of them. `StrayTermination`
is a user that calls `RequestTermination()` through `GetDWQ()`.

### TTCE and TTCEStartStopCtrl

`doing` is the list of calls that the cyclic thread still has to make without the
mutex: hooks and `OnStateChange`. A trigger is taken only when it is empty. A
cycle (`InStopped`, `InStarting`, `InWaitLock`, `InRunning`) changes `state` under the mutex and
fills `doing`; each element is then one action. `OnStateChange` appends a report to
`wq`, the controller's packages in the work queue, which are executed in FIFO
order, as `WorkQueue`'s refinement of `WorkExecutor` shows. `OnRun_WQ` and
`OnStop_WQ` are the packages' functors. `panic` becomes TRUE where the code calls
`PANIC()` or would be refused by the TTCE. `started` and `skipped` are history:
whether `OnStart` was called without `OnStop`, and how many triggers of the start
delay are to come. The owner calls `StopThread` only while a client holds sampling
stopped, which is how the header asks for it.

### SectionStore, SectionStorage, EEPROMSectionSystem

`SectionStorage` declares the constants and defines what does not depend on a call: the
records of blocks, `Torn` (what a write that is cut off leaves behind), `Newer` and
`NextVersion`, the search for a head by name, taking and giving back free blocks, and `Repair`,
the whole of `MountStep2`: find incomplete and outdated sections, collect garbage, rebuild the
list of free blocks. These operators take a storage and yield the blocks that are to be
written, in the order in which the code writes them.

In `EEPROMSectionSystem` a call is one step that decides what it writes, kept in `call`, and one
`StoreBlock` per block. That is faithful because calls hold the mutex and read nothing that they
have overwritten. `PowerFail` may come at any time; the block that is being written is then old,
or torn if the device writes sequentially (`CutOff`). `WriteFails` is an error that the device
reports. `writer` and `reader` are the open sections, which hold the locks of the lock
manager. A content is a sequence of tags, one per block; two names may have the same hash, and
they have in the run. Calls that the code refuses have no step.

`sections` and `formatting` are auxiliary. `sections` is what the storage holds, and it is
computed from the storage after each step by a definition that uses none of the algorithms
(`LiveHeads`). `SectionStore` says how it may change: only by the update of the
call in progress, as a whole. Formatting is the exception: from its first block until it is
completed, or until a storage whose formatting was cut off is mounted again, the sections are
undefined (`formatting`).

### RemoteAccess, RemoteAccessServer, WorkQueueBasedRemoteAccessServer

`RemoteAccess` is the contract of the RODA and RODAN interfaces as actions: when which
side may call what. `RemoteAccessServer` has the code's variables; an action is the code that
is executed with `apiMutex` locked, and `thread` says where the execution context is. While
it is in `InCallback`, `clientMutex` is locked; so `Unregister` waits exactly then.
`Unregister` has two steps because its announcement, `unregisterPending`, is an atomic flag that
`Work` looks at without a mutex. `WorkQueueBasedRemoteAccessServer` extends it by the derived class:
`wqState`, the work package and the deferred package in the queue, and the user in `Start` or `Stop`. Its
actions conjoin one of the base class with what `RequestWorkInvocationHook` does, which the
code calls with both mutexes locked.

`told` is auxiliary, and so is `panic`, which becomes TRUE where the code would call `PANIC()`. Of a request
only its identity matters; processing it may find no memory for the response.

### Multiplexer

The server is *any* server that keeps to `RemoteAccess`: its actions are instances of those of
`RemoteAccess`, and each callback lasts until the multiplexer has returned. `muxMutex`
is locked while `loop` is not `NoLoop`, or inside one action; `loop` says who visits which
port and which client it calls. Calls of the clients at the ports lock `portMutex`, or `muxMutex` too: those
that need `muxMutex` wait for the loop, the others (`Send`, `RequestExecutionContext`) come
between any two steps of it. A thread inside `Connect` or `Disconnect` is `user`.

Auxiliary are `informed` (what the client of a port was told) and `open` (the requests it
waits for, in order). A client that were given a response it does not wait for would be left with
`None` in `open`, which no step of the contract allows. Where the code panics there is no
step; `NeverPanics` says that such a state is not reached.

### MessageLog, ThreadedLogFacility

`queue`, `remainingCapacity`, the counters and `busy` are the code's; `messages`, `localDropped` and
`localFailures` are the local variables of the thread, which fetches the three pieces of shared state
in one step (`LoopTop`) and then works them off without the mutex of the queue: the messages one by one
(`DeliverMessage`, which also gives the capacity back), the report about losses (`ReportLosses`), the report
about messages that could not be created (`ReportFailures`). Whether the text can be built and every back-end
succeeds is a choice, `Delivered`. A message is an object of one of two kinds, limited or not. `Relock` is
the end of a turn: wake the flushes if nothing is left, and go on at the top of the loop. `written` is
history: it counts what has reached the back-ends.

`MessageLog` knows the messages on their way, which is the chain of the thread followed by the queue, and
which kinds of losses are still untold. A message leaves the front by being written or by becoming a loss, a
loss is forgotten only by a report that is written, messages are refused only at the limit, and a flush returns
only when nothing is on its way.

## 3. The runs

| run | instance | distinct states | what it shows |
| --- | --- | --- | --- |
| `rwlock` | 3 threads, 2 requests each, one recursive reader, counter limit 2 | 36 000 | `NobodyStranded`: no lost wake-up; `WritersGoFirst`: no reader gets in while writers wait; `ImplementsReadersWriters`: exclusion; `BlockingCallsReturn` |
| `rwlock_readable` | 3 threads, no recursion | - | finding 1 |
| `rwlock_recursive` | 3 threads, all recursive | - | finding 2 |
| `workqueue` | 2 queues, 1 client, 1 static and 1 dynamic package, 3 calls | 125 000 | `StateMatchesPlace`; `NeverSleepsOnWork`; `CleanedQueueIsClean`: the shutdown protocol; `FlushProtocol`; `ImplementsExecutor`: in order, and a package offered to two queues is never executed by both; `PackagesLeave`, `ClientsGetThrough` |
| `deferred` | 2 clients, 1 normal, 1 static and 1 dynamic deferred package, times 0..2, 3 calls | 273 000 | `NeverOversleeps`, `DestroyedClientIsClean`, `ImplementsExecutor` (no deferred package before its time), `DeferredPackagesLeave` |
| `suspendable` | any number of calls, 3 stray terminations | 200 | `SuspendedIsQuiet`, `SettledBetweenCalls`, `CallsReturn`, `ResumedQueueWorks`, and no deadlock |
| `ttce_ctrl` | 2 clients, 2 attempts, delay up to 2, limit of locks 2, any number of calls | 21 000 | `NeverUnexpected`: no `PANIC()`; `StoppedIsQuiet`; `HeldStopped`; `SamplingBracketed`; `StopCompletes`; `WaitersReturn`; no deadlock |
| `eeprom` | 5 blocks, 2 names with the same hash, 2 contents, versions modulo 4, 1 reader at a time, any number of calls, failures and mounts | 763 000 | `BlocksAccounted`: each block is in one place; `DefectOnlyByDevice`: nothing the code writes is later taken for damaged; `ReadersSeeOneVersion`; `EarlyReadsAreRight`; `ImplementsSectionStore`: calls are atomic |
| `eeprom_wrap` | the same without readers | - | finding 3 |
| `remote_access` | 2 clients, 3 requests, any number of calls | 3 300 | `NeverPanics`; `NothingStranded`: an invocation of `Work()` that is needed is on its way; `EverythingCompletes`; `ImplementsRemoteAccess`; no deadlock |
| `multiplexer` | 2 ports, 3 session IDs, 2 requests, any number of calls | 2 990 000 | `NeverPanics`; `NobodyForgotten`: ports that wait are visited, requests are under way, session IDs become free; `ImplementsRemoteAccess` at every port; no deadlock |
| `log` | 3 messages, 2 of them limited, capacity 1, counters up to 2, 5 calls that log, 2 clients, any number of flushes, starts and stops | 128 000 | `NobodyOversleeps`: no lost wake-up of thread or flush; `ImplementsMessageLog`: order, exact limit, no silent loss, flush; `CallsReturn`: `Flush` and `Stop` return; no deadlock |

**Why the bounds are enough to be interesting.** `RWLock`: with three threads
there is a state with one owner and two blocked writers, one with a writer and a
reader both blocked, and one where the signalled writer loses against a
`TryWriteLock`; two requests per thread let a thread come back after a timeout.
The limit 2 of the counter is reached. `WorkQueue`: three calls of a client with two
packages and two queues reach all four states of the static package with both threads
working, a package that re-enqueues itself, a flush behind other packages, and removals of both. Shutdowns do
not count as calls: every client can always finish. More clients and longer queues are covered by the
proofs. `DeferredWorkQueue`: with two deferred packages and three points in time a
package can be added in front of, at, and behind the one the worker waits for,
and removed while it is waited for. `SuspendableDWQ` and `TTCEStartStopCtrl` bound
no number of calls; two attempts let a restart fail and the counter run out, a
delay of two tells "skip n triggers" from "skip n - 1". `EEPROMSectionSystem`: with four blocks
besides the info block a section of three blocks fills the storage, or two sections of
two; a section can be replaced while the old one exists; both names collide in their
hash, so that each search meets heads of the other name; chunks of two make the release of a
section of three blocks take two turns of the loop. `WorkQueueBasedRemoteAccessServer`: three requests let one be processed, one wait and one be
sent again; the second client registers while the first one's callback has just returned. `Multiplexer`: with
three session IDs, the fewest for which a port can be neither full nor back at its start, clients use up
and reuse them; with two ports one may be called while the other one calls, and a loop has
one behind and one in front of it. `ThreadedLogFacility`: with room for one of two limited messages
some are dropped while another one waits or is being delivered; five calls let both counters saturate and
still leave a message to trigger the next turn. The properties that are also proved hold whatever the bounds.

Bounds by name: `MaxCalls` (requests per thread of `RWLock`, calls of all
clients together in the queues), `MaxTime` (the clock stops there), `MaxStray`,
`MaxDelay`, `MaxLogs`, `MaxAttempts`, `NBlocks`, `MaxReaders`, `NPorts`; limits of the code made small are
`Int32Max`, `MaxNbOfLocks`, `MaxCount` (255), `NVersions` (2^16 in the code), `NSessions` (2^8), `DeleteChunk`
and `MountChunk`.

Deadlock is checked in `suspendable`, `ttce_ctrl`, `eeprom`, `remote_access`,
`multiplexer` and `log`. In the other runs the calls
are bounded, so the system really stops when they are used up; whether somebody is
then left waiting is what the liveness properties and `NeverSleepsOnWork`,
`NeverOversleeps`, `NobodyStranded` say.

Each property of a passing run has a mutant in `PROJECT.json`: a changed
definition (a signal that is not sent, a check that is not repeated after a
wait, a wrong order) with which TLC finds the property violated.

## 4. Fairness

* **RWLock**: weak fairness for a woken thread to go on (`ResumeThread`), because
  the operating system schedules it and the mutex is held for short sections only,
  and for owners to release their locks. None for requests, timeouts, or the
  ends of waits. `BlockingCallsReturn` excludes one case, a thread that waits for
  a second read-lock behind a writer that waits for its first one (finding 2).
* **WorkQueue**: weak fairness for each queue's thread, for removals in progress
  and for clients inside a call. Packages return after finite time, and a thread
  that has left `Work()`, because it was asked to or because of an exception,
  enters it again: a flush promises nothing while no thread works. Nothing obliges
  a client to call anything, a package to throw or a thread to wake spuriously.
* **DeferredWorkQueue**: weak fairness for the clock, the worker and clients, strong
  fairness for the timeout: spurious wake-ups may interrupt the wait again and
  again, but not for ever. As above the thread enters `Work()` again. One kind of starvation is hidden by the bound on calls:
  a normal package added during each wait would overtake a due one each time
  (see the observations in section 6).
* **SuspendableDWQ**: weak fairness for the thread and for the call. Packages end.
* **TTCEStartStopCtrl**: weak fairness for the work queue, clients that wait, and the
  owner to start the thread again after it stopped it; strong fairness for the
  cyclic thread, as the owner may stop and start it between triggers: it must not
  be cancelled before every trigger for ever.
* **WorkQueueBasedRemoteAccessServer**: weak fairness for the execution context, which is the
  thread of a work queue; strong fairness that the processing of a request finds
  memory for the response sometimes, for the code retries until it does; weak fairness
  for `Unregister` and for the two ends of `Stop`. `Unregister` has no strong fairness, as mutexes are not
  fair: `EverythingCompletes` needs that `Work` steps aside when `unregisterPending` is set. A request is
  answered or dropped provided the client does not ask for the execution context again
  and again (the loan goes first), and `Unregister` returns provided the server is not started and
  stopped for ever.
* **ThreadedLogFacility**: weak fairness for the thread (back-ends return), for `thread.Join()` and
  for each client that has been woken in `Flush`. None for calls. A flush also waits for what is logged while it
  waits, so it returns because the number of calls that log is bounded, and only while nobody stops
  the facility.
* **EEPROMSectionSystem** and **Multiplexer** state safety only. The calls of the section
  system do not wait for each other. For the multiplexer `NobodyForgotten` says of every state that what
  somebody waits for is on its way; that it arrives is the server's liveness.

## 5. The proofs

All proofs are checked by TLAPS from the assumptions named in the modules:
`ConstantsAssumption` (RWLock: a finite set of threads, a positive limit; WorkQueue and
DeferredWorkQueue: disjoint sets of packages and clients, who owns what; ThreadedLogFacility: a
positive capacity and limit of the counters), `MaxStrayAssumption`,
`MaxDelayAssumption`, `CtrlAssumption` (a finite set of clients), `NoneAssumption`
(RemoteAccessServer and Multiplexer: `None` is no client and no request, no message),
`PortsAssumption` (at least one port, at least three session IDs), `StorageAssumption`
(EEPROMSectionSystem: at least three blocks, at least three versions, positive numbers of blocks that
are written per step, hashes that are positive numbers). They hold for all values of
the constants that satisfy them; TLC evaluates the assumptions in the runs.

**RWLock_proofs.** `TypeCorrect`, `LockCorrect`, `CountCorrect`, `NoLostWakeup`
(which is `NobodyStranded`), `NoReaderOvertakes` (the action property `WritersGoFirst`),
`Refinement`. The inductive invariant is

    IInv == TypeOK /\ LocksCounted /\ BlockedWritersCounted /\ PendingUngranted

`TypeOK` alone is not inductive: `nbOfLocks` stays at or above -1 only because a
release is done by an owner, which needs `LocksCounted` (the counter is the number of
read-locks in `readLocks`, or -1 with one writer); `LockInv` adds the limit, which follows
from the type. `nbOfBlockedWriters` stays natural
only because it counts the threads in the loop (`BlockedWritersCounted`). A thread in
a call does not own what that call asks for (`PendingUngranted`), so a grant adds
exactly one lock. No lost wake-up is proved on top: whichever action makes the lock
free or gives up its turn has called `SignalZero`, and `HandOver` says that then a
writer is on its way, or no reader sleeps. The refinement maps the history variables and
shows that each action is a grant, a release or a stutter.

**WorkQueue_proofs**, the queues. `InOnePlace`, `StatesMatchPlaces`, `NoLostWakeup` (which is
`NeverSleepsOnWork`), `Refinement`.

    IInv == Types /\ Places /\ Matching /\ NeverSleepsOnWork

The state of a static package is changed by whoever holds the mutex of *some* queue. It is
enough that `Add` claims it with one atomic comparison: a package is in one place (`Places`), and
its state says which (`Matching`). Neither is inductive without the other: the worker may
move on from a package only because nobody else can have it, and nobody else can have it
because the state says that it is taken. The refinement appends what a queue executes to the
history of `WorkExecutor`; it needs that a package is in one list at most.

**WorkQueue_proofs**, the clients. `TypeCorrect`, `ShutdownLeavesNothing` (which is
`CleanedQueueIsClean`), `FlushWaitsForAll` (which is `FlushProtocol`). It adds the clients to that
invariant: where the flush package of each client is (`QueueOK`, `PackageOK`), what
is in front of it in the list (`PromiseOK`: all the packages the flush has promised to wait for, or
they have left), and that nothing of a client in shutdown comes back to a queue it has passed
(`ShutdownOK`). The semaphore on the stack outlives the `Post` because the flush package stays in
the state `staticExec` until the flush mutex is released.

**DeferredWorkQueue_proofs.** `TypeCorrect`, `NobodyOversleeps` (`NeverOversleeps`),
`ShutdownLeavesNothing` (`DestroyedClientIsClean`), `Refinement`.

    IInv == TypeOK /\ NeverOversleeps /\ Executing /\ ListInv /\ CleanAll

Every change of a list inserts one package at some place or leaves a set of packages out; a
handful of lemmas about sequences say what that does to the elements, to the first of them and to the
order, and the steps of the queue only cite them. `ListInv` says that a package is in one place, that
its state says in which one, and that the deferred list is sorted by time, those with equal times by
arrival (`Sorted`). From the last one follows that the head of the list is what
`DeferredExecutor` starts next, although the abstract list is kept in the order of arrival. `CleanAll`
says from which point of a shutdown on nothing of a client is in a list, and from which point
on nothing of it is executed; the second is a consequence of the semaphore of the flush, or of
`pOwnerOfCurrentExecutedWP`.

**DeferredWorkQueue_proofs, the thread** (about `SuspendableDWQ`). `Quiet`, `SettledCorrect`,
`NeitherSideOversleeps`. The invariant lists the phases `Settled`, `Suspending`, `Resuming`, `Stopping`; in each it says where
the thread may be and what has been signalled. It makes no statement about
`terminateDWQ` while the queue runs: that is why stray terminations do no harm, however
many there are.

**EEPROMSectionSystem_proofs.** `StorageIsSound` (`StorageInv` holds in every reachable state),
`BlocksAreAccounted` (`BlocksAccounted`), `OnlyTheDeviceMakesDefect` (`DefectOnlyByDevice`), `RepairKeeps`, `NeverAmbiguous`, for any
number of blocks, names, versions and readers, any assignment of hashes, and any interleaving of
calls, power failures, errors of the device and mounts.

    StorageInv == /\ IsStorage(storage)
                  /\ Compatible(HeadsAhead(storage, call.writes))
                  /\ call = Idle  => BetweenCalls
                  /\ call # Idle => DuringCall

Between two calls of a mounted storage the blocks are
partitioned: an info block, the list of free blocks, one chain per head, and the chains of the open
writers (`IsLayout`). During a call the storage *will* be such a layout after the writes that are left
(`After`); one lemma `...Keeps` for each kind of call shows that its list of writes does that.
`Compatible` is what must hold at any time, because the power may fail: two heads that a
mount could take for two versions of one section (they have the same name, or lead to the same
data) are rivals in pairs only, and differ in version; the heads that the call is about
to write count, too. From this follows that a mount never finds two
heads it cannot tell apart (`NeverAmbiguous`), so that only the device brings the state `defect`, and that the
repair of *any* such storage, whatever else a write that was cut off has left in it, succeeds and ends
in a layout (`RepairKeeps`); so the invariant has nothing to say about garbage.
The algorithms walk along linked blocks and over all blocks in order. They are recursive functions on
numbers, and what they compute is proved by induction in the form "a set of numbers that contains 0
and with each number the next one contains all of them" (`SetInduction`), which needs no
operator as a parameter.

**SectionStore_proofs**, on top of the former. `SectionsAreSound`, `OneVersionIsRead`
(`ReadersSeeOneVersion`), `EarlyReadsAreSound` (`EarlyReadsAreRight`), `StoreIsImplemented`
(`ImplementsSectionStore`). `StorageInv` says which blocks are used, not what a section contains. The
second half of the argument is about contents. The heads that count in a storage (`Alive`) are those that a
mount would keep: the chain of such a head is intact and disjoint from the others, and of two rivals
one counts. Their `Image` is where each section is and what it contains. A list of writes
is `Quiet` if none of its blocks is a head or part of a chain of a head that counts, and `Atomic` if
one of its writes, the third at the latest, replaces the image by another and the others leave it alone: that of the new head, or,
when version numbers wrap, that over the old one. A write that is cut off leaves one of the two images, so power
may fail at each of them. There is one lemma `...Changes` for each kind of call, that its writes are atomic and
change the sections as the call says; `RepairQuiet` says that the whole repair is
quiet, whatever an earlier failure left.

    SectionInv == /\ sections = Sections(storage)
                  /\ ReadersApart
                  /\ formatting => state # "mounted"
                  /\ call = Idle  => Resting
                  /\ call # Idle => Changing

`Resting` says that the storage has an image, from which the readers read; `Changing` that the writes that are left
are atomic and lead to what the call is to change, which no reader reads (`ReadersApart`: the locks).
Only together with `StorageInv` is this inductive: a call that begins chooses free blocks, and
these lie outside of all chains because of the layout. The refinement then says of each step which one of `SectionStore` it
is: a block is `Progress`, the last block `Return`, a power failure `Fail`. `NewestFinds` says that `Open`
before the repair finds a head that counts; it needs that no version has the largest value, and
finding 3 shows that it must.

**TTCEStartStopCtrl_proofs.** `TypeCorrect`, `Expectable`, `Quiet`, `Held`, `Bracketed`,
`Delayed`. The key is to look at all reports *in flight*: those in the work queue
followed by the one the cyclic thread has still to send. `Expected(ctrl, requests,
state, reports)` lists, for each state of the controller, which requests may be
pending, in which state the TTCE may be, and which reports are in flight: never more
than three, in a fixed order (running; stopped by an error; stopped as requested). The
steps of the TTCE lengthen the list at its end, those of the controller shorten it
at its head, and sending moves a report without changing it. `DoingMatches` ties
the calls to come to the state and to `started`; `DelayKept` ties the history of the
delay to the counter. With this, each `PANIC()` is unreachable because no expected
list has that report at its head in that state.

**RemoteAccessServer_proofs.** `Typed`, `Safe` (`NeverPanics`), `NothingIsLost`
(`NothingStranded`), `Refinement`, about the server with its work queue. Two
classes keep a state each, under mutexes of their own, about the same thing. The invariant says for
every pair of states which of the two packages is in the queue and where the thread may be;
a `PANIC()` stands for a pair that does not occur. `NoRetry` is part of it: the state
`RetryInvocation` is never entered. The refinement needs that `Unregister` cannot return while
the thread is in a callback.

**Services_proofs, the multiplexer.** `TypeCorrect`, `Safe` (`NeverPanics`), `NobodyIsForgotten`
(`NobodyForgotten`), `Refinement`: every port is a RODA/RODAN interface, for any number of ports,
of session IDs and of requests.

    IInv == /\ Control
            /\ NothingPending
            /\ \A p \in Port : SessionsInv(p) /\ ServedInv(p)

`Control` relates the states of server, multiplexer, loop and ports. `SessionsInv` is why
session IDs can be reused: the messages of a port that are inside the server are answered in
order, their sessions lie between the oldest used and the current one and are sorted, and once
these two are more than one apart, a ping is among them. So when the
ping comes back, everything older has been answered. `Matches` maps the requests the
client waits for to the messages of the current session, one to one and in order; a response of another
session cannot be mistaken for one of them. `ServedInv` is the part about ports that wait: the server
owes a loan, or a loop has still to visit the port. A step lemma deals with each action and each
part of the invariant; lemmas about `Rank` (how many sessions after another one a session is)
hold the arithmetic modulo the number of session IDs.

**Services_proofs, the log facility** (independent of the multiplexer). `LogTypeCorrect`, `NoLostWakeup`
(`NobodyOversleeps`), `LogRefinement`.

    LogIInv == LogTypeOK /\ Accounting /\ ThreadInv /\ NobodyOversleeps

`Accounting` says that the remaining capacity is what the limited messages in the queue and in the hands
of the thread leave over. Without it nothing could be proved about wake-ups: `Log` does not signal when it
drops a message, and the thread would sleep on the counter. But a message is dropped only
when no capacity is left; then a limited message is on its way, and that one has woken the thread
(`AsleepMeansCapacity`). It is enough that the capacity is positive; the constructor asks for 8. The
refinement appends to and takes from the concatenation of chain and queue.

## 6. Findings

1. `rwlock_readable` (code): the time-limited `WriteLock` and the untimed one
   wake others only if the lock is free when a writer gives up. If readers own the
   lock, other readers that wait because of that last writer are not woken, though
   the lock is readable; they sleep until the last reader leaves. `RWLock.hpp:115`
   says the condition variable signals exactly that event. They do not
   sleep for ever (`BlockingCallsReturn`).
2. `rwlock_recursive` (documentation): `RWLock.cpp:292` promises that a thread that
   owns a read-lock gets another one immediately; with a blocked writer it waits,
   and for itself.
3. `eeprom_wrap` (documentation): `EEPROMSectionSystem.hpp:75` promises that after a power
   failure a call has happened as a whole or not at all, and
   `EEPROMSectionSystemInternals.hpp:101` that versions wrap at 0xFFFF. The comparison calls
   version 0 newer than the largest one, but it does not call the largest newer than the one below.
   If `Rename` writes a head with the largest version and power fails before the old head is
   released, both names can be read after `MountStep1`, and `MountStep2` keeps the
   old one. `EarlyReadsAreRight`, which `eeprom` checks, is the same property without this case.

Observations for which there is no run:

* `DeferredWorkQueue.hpp:39` gives due deferred packages priority over normal ones. `Work()` decides by how its
  last wait ended: a normal package that ended it is taken first although a deferred one has
  become due since. `DeferredExecutor` therefore promises no priority.
* `Logger.hpp` says that the special message about losses is repeated until it is properly delivered.
  If a back-end fails to process it, `DeliverMessages` counts that as a loss, and the next report
  comes with the next turn of the thread: when something else is logged. `MessageLog` therefore promises that a loss
  is remembered, not that it is told eventually, and `Flush()` may return with a loss untold.

* The state `RetryInvocation` of `WorkQueueBasedRemoteAccessServer` cannot be reached. `Work()`
  of the base class requests its next invocation itself before it returns, so the
  package is already in the state of a requested invocation when
  `WorkQueueBasedRemoteAccessServer.cpp:353` looks at it. The delay of the constructor
  (`oomRetryDelay`) therefore never takes effect: without memory for a response the server tries
  again at once. `RemoteAccessServer_proofs` proves it (`NoRetry`).
* `Multiplexer.hpp` says that the session ID is incremented each time a client registers. The
  code does so only if the session was used.

## 7. What is only model-checked, what is not modelled

TLC only: all liveness (`BlockingCallsReturn`, `PackagesLeave`, `ClientsGetThrough`,
`DeferredPackagesLeave`, `CallsReturn`, `ResumedQueueWorks`, `StopCompletes`,
`WaitersReturn`, `EverythingCompletes`, `CallsReturn` of `log`), because fairness and ENABLED are out of the prover's
reach. Every invariant, every action property and every refinement that a passing run checks is also proved,
for all values of the constants (section 5); the runs show what the proofs cannot, that the
interesting cases happen and that changed definitions are noticed.

Not modelled inside the modelled parts:

* Everywhere: failures of the operating system's primitives that the code turns into
  `PANIC()`; exhaustion of memory, except where the code goes on after it (the response of the
  remote access server, `Add` of a dynamic package, which throws without effect).
* TTCEStartStopCtrl: the callback that repeats its call after `OnBadAllocWQ`; cancellation of the
  cyclic thread inside a hook (the hooks decide themselves whether they are
  cancellation points).
* DeferredWorkQueue: packages shared by several *deferred* queues.
* EEPROMSectionSystem: `Enumerate`, `DetermineSize`, `GetFreeSpace` and the like, which only
  read; cancellation of a thread inside a call; write counters of blocks and the
  bytes inside a block; the lock manager itself (an open section holds its lock).
* Remote access: what a request does to the object dictionary; `ThreadBasedRemoteAccessServer`;
  requests that `Send` refuses leave no step; sizes of messages; return stack
  items other than those of the multiplexer, and its owner ID (items of other owners
  never reach it); checks of the destructors.

* ThreadedLogFacility: registration of loggers and back-ends and the log levels (lists and settings under
  `mutex`, which the thread holds during a delivery); cancellation of a thread in `Flush`;
  two threads in `Stop` at a time (`Thread::Cancel` refuses the second one); the destructor, which releases what
  is left in the queue; how reports count what is lost once a report was lost.

The components of 1.3 are not modelled at all. Most of the repository is tests, and much
of the rest is sequential: data types, parsing and printing, the command line interface, the
object dictionary's accesses.

## 8. The plan

Done: all modules of section 2 and eight proof modules.

Left, in this order:

1. **ThreadBasedRemoteAccessServer**: a second derived class over `RemoteAccessServer`.
2. **Named locks** against a reference definition of conflicting paths;
   **HeapManager** as an allocator: blocks partition the heap.
3. **Multiplexer** over `RemoteAccessServer` itself, with liveness: every client
   gets ready and every request is answered. With one port TLC can check it (13 000
   states); with two, where ports compete, the graph is too large for a run of minutes.
4. Proofs: whatever the first three items bring. Of what exists now only liveness is not proved, and
   it stays with TLC.

## 9. How to run it

Parse a module with SANY, check a run with
`tlc -workers 2 -config MCRWLock.cfg MCRWLock.tla` (the pairs are listed under `runs`
in `PROJECT.json`), and check proofs with `tlapm RWLock_proofs.tla`. The two largest proof modules take about ten minutes each.
