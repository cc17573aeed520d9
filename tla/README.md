# Formal model of WIKDD

TLA+ specifications of the drivers and the console client of this repository,
the TLC configurations that check them on small instances, and TLAPS proofs of
what holds for every instance. `PROJECT.json` maps every definition to the lines
it stands for; this file is the guide to it.

    tlc -workers 2 -config ThreadPool_late.cfg ThreadPool
    tlapm ThreadPoolProofs.tla

## The system

WIKDD watches a Windows machine from the kernel. `FilterDriver` is a minifilter
that sees file operations, processes, images, threads and registry accesses,
writes a line of text about each, and sends it to `ConsoleApplication1` through
a filter communication port; a pool of five kernel threads does the sending.
`MainDriver` is an older driver with the same pool behind IOCTLs, and a table of
processes that cannot be terminated. The console client has a user-mode pool of
its own, whose threads wait for the messages.

| component | state | operations | interacts with |
|---|---|---|---|
| kernel thread pool, `FilterDriver/threadpool.c`, copied in `MainDriver/` | two events, the list and its spin lock, the handle array | `TpInit`, `TpUninit`, `TpEnqueueWorkItem`, `TpWorkerThread` | its callers; the kernel scheduler |
| process protection, `MainDriver/process_protect.c` and `main.c` | `globals.Pids`, `globals.PidsCount`, a spin lock | three IOCTLs, `OnPreOpenProcess` | clients of `MyDeviceControl`; the object manager's callback |
| event pipeline, `FilterDriver/main.c` | `gClientPort`, five monitoring flags, a context per operation in flight, a message per event | 17 file callbacks, four notify and registry routines, connect, disconnect, message, `SendWorker` | the pool; the client; the filter manager |
| life cycle, `FilterDriver/main.c` | what is registered, `gThreadPool`, `gServerPort` | `DriverEntry`, `FilterUnload` | everything above |
| user-mode pool, `ConsoleApplication1.cpp` | as the kernel pool, with an `SRWLOCK` | the same four | `GetWorker`, `UnitTest1` |
| console client | the port, the pool, `output.log` and its lock | `main`, `GetWorker`, `CommunicationWithDriver` | the pipeline's port; its user; whoever kills it |
| MainDriver pool IOCTLs and life cycle, `MainDriver/main.c` | `hasBeenInitialized`, the device extension, what is registered | `INIT`, `PROCESS`, `UNINIT`, `TEST_TPOOL`, `DriverEntry`, `MyDriverUnload`, the observers | the pool; several processes |
| `wikdd6k` | `gClientPort`, `gServerPort` | `PreCreate`, connect, disconnect, message, `DriverEntry`, `FilterUnload` | the client, synchronously |
| `DriverFirst` and `DriverSecond` | one device extension, the device objects | `IOCTL_MY_DRIVER_FORWARD`, load, unload | each other, through the I/O manager |

What is hard about it: the callbacks run on any thread at any time, and the
pool's workers, the unloading thread and the client's disconnection run beside
them. The pool rests on one auto-reset event for any number of items, and on
tests made outside the lock. The process table is searched and changed in two
critical sections, and its counter is read in none. Every path of the pipeline
allocates something that a later callback, on another thread, has to free, and
the later callback decides by globals that may have changed. `DriverEntry` undoes
its failures by hand, or not at all. MainDriver has one pool for all processes and
nothing that keeps their requests apart. The client's receivers open the file
they log to, which the driver reports to them. Nothing but `output.log` is persisted, so there is no recovery to model.

What makes each part correct:

* pool: no lost wakeup; each item executed once and freed once; nothing that was
  queued before `TpUninit` is dropped; `TpUninit` returns, with no worker left;
* protection: a promise to protect is kept whatever interleaves; the counter
  never causes a refusal while there is room, or an early stop with work left;
* pipeline: everything allocated has one owner until it is freed; the port used
  is the open one; a queued message is disposed of in bounded time;
* life cycle: nobody uses the pool after it is freed; an unloaded driver is quiet;
* client: a delivered message is logged once or its loss is accounted for, through
  any death of the process; some thread comes to receive;
* MainDriver's requests: used one after another from one process they lose no work
  and never stop the system; otherwise, exactly what each disorder costs;
* `wikdd6k`: a process that opens a file gets it;
* forwarding: no request uses another's file object, or a device that is gone.

## Modules

`WorkQueue` is what the kernel pool promises: items start once, oldest first;
closing takes what is left newest first, and ends only when what was there
before has finished. It has no threads, events or locks.

`ThreadPool` is the kernel pool step by step. `owner` is the thread that calls
`TpInit` and `TpUninit`, with its loop counter `index`; `worker[t]` and `holds[t]`
are a `TpWorkerThread`; `call[i]` is the call of `TpEnqueueWorkItem` for item `i`.
A section under `PoolLock`, an event operation and a thread creation are one step
each: nothing blocks inside them, and between two of them anything may happen.
The kernel gives the event to a blocked waiter inside `KeSetEvent`; that is the
behaviour where the waiter steps next. When both events are set the wait reports
the stop, the lower index. `TpInit` may fail to allocate the array
(it then calls no `TpUninit`: `owner = "failed"` at once) or to create any of the
threads, and the pool can be started again. `TpUninit` is also called of a pool that is not
up, and that is `TpUninitAgain`: `cleanup` of MainDriver (`main.c:229-234`, whose test is
always true) and `FilterUnload`, after a `DriverEntry` that ignored the failure
(`main.c:2344`), give it a pool whose `TpInit` failed, and `UNINIT` one that a cleanup
took down. `NumberOfThreads` outlives the array, so the first handle is read
through `NULL` and the system stops (`owner = "bugcheck"`). `LateCalls` says whether
`TpEnqueueWorkItem` may be called of a pool that is not up, during `TpUninit` or after a
failed `TpInit`: it is not in `TEST_TPOOL` and `UnitTest1`, it is in FilterDriver, whose
file callbacks are stopped last. `Abstract` is the refinement mapping to
`WorkQueue`: the list is `pending`, what a worker or `TpUninit` holds (`Started`) is
`running`, and `Phase` reads open, closing or closed from where the owner is.

`ProcessProtect` is the table with its counter, one `at[c]` per thread inside
`MyDeviceControl`. A critical section is one step, so is a read of `PidsCount`
outside it: `ProtectFind`, `ProtectLimit`, `ProtectAdd` are the three steps that
lines 303-330 of `MainDriver/main.c` make. Input buffers are sequences of ids; a size that
is no multiple of `sizeof(ULONG)` is `Ragged`. `promised` records which ids a
caller was told are protected. Its update is in the step that decides.

`EventPipeline` is FilterDriver at work. An event is one thing that happens; `at`
says where its callback is, `scratch` what the callback holds besides the message
(completion context, image path or key name), `msg` its `MY_CUSTOM_MESSAGE`. A
step is what a callback does from one test of `gClientPort`, of a flag or of the
pool to the next. The six file operations share `PreOperation`, `PostOperation`
and `SafeCallback`; the create operation alone reports from its post callback
without waiting for a safe moment, as in the code. The port test and the flag
test of one `if` are read together. `Interrupt` keeps the history the leak
property needs: which operations saw monitoring stop while they were in flight.
The pool is `Pool == INSTANCE WorkQueue`, which `ThreadPool` implements; the
pipeline uses its oldest-first part. What the filter manager does is assumed: it
admits one connection (the `1` in `CreateCommunicationPort`), and frees that
place when `FltCloseClientPort` closes the connection, so that a client may
connect before `DisconnectNotifyCallback` has gone on. `FltSendMessage` returns
because its time-out is a second. Text, paths, timestamps and registry class
names are left out, but for the one thing that changes control: a registry text
that does not fit.

`FilterLifecycle` is `DriverEntry`, one step per registration with its failure,
`FilterUnload`, one step per removal, and callers that are inside a routine and
may queue. Removing a notify or registry callback waits for the calls inside;
so does `FltUnregisterFilter`.

`UserThreadPool` is the client's pool, with the same variables as `ThreadPool`
where the code has the same fields. It differs where the code does: `TpInit` has
an event or an allocation that may fail in five places and goes through `TpUninit`
for each (`TpInitFails`, `CreateThreadFails`), handles are counted as they are made,
and the drain of `TpUninit` is translated as it is written. `DrainRemoveTail`
takes the lock, which is therefore a variable; `DrainCallRoutine` is the
call through the wrong member (`CONTAINING_RECORD(entry, MY_WORK_ITEM, WorkRoutine)`),
which jumps to data, or, should the jump come back, the second acquisition of the
lock. The caller queues from the thread that will stop the pool, or has joined those
that do, as `UnitTest1` and the client's `main` do: no late calls here. It is run
as it is, without an MC module.

`ConsoleClient` is the client's process over that pool: it EXTENDS nothing of it but
instantiates it, as `Pool`, and takes its actions whole. `main` connects, runs `TpInit`,
queues its items and waits; `receiver[t]` is where thread `t` is in `GetWorker`,
`hand[t]` what it received, `outcome[m]` what became of a message. `ProcessEnds`
resets all that dies with the process, at any moment; `output.log` and the driver
stay, and the client may be started again. The other end is the part of
`SendWorker` a client sees: a message is offered, received, or timed out; the
driver may unload.

`MainDriver` has the four pool IOCTLs, the life cycle and the observers. `TpInit` is
one step there, `TpUninit` three (stop, join, drain), a worker takes and runs one
item at a time: what happens inside is `ThreadPool`'s subject, what happens when
two requests, or two pools, meet is this module's. `blame` is a history variable: the
first thing that was out of order (`failed`: a call of the system failed;
`noInput`: an `INIT` without a buffer, whose `SystemBuffer` is `NULL` and is read all the same;
`overlaid`: a pool made over a live one; `foreign`: `UNINIT` from a process that does not own
the handles; `overlap`: two requests at once). The properties
say what is promised while it is `none`, and `crashed` names where the system
stops otherwise. A thread waiting on an event that `INIT_TPOOL` makes anew is
`stranded`. After an `overlap` no further request is sent: nothing is promised any more.

`WikddFilter` is `wikdd6k` with the receivers of its client, because the two form a
loop: `PreCreate` waits in `FltSendMessage` without a time-out until a receiver
takes the message, and a receiver that has one holds `fLock` and opens a file.
`creating[t]` is where a thread, receiver or not, is in its `IRP_MJ_CREATE`.

`DeviceForward` is DriverFirst's `MyDeviceControl` for `IOCTL_MY_DRIVER_FORWARD`, one step per access to
the device extension, for several senders, with both drivers loading and unloading.
File objects are counted because the unload of DriverSecond waits for them.

The first section after `Init` of each of these modules holds slips: each definition
there is a mistake that a change of the code could make (a signal only for
the first item, a search by the counter), and stands in for the step it is named
after to show that a property notices. In `MainDriver` each stands before its
step. None is part of `Next`.

`MCProcessProtect`, `MCEventPipeline`, `MCFilterLifecycle` give what a configuration cannot
say; the other modules are run as they are. `ThreadPoolProofs`,
`UserThreadPoolProofs`, `ProcessProtectProofs`, `EventPipelineProofs`,
`ConsoleClientProofs`, `MainDriverProofs` and `WikddFilterProofs` hold the proofs of the
modules they are named after, `LifecycleProofs` those of `FilterLifecycle` and
`DeviceForward`, whose definitions have names of their own for that (`ForwardInit`,
`ForwardSpec`, ...).

## What TLC checks

| run | configuration | instance | properties | states |
|---|---|---|---|---|
| `pool` | `ThreadPool_late` | 3 threads, 3 items, late calls, fair | `NoUseAfterFree`, `NoLostWakeup`, `NoBugCheck`, `OwedAreExecuted`, `WorkersGone`, `ImplementsWorkQueue`, `QueuedIsExecuted`, `UninitReturns` | 322,317 |
| `protect` | `MCProcessProtect_two` | 2 callers, 3 ids, 2 slots, buffers of up to 2 | `CountCovers`, `CopiesBounded`, `PromiseKept`, `EarlyStopLeavesNothing`, `RefusedOnlyWhenFull` | 1,264,156 |
| `events` | `MCEventPipeline_fair` | 2 events, one of any kind, 1 sender, 2 connections, fair | `PortAgrees`, `ScratchReturned`, `MessageOwned`, `QueuedIsFreed` | 512,260 |
| `driver_any` | `MCFilterLifecycle_any` | 3 callers, any failure | `UnloadedIsQuiet`, `NotifyBeforeFree` | 10,483 |
| `driver_enqueue` | `MCFilterLifecycle_enqueue` | 1 caller, no failure | `EnqueueOnValidPool`, violated | |
| `driver_uninit` | `MCFilterLifecycle_uninit` | 1 caller, the thread registration fails | `UninitOnValidPool`, violated | |
| `userpool` | `UserThreadPool_fair` | 3 threads, 3 items, fair | `OutliveThreads`, `ReturnMeansDone`, `InitReturns` | 91,419 |
| `userpool_rest` | `UserThreadPool_rest` | 2 threads, 2 items | `RestProcessed`, violated | |
| `client` | `ConsoleClient_fair` | 2 threads, 3 messages, 2 senders, 2 starts, fair | `Accounted`, `WaitsForEver`, `SomeoneReceives`, `HandedIsSettled`, `LostPortEndsReceivers` | 145,512 |
| `main_driver` | `MainDriver_ioctl` | 2 processes, 3 requests, 1 failure, fair | `CrashHasCause`, `NumberExact`, `UnloadUndoesEntry`, `RequestReturns` | 207,309 |
| `wikdd` | `WikddFilter_fair` | 3 receivers, 2 openers, 3 opens, 3 connections, fair | `EchoConserved`, `PortAgrees`, `StuckStays`, `MutedStays`, `OpenReturns` | 513,908 |
| `device_forward` | `DeviceForward_fair` | 2 senders, 3 file objects, 2 loads of DriverSecond, fair | `CrashHasCause`, `FilesBalance`, `UnloadCompletes` | 283,705 |

Why these bounds. In the pool two workers are enough to race for an item and for
the event, a third to find a partly created array in the middle; three items make
signals coalesce while a worker is busy and still leave some for `TpUninit`.
The real table has 256 slots; it matters only whether a slot is free, and three ids
on two slots reach the limit and a counter that `CLEAR` left too high.
`CountBound` stops `CLEAR` once the counter is beyond 2:
each further `CLEAR` only raises it by as much again. An event of the pipeline
shares with others only the globals and the pool, so one event of each kind beside
one of the three shapes (immediate, deferred, registry) meets every change of port
and flags; with one sender one message waits behind the other. Two connections give a
client that comes back, once before and once after the disconnect has finished.
Three receivers of the client would add nothing to two that compete for the log;
three messages let one be in the log, one in hand and one in the port. In MainDriver three requests
are the longest sequence that matters: make a pool, make it again or use it, stop
it; one failure may be any call. `TestItems` and `TestLoop` stand for 100000 and 1000: they
have to differ from what `PROCESS` adds. In `WikddFilter` three receivers are needed for
one in `PreCreate`, one waiting for the lock and one still free; three connections
for one that overtakes a disconnect and one after it. Two overlapping requests are
what the device extension can confuse; a third file object and a second load let
a stale pointer refer to something that is there again.

Symmetry over items, events, ids and callers is used where the run checks
no liveness.

`CHECK_DEADLOCK FALSE` appears for the kernel pool, which stops with the system in the
`TpUninit` of a pool that is not up (`NoBugCheck` says nowhere else); for the pipeline, where a behaviour ends when each
event has happened and each port has been used; for the life cycle, where it
ends with the driver unloaded or not loaded; for the user-mode pool, which
stops for good in the drain described below; for the client, which is not started for
ever; for MainDriver, when the requests are used up or the system has stopped; for
`wikdd6k`, after the last open and an unload; and for the forwarding drivers, which
stop at a crash. The protection always takes another IRP: there deadlock is checked.

Fairness. In the pool: worker threads are scheduled, a caller that entered
`TpEnqueueWorkItem` goes on, `TpInit` and `TpUninit` go on, and work routines
return (`SendWorker` does, its wait being bounded; the test routines count to a
thousand). All of it is weak fairness of one thread's steps, which is what a
preemptive scheduler gives. Nobody has to queue, start or stop. In the pipeline:
the senders run and `FltSendMessage` returns; no callback, client or system
event is assumed to happen. In the client: its threads are scheduled and the second of
`FltSendMessage` passes; nobody has to connect, type, kill or unload. `fLock` is not a
fair lock, and weak fairness does not make it one: `HandedIsSettled` holds because
the messages of a behaviour are finite, so a receiver can be overtaken only so
often. In MainDriver: requests in progress and workers are scheduled; nobody has to
send one. In `wikdd6k`: only the client's receivers are scheduled, and the openers they serve
are in a queue; no opener, user or unload has to act. In the forwarding drivers: a request in
progress goes on, and the system unloads a driver that was asked to when its last
file object goes.

What the runs show, beyond the properties themselves:

* The emptiness test of `TpUninit` outside the lock (`threadpool.c:81`) is safe
  because every worker has been joined by then, and late calls only add.
* A pool whose `TpInit` failed must not be given to `TpUninit`, and both drivers do it:
  the system stops at the first handle (`NoBugCheck`). A pool that is up can be stopped
  at any moment.
* `TpUninit` returns when the calls that overlap it are finitely many (`UninitReturns`; the
  three items of the run are called for once each). Neither the loop of a worker nor the drain
  looks at the stop event while there is work: callers that kept the list filled could
  keep `TpUninit` for ever. In FilterDriver the file callbacks go on during
  `FilterUnload`, so this is up to what the machine does.
* An item enqueued late can stay in the list for ever; the promise is to items
  queued before `TpUninit` (`OwedAreExecuted`).
* Two callers can protect one id twice. `CopiesBounded` gives the exact price:
  no more copies than callers. One unprotect then removes one of them, so the
  process may stay protected after an unprotect; it is never the other way round.
* After `CLEAR` the counter is too high for good. The table never
  overflows for it, but a later protect may be refused with room to spare, which
  is why `RefusedOnlyWhenFull` speaks of the time before the first `CLEAR`.
* A context leaks exactly when monitoring was interrupted while the operation was
  in flight, or completion could not be deferred; a key name exactly when the
  registry callback found no memory or no room.
* A client that connects between lines 2133 and 2134 of `FilterDriver/main.c` is
  forgotten: `gClientPort` stays `NULL` while its connection is open. In
  `wikdd6k` the same race is permanent: the forgotten client's own disconnect
  finds `NULL`, does not close the connection, and no other is let in (`MutedStays`). It is never
  the other way round: no message goes to a port known to be closed (`PortAgrees`).
* The user-mode pool keeps every promise as long as `TpUninit` finds the list empty
  (`ReturnMeansDone` is about the calls that return). `UnitTest1` calls it
  with most of its items still queued.
* The client promises one receiver, not five (`SomeoneReceives`): items whose signals
  coalesced stay behind a `GetWorker` that does not return. Its `TpUninit` is never
  reached (`WaitsForEver`), which hides the drain. What dies with the process
  is what its receivers had in hand, nothing more (`Accounted`).
* MainDriver's pool is safe in the hands of one process that sends one request at a
  time, gives `INIT` its number, lets no pool overlay another and stops it before the driver
  goes; every other
  use has its way to lose work or the system, and `CrashHasCause` is the list.
  When `TpInit` fails the cleanup never returns the error: it takes the system down,
  for it hands the failed pool to `TpUninit`.
* Under `wikdd6k` the client can block itself: one receiver in `PreCreate` for the log, the
  others behind it for `fLock`, nobody in `FilterGetMessage`. Then every process that opens a file
  waits until the client ends (`StuckStays`, `OpenReturns`). And each message logged
  causes the next (`EchoConserved`).
* Two overlapping requests through DriverFirst can call through `NULL`, and release one
  file object twice and another never, after which DriverSecond cannot be unloaded.
  One request at a time does none of this; but even it can call a device that is gone,
  because the reference is given back before `IoCallDriver`. A failed lookup leaves the
  request uncompleted, and DriverFirst loaded for good.

### Disagreements found

* `userpool_rest`: "empty the work queue and process the rest of the work items"
  (`ConsoleApplication1.cpp:302`) is not what the loop below does: an item
  left in the list is removed and never executed, because line 307 takes the
  wrong member, and line 310 acquires the lock a second time.

* `driver_enqueue`: `FilterUnload` frees the pool before `FltUnregisterFilter`
  stops the file callbacks (`main.c:2431` before `2443`), so one of them can queue
  into freed memory or through `NULL`, against `_In_ PMY_THREAD_POOL`.
* `driver_uninit`: a failed thread (or registry) registration frees the pool, and
  `DriverEntry` loads the driver all the same (`main.c:2533`); the unload gives the
  freed pool to `TpUninit`, against `_Pre_valid_ _Post_invalid_`.

## What is proved

For every number of threads, items, slots, ids, callers, events, ports and
senders. The assumptions are those on the constants: at least one thread, slot and
sender, counts and bounds that are natural numbers, and the "nothing" values
(`NoItem`, `Nobody`, `NoPort`, `NoFile`, `Gone`) different from the others.

`ThreadPoolProofs` (eight theorems). `TypeInv` adds to `TypeOK` that the creating
loop stays within the array, that there is no array once `TpUninit` freed it or `TpInit` failed to
get it (`NoArrayLeft`), and that a `TpUninit` of a pool that is not up has joined nobody
(`AgainStops`). `ThreadsInv` relates workers to the owner: a live
worker has an open handle, handles end where the creating loop is and begin
where the joining loop is. From it `WorkersGone` (after the last join no handle
is open, so no worker lives) and `NoBugCheck`: once no worker lives the list can
only grow between the test and the removal, and a pool that is up has its array. `WakeInv` is `NoLostWakeup` with
an empty list while threads are being created. `ItemsInv` says that an item is in
one place only (`OnePlace`) and accounts for it (`Accounting`, `QuietInv`): what was
accepted is in the pool or executed, and `owed` is never lost. Neither
`NoUseAfterFree` nor `OwedAreExecuted` is inductive without it, because both
need to know that a list has no repetition: the lemmas on `Tail`, front and
`Append` are there for that.
`ImplementsCorrect` is the refinement: each lemma about an item's way also names the
step of `WorkQueue` it is (`Submit`, `StartOldest`, `StartNewest`, `Finish`, ...) or that it
is a stutter. It needs the invariant where the abstract guard says more than the
code tests: `TpUninit` takes the newest item only when no worker holds one
(`NothingHeld`), and the queue closes only when what was owed is done.

`UserThreadPoolProofs` (three theorems). The layers are the same. `LiveHasHandle` says
where a live thread's handle and events are; `OwnerPlace` where the lock may be
held, that the list is not empty when `TpUninit` is about to remove from it, and
that no call is in flight once it has started, so that nobody signals a closed
event. `Accounting` holds until `TpUninit` has taken an item (`TookItem`), after which
it does not return: that is how `ReturnMeansDone` can be true of every return.

`ProcessProtectProofs` (eight theorems). The invariant adds to `CountCovers` that
whoever is between looking for an id and adding it has one at hand (`AtHand`) and
that every promised id has a slot (`PromisedAreThere`). `FillSlot` and `FreeSlot`
count the table before and after one slot changes. `PromiseKept`,
`EarlyStopLeavesNothing` and `RefusedOnlyWhenFull` follow step by step; the
last two are action properties. `CopiesBounded` is inductive with the type invariant, because
it counts the copies of an id together with the callers on their way to add one
(`Adders`): a caller becomes one only when it saw no copy, and whoever is one is a
caller. With a single caller `NoDuplicates` follows from it, and
`LimitMeansRoom` from the counter.

`EventPipelineProofs` (six theorems). `PortAgrees` is inductive as it stands. `MessageInv` adds that a message is in one place in the pool
and that nothing has been written for an event whose callback has not returned;
`NoUseAfterFree` and `MessageReturned` need each other, and are `MessageOwned`
together. `ScratchInv` adds
that an operation in flight either is still watched or was interrupted
(`Undisturbed`), and that a callback which has nothing yet holds nothing.

`LifecycleProofs`, first part (three theorems). `UnloadedIsQuiet` and `NotifyBeforeFree`
hold of an order of calls, so the invariant says for each place of `DriverEntry` and
`FilterUnload` what is registered there (`UnloadOK`, `PoolFirst`), that nobody is inside
what is not registered, and who freed the pool.

`LifecycleProofs`, second part (four theorems). `DeviceForward` is proved in two halves. As
long as requests have not overlapped (`OneForwards`) the device extension is one
request's: after its lookup the file object there is open and its own, the device
there is the one it was given (`ExtensionOK`), and that device exists unless it
vanished under the call (`DeviceOK`): an open file object keeps `MyDriverUnload` of
DriverSecond away until `Dereference`. `CrashHasCause` follows. `FilesBalance`
is proved however requests overlap, one change at a time: `Lookup` adds to both sides,
`Dereference` takes from both, whosever file object it finds, and a request that
sees `NULL` moves from `Owing` to `skipped`. That only an overlap makes a request
see `NULL` needs the first half.

`MainDriverProofs` (six theorems). The invariant `IInv` has three layers. Always: the
types, what is registered at each step of `DriverEntry` and `MyDriverUnload`
(`LoadOK`), which IOCTL may be where, and that it keeps the driver loaded
(`PlaceOK`), and that only a busy worker has something to add (`AddsOK`). Until
requests overlap: those in progress are all `PROCESS` or there is one
(`OneAtATime`), and a request whose `TpInit` failed is in a cleanup it will not return
from, because its pool is zeroed or its handles are gone (`FailedInitOK`). With
nothing to blame (`Blameless`): each request finds the pool as its own
earlier steps left it (`RequestOK`), between requests it is as the flag says
(`RestOK`), and what was accepted is added, in the list, or in a worker's hands
(`Conserved`). The last two are proved together: `TEST` gets the number it expects
because the count is exact when the join has left no worker, and the count stays
exact because `INIT` and `TEST` found no worker and an empty list.
`JoinIsAnswered` adds that no thread is stranded (`NotStranded`): whoever waits in
`TpUninit` waits for threads that will see the stop event, the safety that
`RequestReturns` rests on. `UnloadUndoesEntry` needs one more fact: while it unloads,
what is registered is what `EntryOrder` registers up to the step that comes next (`Retraced`).
`Conserved` adds up a list and a function over the threads. Induction over data is
out of the prover's reach as a rule with an operator parameter, but sets of
counterexamples are not: `FiniteMin` gives the smallest subset with a property, and by
it `SumAny` shows that the fold of the library may take the elements in any
order. `SumExcept`, `SumZero` and `ListSum` say what one step does to a sum.

`ConsoleClientProofs` (three theorems). `WaitsForEver` needs only that the stop event
is set by nobody before `TpUninit`, through every failure of `TpInit` (`PInv`). `Accounted` needs the
whole way of a message: offered at most once and in the queue once (`OfferOK`), in
one hand exactly between `FilterGetMessage` and `WriteFile` (`HandOK`), one thread
between the two calls of `fLock` (`LockOK`), and in the log once (`LogOK`).

`WikddFilterProofs` (six theorems). `PlaceOK` says where a receiver may be in `PreCreate`, `InboxOK`
that whoever waits in `FltSendMessage` is in the queue once, `CalledOK` that a
disconnection holds its connection until `FltCloseClientPort`, and that one which left its
connection open found `gClientPort` `NULL`: `PortAgrees` needs both, for the unload, where the
filter manager disconnects a client and drops what the driver did not close. `StuckStays` follows
because each step of a stuck client needs a receiver that is in
`FilterGetMessage` or out of `PreCreate`. `EchoConserved` counts: each
step that takes from the queue adds to the receivers that have one. `MutedStays` needs no
invariant.

Only model-checked: the liveness properties, which need fairness and `ENABLED`; the prover
supports neither. Every invariant and every action property that a passing run
checks is also proved, and so is the refinement of `WorkQueue`.

## Not modelled

* `FirstDriver`: it prints on load and on unload.
* `thread_injection.cpp`: a sequence of system calls on another process.
* `process_filter.h`, which `wikdd6k` includes, is not in the repository; that
  `ProcessFilterInitialize` registers a routine is all that is assumed of it. The text test
  before it compares wide text byte by byte, so any text with the same first letter passes.
* What the callbacks write into a message (paths, times, class names), but for the one
  text whose length changes control.
* A client that is connected when a driver that failed to load disappears.
* The IOCTLs of the forwarding drivers that only print.
* `.vcxproj`, `.inf`, WPP headers: no behaviour.

## Plan

1. `WorkQueue`, `ThreadPool`, `ProcessProtect` with proofs. Done.
2. `EventPipeline` over `WorkQueue`, with proofs; `FilterLifecycle` with proofs. Done.
3. `UserThreadPool` and `ConsoleClient` over it, with proofs. Done.
4. `MainDriver`: the four pool IOCTLs, the life cycle and the observers. Done.
5. `WikddFilter` with proofs; `DeviceForward`. Done.
6. `ThreadPool` implements `WorkQueue`, proved. Done.
7. `MainDriver` and `DeviceForward` proved. Done.
8. Left: what the liveness properties rest on, as safety (who may still step when
   somebody waits).
