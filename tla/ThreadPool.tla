----------------------------- MODULE ThreadPool -----------------------------
(***************************************************************************)
(* The kernel thread pool, FilterDriver/threadpool.c and its twin           *)
(* MainDriver/threadpool.c: TpInit, TpUninit, TpEnqueueWorkItem and the     *)
(* worker threads TpWorkerThread.                                          *)
(*                                                                         *)
(* Granularity.  A section under PoolLock is one step (a spin lock, nothing *)
(* in it blocks); so is each event operation and each thread creation.      *)
(* Everything between two of these may be interleaved with anything.        *)
(*                                                                         *)
(* KeWaitForMultipleObjects is one step, taken when the wait is satisfied.  *)
(* The kernel hands an event to a blocked thread at the moment it is set;   *)
(* that is the behaviour in which the waiter steps right after KeSetEvent.  *)
(***************************************************************************)
EXTENDS Integers, Sequences, FiniteSets

CONSTANTS
    MaxThreads,     \* most threads a caller asks TpInit for
    Items,          \* work items: one call of TpEnqueueWorkItem each
    NoItem,         \* no item
    LateCalls       \* whether TpEnqueueWorkItem may be called of a pool
                    \* that is not up: during TpUninit, or after a TpInit
                    \* that failed or a TpUninit that nobody was told of

ASSUME MaxThreadsAssumption == MaxThreads \in Nat \ {0}
ASSUME NoItemAssumption == NoItem \notin Items
ASSUME LateCallsAssumption == LateCalls \in BOOLEAN

Slots == 1..MaxThreads          \* indexes of ThreadHandles, and the threads

VARIABLES
    stopThreadPool,   \* StopThreadPool, a notification event
    workScheduled,    \* WorkScheduled, an auto-reset event
    listHead,         \* the work list, read from its tail: oldest item first
    numberOfThreads,  \* NumberOfThreads
    handleArray,      \* whether ThreadHandles is allocated
    openHandles,      \* the indexes whose handle is not NULL
    worker,           \* thread -> where it is in TpWorkerThread
    holds,            \* thread -> the item it is running, or NoItem
    call,             \* item -> where its TpEnqueueWorkItem call is
    owner,            \* where the caller of TpInit and TpUninit is
    index,            \* that caller's loop counter i
    after,            \* what TpUninit returns to: "failed" inside TpInit,
                      \* "again" if the pool was not up when it was called
    drains,           \* the item TpUninit is running, or NoItem
    executed,         \* item -> how often its routine has returned
    owed              \* history: items in the pool when TpUninit took it down

listVars == <<listHead, executed>>
arrayVars == <<numberOfThreads, handleArray, openHandles>>
workerVars == <<worker, holds>>
ownerVars == <<owner, index, after, drains, owed>>
eventVars == <<stopThreadPool, workScheduled>>
vars == <<eventVars, listVars, arrayVars, workerVars, call, ownerVars>>

Queued == {listHead[k] : k \in DOMAIN listHead}
Held == {holds[t] : t \in Slots} \ {NoItem}
Draining == {drains} \ {NoItem}
InPool == Queued \cup Held \cup Draining
InFlight == {i \in Items : call[i] \in {"allocated", "inserted"}}
Accepted == {i \in Items : call[i] \in {"inserted", "returned"}}
Executed == {i \in Items : executed[i] > 0}

Init ==
    /\ stopThreadPool = FALSE
    /\ workScheduled = FALSE
    /\ listHead = <<>>
    /\ numberOfThreads = 0
    /\ handleArray = FALSE
    /\ openHandles = {}
    /\ worker = [t \in Slots |-> "none"]
    /\ holds = [t \in Slots |-> NoItem]
    /\ call = [i \in Items |-> "idle"]
    /\ owner = "idle"
    /\ index = 1
    /\ after = "dead"
    /\ drains = NoItem
    /\ executed = [i \in Items |-> 0]
    /\ owed = {}
-----------------------------------------------------------------------------
(***************************************************************************)
(* Slips a change of this code could make.  None is a step of the pool:     *)
(* each stands in for the step of that name to show which property notices. *)
(***************************************************************************)
\* StopThreadPool as an auto-reset event, consumed by the first thread to exit.
WaitStopAutoReset(t) ==
    /\ worker[t] = "waiting" /\ stopThreadPool
    /\ stopThreadPool' = FALSE
    /\ worker' = [worker EXCEPT ![t] = "exited"]
    /\ UNCHANGED <<workScheduled, listVars, arrayVars, holds, call, ownerVars>>

\* The item is looked at under the lock and unlinked later.
RemoveTailListPeeks(t) ==
    /\ worker[t] = "draining" /\ listHead # <<>>
    /\ holds' = [holds EXCEPT ![t] = Head(listHead)]
    /\ worker' = [worker EXCEPT ![t] = "running"]
    /\ UNCHANGED <<eventVars, listVars, arrayVars, call, ownerVars>>

\* RemoveHeadList in the worker: newest first.
RemoveTailListNewest(t) ==
    /\ worker[t] = "draining" /\ listHead # <<>>
    /\ holds' = [holds EXCEPT ![t] = listHead[Len(listHead)]]
    /\ listHead' = SubSeq(listHead, 1, Len(listHead) - 1)
    /\ worker' = [worker EXCEPT ![t] = "running"]
    /\ UNCHANGED <<eventVars, executed, arrayVars, call, ownerVars>>

\* One item per wake-up, without the inner loop.
RunItemOnce(t) ==
    /\ worker[t] = "running"
    /\ executed' = [executed EXCEPT ![holds[t]] = @ + 1]
    /\ holds' = [holds EXCEPT ![t] = NoItem]
    /\ worker' = [worker EXCEPT ![t] = "waiting"]
    /\ UNCHANGED <<eventVars, listHead, arrayVars, call, ownerVars>>

\* Signal only the first item of an empty list, judged after the unlock.
SetWorkScheduledIfFirst(i) ==
    /\ call[i] = "inserted"
    /\ workScheduled' = (workScheduled \/ Len(listHead) = 1)
    /\ call' = [call EXCEPT ![i] = "returned"]
    /\ UNCHANGED <<stopThreadPool, listVars, arrayVars, workerVars, ownerVars>>

\* The handle is closed without waiting for the thread.
JoinThreadNoWait ==
    /\ owner = "join" /\ index <= numberOfThreads
    /\ IF ~handleArray
       THEN owner' = "bugcheck" /\ UNCHANGED <<openHandles, index>>
       ELSE /\ openHandles' = openHandles \ {index}
            /\ index' = index + 1
            /\ owner' = owner
    /\ UNCHANGED <<eventVars, listVars, numberOfThreads, handleArray, workerVars,
                   call, after, drains, owed>>

\* The join loop stops one thread short.
FreeHandlesEarly ==
    /\ owner = "join" /\ index >= numberOfThreads
    /\ handleArray' = FALSE
    /\ owner' = "drain"
    /\ UNCHANGED <<eventVars, listVars, numberOfThreads, openHandles, workerVars,
                   call, index, after, drains, owed>>

\* TpUninit runs one leftover item only.
DrainRunItemOnce ==
    /\ owner = "drained"
    /\ executed' = [executed EXCEPT ![drains] = @ + 1]
    /\ drains' = NoItem
    /\ owner' = after
    /\ UNCHANGED <<eventVars, listHead, arrayVars, workerVars, call, index,
                   after, owed>>
-----------------------------------------------------------------------------
(***************************************************************************)
(* TpWorkerThread(t)                                                       *)
(***************************************************************************)
\* The wait is for any of { Stop, Work }: Stop wins when both are signalled.
WaitStop(t) ==
    /\ worker[t] = "waiting"
    /\ stopThreadPool
    /\ worker' = [worker EXCEPT ![t] = "exited"]
    /\ UNCHANGED <<eventVars, listVars, arrayVars, holds, call, ownerVars>>

WaitWork(t) ==
    /\ worker[t] = "waiting"
    /\ ~stopThreadPool
    /\ workScheduled
    /\ workScheduled' = FALSE
    /\ worker' = [worker EXCEPT ![t] = "draining"]
    /\ UNCHANGED <<stopThreadPool, listVars, arrayVars, holds, call, ownerVars>>

RemoveTailList(t) ==
    /\ worker[t] = "draining"
    /\ listHead # <<>>
    /\ holds' = [holds EXCEPT ![t] = Head(listHead)]
    /\ listHead' = Tail(listHead)
    /\ worker' = [worker EXCEPT ![t] = "running"]
    /\ UNCHANGED <<eventVars, executed, arrayVars, call, ownerVars>>

FoundEmpty(t) ==
    /\ worker[t] = "draining"
    /\ listHead = <<>>
    /\ worker' = [worker EXCEPT ![t] = "waiting"]
    /\ UNCHANGED <<eventVars, listVars, arrayVars, holds, call, ownerVars>>

\* The routine returns and the item is freed.
RunItem(t) ==
    /\ worker[t] = "running"
    /\ executed' = [executed EXCEPT ![holds[t]] = @ + 1]
    /\ holds' = [holds EXCEPT ![t] = NoItem]
    /\ worker' = [worker EXCEPT ![t] = "draining"]
    /\ UNCHANGED <<eventVars, listHead, arrayVars, call, ownerVars>>
-----------------------------------------------------------------------------
(***************************************************************************)
(* TpEnqueueWorkItem, the call for item i                                  *)
(***************************************************************************)
\* A caller enters after TpInit succeeded; without LateCalls, never once
\* TpUninit has been called.  FilterDriver's file callbacks overlap TpUninit, and
\* queue as well when its TpInit has failed unheeded; PROCESS of MainDriver does
\* after a cleanup.  TpInit has always got as far as the list.
MayCall ==
    \/ owner = "ready"
    \/ /\ LateCalls
       /\ numberOfThreads > 0
       /\ owner \in {"join", "drain", "pop", "drained", "failed", "dead"}

AllocateItem(i) ==
    /\ call[i] = "idle"
    /\ MayCall
    /\ \/ call' = [call EXCEPT ![i] = "allocated"]
       \/ call' = [call EXCEPT ![i] = "refused"]
    /\ UNCHANGED <<eventVars, listVars, arrayVars, workerVars, ownerVars>>

InsertHeadList(i) ==
    /\ call[i] = "allocated"
    /\ owner # "bugcheck"
    /\ listHead' = Append(listHead, i)
    /\ call' = [call EXCEPT ![i] = "inserted"]
    /\ UNCHANGED <<eventVars, executed, arrayVars, workerVars, ownerVars>>

SetWorkScheduled(i) ==
    /\ call[i] = "inserted"
    /\ owner # "bugcheck"
    /\ workScheduled' = TRUE
    /\ call' = [call EXCEPT ![i] = "returned"]
    /\ UNCHANGED <<stopThreadPool, listVars, arrayVars, workerVars, ownerVars>>
-----------------------------------------------------------------------------
(***************************************************************************)
(* TpInit                                                                  *)
(***************************************************************************)
\* No thread asked for: STATUS_INVALID_PARAMETER_2, before anything is set.
TpInitNoThreads ==
    /\ owner \in {"idle", "dead"}
    /\ owner' = "failed"
    /\ UNCHANGED <<eventVars, listVars, arrayVars, workerVars, call, index,
                   after, drains, owed>>

\* Up to the first thread: list, events and ThreadHandles, which may not be had.
\* The owner starts a new life of the pool only when nobody is calling it.
TpInit(n) ==
    /\ owner \in {"idle", "failed", "dead"}
    /\ InFlight = {}
    /\ listHead' = <<>>
    /\ stopThreadPool' = FALSE
    /\ workScheduled' = FALSE
    /\ numberOfThreads' = n
    /\ openHandles' = {}
    /\ index' = 1
    /\ owed' = {}
    /\ \/ handleArray' = TRUE /\ owner' = "create"
       \/ handleArray' = FALSE /\ owner' = "failed"
    /\ UNCHANGED <<executed, workerVars, call, after, drains>>

PsCreateSystemThread ==
    /\ owner = "create"
    /\ worker' = [worker EXCEPT ![index] = "waiting"]
    /\ openHandles' = openHandles \cup {index}
    /\ index' = index + 1
    /\ owner' = IF index = numberOfThreads THEN "ready" ELSE "create"
    /\ UNCHANGED <<eventVars, listVars, numberOfThreads, handleArray, holds,
                   call, after, drains, owed>>
-----------------------------------------------------------------------------
(***************************************************************************)
(* TpUninit                                                                *)
(***************************************************************************)
BeginUninit(returnsTo) ==
    /\ stopThreadPool' = TRUE
    /\ owner' = "join"
    /\ index' = 1
    /\ after' = returnsTo
    /\ owed' = Queued \cup Held
    /\ UNCHANGED <<workScheduled, listVars, arrayVars, workerVars, call, drains>>

\* A thread cannot be created: TpInit undoes itself with TpUninit.
CreateFails ==
    /\ owner = "create"
    /\ BeginUninit("failed")

\* Of a pool that is up.
TpUninit ==
    /\ owner = "ready"
    /\ LateCalls \/ InFlight = {}
    /\ BeginUninit("dead")

\* Of one that is not: its TpInit failed (MainDriver's cleanup, FilterUnload after
\* a DriverEntry that ignored it), or it was taken down before (UNINIT after a
\* cleanup).  NumberOfThreads outlives the array.  If TpInit refused at once,
\* nothing was set up, and the event is not one.
TpUninitAgain ==
    /\ owner \in {"failed", "dead"}
    /\ stopThreadPool' = TRUE
    /\ owner' = IF numberOfThreads = 0 THEN "bugcheck" ELSE "join"
    /\ index' = 1
    /\ after' = "again"
    /\ UNCHANGED <<workScheduled, listVars, arrayVars, workerVars, call, drains,
                   owed>>

\* One turn of the loop over the handles; the wait is for the thread's exit.
\* Indexing a NULL ThreadHandles is a bug check, and the end.
JoinThread ==
    /\ owner = "join"
    /\ index <= numberOfThreads
    /\ IF ~handleArray
       THEN owner' = "bugcheck" /\ UNCHANGED <<openHandles, index>>
       ELSE /\ index \in openHandles => worker[index] = "exited"
            /\ openHandles' = openHandles \ {index}
            /\ index' = index + 1
            /\ owner' = owner
    /\ UNCHANGED <<eventVars, listVars, numberOfThreads, handleArray, workerVars,
                   call, after, drains, owed>>

FreeHandles ==
    /\ owner = "join"
    /\ index > numberOfThreads
    /\ handleArray' = FALSE
    /\ owner' = "drain"
    /\ UNCHANGED <<eventVars, listVars, numberOfThreads, openHandles, workerVars,
                   call, index, after, drains, owed>>

\* IsListEmpty is read outside PoolLock.
DrainIsListEmpty ==
    /\ owner = "drain"
    /\ owner' = IF listHead = <<>> THEN after ELSE "pop"
    /\ UNCHANGED <<eventVars, listVars, arrayVars, workerVars, call, index,
                   after, drains, owed>>

\* RemoveHeadList of an empty list would return the list head itself.
DrainRemoveHeadList ==
    /\ owner = "pop"
    /\ IF listHead = <<>>
       THEN owner' = "bugcheck" /\ UNCHANGED <<listHead, drains>>
       ELSE /\ drains' = listHead[Len(listHead)]
            /\ listHead' = SubSeq(listHead, 1, Len(listHead) - 1)
            /\ owner' = "drained"
    /\ UNCHANGED <<eventVars, executed, arrayVars, workerVars, call, index,
                   after, owed>>

DrainRunItem ==
    /\ owner = "drained"
    /\ executed' = [executed EXCEPT ![drains] = @ + 1]
    /\ drains' = NoItem
    /\ owner' = "drain"
    /\ UNCHANGED <<eventVars, listHead, arrayVars, workerVars, call, index,
                   after, owed>>
-----------------------------------------------------------------------------
WorkerStep(t) ==
    WaitStop(t) \/ WaitWork(t) \/ RemoveTailList(t) \/ FoundEmpty(t) \/ RunItem(t)

FinishCall(i) == InsertHeadList(i) \/ SetWorkScheduled(i)

UninitStep ==
    JoinThread \/ FreeHandles \/ DrainIsListEmpty \/ DrainRemoveHeadList
    \/ DrainRunItem

Next ==
    \/ \E t \in Slots : WorkerStep(t)
    \/ \E i \in Items : AllocateItem(i) \/ FinishCall(i)
    \/ TpInitNoThreads
    \/ \E n \in Slots : TpInit(n)
    \/ PsCreateSystemThread \/ CreateFails
    \/ TpUninit \/ TpUninitAgain \/ UninitStep

Spec == Init /\ [][Next]_vars

(***************************************************************************)
(* Scheduled threads run, a call that was entered goes on, and routines     *)
(* return.  Nobody has to enqueue, to start or to stop the pool.            *)
(***************************************************************************)
Fairness ==
    /\ \A t \in Slots : WF_vars(WorkerStep(t))
    /\ \A i \in Items : WF_vars(FinishCall(i))
    /\ WF_vars(PsCreateSystemThread \/ CreateFails)
    /\ WF_vars(UninitStep)

FairSpec == Spec /\ Fairness
-----------------------------------------------------------------------------
(***************************************************************************)
(* Properties                                                              *)
(***************************************************************************)
EventsOK == stopThreadPool \in BOOLEAN /\ workScheduled \in BOOLEAN

ItemsOK ==
    /\ listHead \in Seq(Items)
    /\ executed \in [Items -> Nat]
    /\ owed \in SUBSET Items
    /\ drains \in Items \cup {NoItem}

CallsOK ==
    call \in [Items -> {"idle", "allocated", "inserted", "returned", "refused"}]

ArrayOK ==
    /\ numberOfThreads \in 0..MaxThreads
    /\ handleArray \in BOOLEAN
    /\ openHandles \in SUBSET Slots

WorkersOK ==
    /\ worker \in [Slots -> {"none", "waiting", "draining", "running", "exited"}]
    /\ holds \in [Slots -> Items \cup {NoItem}]

OwnerOK ==
    /\ owner \in {"idle", "create", "ready", "failed", "join", "drain", "pop",
                  "drained", "dead", "bugcheck"}
    /\ index \in 1..(MaxThreads + 1)
    /\ after \in {"dead", "failed", "again"}

TypeOK == EventsOK /\ ItemsOK /\ CallsOK /\ ArrayOK /\ WorkersOK /\ OwnerOK

\* An item that was executed, and so freed, is never executed again, queued
\* or held: two threads never have the same item, in or out of the list.
NoUseAfterFree ==
    \A i \in Items :
        /\ executed[i] <= 1
        /\ executed[i] = 1 => i \notin InPool

\* One auto-reset event stands for any number of enqueued items.  While the
\* pool runs, a queued item is never left without somebody who will look: the
\* event is set, a worker is not waiting, or an enqueuer has yet to set it.
NoLostWakeup ==
    owner = "ready" /\ listHead # <<>> =>
        \/ workScheduled
        \/ \E t \in Slots : worker[t] \in {"draining", "running"}
        \/ \E i \in Items : call[i] = "inserted"

\* When TpUninit frees ThreadHandles and takes over the list, and ever after,
\* no worker thread is left that could touch the pool.
WorkersGone ==
    owner \in {"drain", "pop", "drained", "dead", "failed", "idle"} =>
        \A t \in Slots : worker[t] \in {"none", "exited"} /\ holds[t] = NoItem

\* The one thing that takes the system down here is a TpUninit of a pool that is
\* not up, and such a call never gets past its first handle.  A pool that is up can
\* be stopped at any moment: although TpUninit tests for emptiness outside the
\* lock, it never takes the list head itself for a work item.
NoBugCheck ==
    /\ owner = "bugcheck" => after = "again"
    /\ after = "again" => owner \in {"join", "bugcheck"}

\* What was in the pool when TpUninit was called has been executed when it
\* returns, whatever is enqueued meanwhile.
OwedAreExecuted ==
    owner \in {"dead", "failed"} => owed \subseteq Executed

\* Without late calls TpUninit leaves nothing behind: every item ever accepted
\* has been executed, which is what TestThreadPool and UnitTest1 count on.
AllExecuted ==
    ~LateCalls /\ owner \in {"dead", "failed", "idle"} =>
        \A i \in Items : call[i] \in {"idle", "refused"} \/ executed[i] = 1

\* An item queued while the pool runs is executed, by a worker or by TpUninit.
QueuedIsExecuted ==
    \A i \in Items :
        (call[i] = "inserted" /\ owner = "ready") ~> (executed[i] = 1)

\* TpUninit of a pool that is up returns, however busy its workers are, if the
\* calls are finitely many.  The loops of the workers and of the drain look at the
\* list only: callers that kept it filled could keep TpUninit for ever.
UninitReturns ==
    (owner = "join" /\ after # "again") ~> (owner \in {"dead", "failed"})

\* How the pool is the queue of WorkQueue.
Started == Held \cup Draining

\* A TpUninit of a pool that is not up does nothing before the system stops.
Phase == CASE owner \in {"idle", "failed", "dead"} \/ after = "again" -> "closed"
           [] owner \in {"create", "ready"} -> "open"
           [] OTHER -> "closing"

Abstract == INSTANCE WorkQueue WITH
    pending <- listHead, running <- Started, done <- Executed, phase <- Phase

\* The pool starts items oldest first, takes what is left newest first, alone,
\* and is closed only when what was queued before TpUninit has finished.
ImplementsWorkQueue == Abstract!Spec
=============================================================================
