--------------------------- MODULE UserThreadPool ---------------------------
(***************************************************************************)
(* The user-mode thread pool of ConsoleApplication1.cpp, which UnitTest1     *)
(* exercises: TpInit, TpUninit, TpEnqueueWorkItem and TpRoutine.  The caller *)
(* starts the pool, queues, and stops it when its calls have returned.      *)
(*                                                                         *)
(* Granularity.  A section between acquiring and releasing QueueLock is one  *)
(* step, enabled while the lock is free.  TpUninit acquires the lock and    *)
(* does not release it: for it the lock is a variable.                      *)
(***************************************************************************)
EXTENDS Integers, Sequences, FiniteSets

CONSTANTS
    MaxThreads,     \* most threads a caller asks TpInit for
    Items,          \* work items: one call of TpEnqueueWorkItem each
    NoItem          \* no item

ASSUME MaxThreadsAssumption == MaxThreads \in Nat \ {0}
ASSUME NoItemAssumption == NoItem \notin Items

Threads == 1..MaxThreads

VARIABLES
    stopEvent,      \* StopThreadPoolEvent: "null", "reset" or "set"
    workEvent,      \* WorkScheduledEvent, an auto-reset event
    queue,          \* Queue, read from its tail: oldest item first
    queueLock,      \* whether TpUninit holds QueueLock
    wanted,         \* the NumberOfThreads that TpInit was asked for
    threadHandles,  \* the handles in ThreadHandles; 0: the array is NULL
    worker,         \* thread -> where it is in TpRoutine
    holds,          \* thread -> the item it is running, or NoItem
    call,           \* item -> where its TpEnqueueWorkItem call is
    owner,          \* where the caller of TpInit and TpUninit is
    index,          \* TpUninit's loop counter i
    after,          \* what TpUninit returns to: "failed" inside TpInit
    executed        \* item -> how often its routine has returned

eventVars == <<stopEvent, workEvent>>
queueVars == <<queue, queueLock, executed>>
threadVars == <<wanted, threadHandles, worker, holds>>
ownerVars == <<owner, index, after>>
vars == <<eventVars, queueVars, threadVars, call, ownerVars>>

Queued == {queue[k] : k \in DOMAIN queue}
Held == {holds[t] : t \in Threads} \ {NoItem}
InFlight == {i \in Items : call[i] \in {"allocated", "inserted"}}
Accepted == {i \in Items : call[i] \in {"inserted", "returned"}}

Init ==
    /\ stopEvent = "null"
    /\ workEvent = "null"
    /\ queue = <<>>
    /\ queueLock = FALSE
    /\ wanted = 0
    /\ threadHandles = 0
    /\ worker = [t \in Threads |-> "none"]
    /\ holds = [t \in Threads |-> NoItem]
    /\ call = [i \in Items |-> "idle"]
    /\ owner = "idle"
    /\ index = 1
    /\ after = "dead"
    /\ executed = [i \in Items |-> 0]
-----------------------------------------------------------------------------
(***************************************************************************)
(* Slips a change of this code could make; none is a step of the pool.      *)
(***************************************************************************)
\* The handle is closed without waiting for its thread.
JoinThreadNoWait ==
    /\ owner = "join"
    /\ index <= threadHandles
    /\ index' = index + 1
    /\ UNCHANGED <<eventVars, queueVars, threadVars, call, owner, after>>

\* The rest of the queue is forgotten.
DrainIsListEmptySkipped ==
    /\ owner = "drain"
    /\ owner' = "close"
    /\ UNCHANGED <<eventVars, queueVars, threadVars, call, index, after>>

\* Both events made by CreateEventW(NULL, FALSE, ...).
WaitStopAutoReset(t) ==
    /\ worker[t] = "waiting"
    /\ stopEvent = "set"
    /\ stopEvent' = "reset"
    /\ worker' = [worker EXCEPT ![t] = "exited"]
    /\ UNCHANGED <<workEvent, queueVars, wanted, threadHandles, holds, call, ownerVars>>

-----------------------------------------------------------------------------
(***************************************************************************)
(* TpRoutine(t)                                                            *)
(***************************************************************************)
\* StopThreadPoolEvent comes first in waitEvents.
WaitStop(t) ==
    /\ worker[t] = "waiting"
    /\ stopEvent = "set"
    /\ worker' = [worker EXCEPT ![t] = "exited"]
    /\ UNCHANGED <<eventVars, queueVars, wanted, threadHandles, holds, call, ownerVars>>

WaitWork(t) ==
    /\ worker[t] = "waiting"
    /\ stopEvent # "set"
    /\ workEvent = "set"
    /\ workEvent' = "reset"
    /\ worker' = [worker EXCEPT ![t] = "draining"]
    /\ UNCHANGED <<stopEvent, queueVars, wanted, threadHandles, holds, call, ownerVars>>

ListRemoveTail(t) ==
    /\ worker[t] = "draining"
    /\ ~queueLock
    /\ \/ /\ queue # <<>>
          /\ holds' = [holds EXCEPT ![t] = Head(queue)]
          /\ queue' = Tail(queue)
          /\ worker' = [worker EXCEPT ![t] = "running"]
       \/ /\ queue = <<>>
          /\ worker' = [worker EXCEPT ![t] = "waiting"]
          /\ UNCHANGED <<holds, queue>>
    /\ UNCHANGED <<eventVars, queueLock, executed, wanted, threadHandles, call, ownerVars>>

\* The routine returns and the item is freed.
RunItem(t) ==
    /\ worker[t] = "running"
    /\ executed' = [executed EXCEPT ![holds[t]] = @ + 1]
    /\ holds' = [holds EXCEPT ![t] = NoItem]
    /\ worker' = [worker EXCEPT ![t] = "draining"]
    /\ UNCHANGED <<eventVars, queue, queueLock, wanted, threadHandles, call, ownerVars>>
-----------------------------------------------------------------------------
(***************************************************************************)
(* TpEnqueueWorkItem, the call for item i                                  *)
(***************************************************************************)
AllocateItem(i) ==
    /\ call[i] = "idle"
    /\ owner = "ready"
    /\ \E result \in {"allocated", "refused"} : call' = [call EXCEPT ![i] = result]
    /\ UNCHANGED <<eventVars, queueVars, threadVars, ownerVars>>

ListInsertHead(i) ==
    /\ call[i] = "allocated"
    /\ ~queueLock
    /\ queue' = Append(queue, i)
    /\ call' = [call EXCEPT ![i] = "inserted"]
    /\ UNCHANGED <<eventVars, queueLock, executed, threadVars, ownerVars>>

SetWorkScheduled(i) ==
    /\ call[i] = "inserted"
    /\ workEvent' = "set"
    /\ call' = [call EXCEPT ![i] = "returned"]
    /\ UNCHANGED <<stopEvent, queueVars, threadVars, ownerVars>>
-----------------------------------------------------------------------------
(***************************************************************************)
(* TpUninit                                                                *)
(***************************************************************************)
BeginUninit(returnsTo) ==
    /\ owner' = "join"
    /\ index' = 1
    /\ after' = returnsTo

TpUninit ==
    /\ owner = "ready"
    /\ InFlight = {}
    /\ stopEvent' = "set"
    /\ BeginUninit("dead")
    /\ UNCHANGED <<workEvent, queueVars, threadVars, call>>

JoinThread ==
    /\ owner = "join"
    /\ index <= threadHandles
    /\ worker[index] = "exited"
    /\ index' = index + 1
    /\ UNCHANGED <<eventVars, queueVars, threadVars, call, owner, after>>

FreeHandles ==
    /\ owner = "join"
    /\ index > threadHandles
    /\ threadHandles' = 0
    /\ owner' = "drain"
    /\ UNCHANGED <<eventVars, queueVars, wanted, worker, holds, call, index, after>>

DrainIsListEmpty ==
    /\ owner = "drain"
    /\ owner' = IF queue = <<>> THEN "close" ELSE "acquire"
    /\ UNCHANGED <<eventVars, queueVars, threadVars, call, index, after>>

DrainRemoveTail ==
    /\ owner = "acquire"
    /\ ~queueLock
    /\ queueLock' = TRUE
    /\ queue' = Tail(queue)
    /\ owner' = "call"
    /\ UNCHANGED <<eventVars, executed, threadVars, call, index, after>>

\* work is 16 bytes before the item, so work->WorkRoutine is the item's own Flink:
\* the call is to data.  Should it come back, AcquireSRWLockExclusive is asked
\* for the lock its caller holds, and never returns.
DrainCallRoutine ==
    /\ owner = "call"
    /\ owner' \in {"crashed", "waitsForItself"}
    /\ UNCHANGED <<eventVars, queueVars, threadVars, call, index, after>>

CloseEvents ==
    /\ owner = "close"
    /\ stopEvent' = "null"
    /\ workEvent' = "null"
    /\ owner' = after
    /\ UNCHANGED <<queueVars, threadVars, call, index, after>>
-----------------------------------------------------------------------------
(***************************************************************************)
(* TpInit                                                                  *)
(***************************************************************************)
MayInit == owner \in {"idle", "failed", "dead"}

\* No thread asked for: STATUS_INVALID_PARAMETER.
TpInitNoThreads ==
    /\ MayInit
    /\ owner' = "failed"
    /\ UNCHANGED <<eventVars, queueVars, threadVars, call, index, after>>

\* The pool is zeroed, the queue and both events are made.
TpInit(n) ==
    /\ MayInit
    /\ stopEvent' = "reset"
    /\ workEvent' = "reset"
    /\ wanted' = n
    /\ queue' = <<>>
    /\ queueLock' = FALSE
    /\ threadHandles' = 0
    /\ owner' = "create"
    /\ UNCHANGED <<executed, worker, holds, call, index, after>>

\* An event or the handle array cannot be had; TpUninit finds no thread.
TpInitFails ==
    /\ MayInit
    /\ \/ stopEvent' = "null" /\ workEvent' = "null"
       \/ stopEvent' = "set" /\ workEvent' \in {"null", "reset"}
    /\ queue' = <<>>
    /\ queueLock' = FALSE
    /\ threadHandles' = 0
    /\ BeginUninit("failed")
    /\ UNCHANGED <<executed, wanted, worker, holds, call>>

CreateThread ==
    /\ owner = "create"
    /\ worker' = [worker EXCEPT ![threadHandles + 1] = "waiting"]
    /\ threadHandles' = threadHandles + 1
    /\ owner' = IF threadHandles' = wanted THEN "ready" ELSE "create"
    /\ UNCHANGED <<eventVars, queueVars, wanted, holds, call, index, after>>

CreateThreadFails ==
    /\ owner = "create"
    /\ stopEvent' = "set"
    /\ BeginUninit("failed")
    /\ UNCHANGED <<workEvent, queueVars, threadVars, call>>
-----------------------------------------------------------------------------
WorkerStep(t) == WaitStop(t) \/ WaitWork(t) \/ ListRemoveTail(t) \/ RunItem(t)

CallStep(i) == ListInsertHead(i) \/ SetWorkScheduled(i)

UninitStep ==
    \/ JoinThread \/ FreeHandles \/ DrainIsListEmpty
    \/ DrainRemoveTail \/ DrainCallRoutine \/ CloseEvents

Next ==
    \/ \E t \in Threads : WorkerStep(t)
    \/ \E i \in Items : AllocateItem(i) \/ CallStep(i)
    \/ TpInitNoThreads \/ TpInitFails
    \/ \E n \in Threads : TpInit(n)
    \/ CreateThread \/ CreateThreadFails
    \/ TpUninit \/ UninitStep

Spec == Init /\ [][Next]_vars

\* As in the kernel: threads run, calls go on, routines return.
FairSpec ==
    /\ Spec
    /\ \A t \in Threads : WF_vars(WorkerStep(t))
    /\ \A i \in Items : WF_vars(CallStep(i))
    /\ WF_vars(CreateThread \/ CreateThreadFails)
    /\ WF_vars(UninitStep)
-----------------------------------------------------------------------------
(***************************************************************************)
(* Properties                                                              *)
(***************************************************************************)
EventsOK ==
    /\ stopEvent \in {"null", "reset", "set"}
    /\ workEvent \in {"null", "reset", "set"}

QueueOK ==
    /\ queue \in Seq(Items)
    /\ queueLock \in BOOLEAN
    /\ executed \in [Items -> Nat]

HandlesOK == wanted \in 0..MaxThreads /\ threadHandles \in 0..wanted

WorkersOK ==
    /\ worker \in [Threads -> {"none", "waiting", "draining", "running", "exited"}]
    /\ holds \in [Threads -> Items \cup {NoItem}]

CallsOK == call \in [Items -> {"idle", "allocated", "inserted", "returned", "refused"}]

OwnerOK ==
    /\ owner \in {"idle", "create", "ready", "join", "drain", "acquire", "call",
                  "close", "crashed", "waitsForItself", "failed", "dead"}
    /\ index \in 1..(MaxThreads + 1)
    /\ after \in {"failed", "dead"}

\* The types; ThreadHandles has no more handles than threads were asked for.
TypeOK == EventsOK /\ QueueOK /\ HandlesOK /\ WorkersOK /\ CallsOK /\ OwnerOK

\* A thread that is alive waits on events that exist and has a handle that
\* TpUninit has yet to wait for: events and handles outlive the threads.
OutliveThreads ==
    \A t \in Threads :
        worker[t] \in {"waiting", "draining", "running"} =>
            /\ stopEvent # "null" /\ workEvent # "null"
            /\ t <= threadHandles
            /\ owner = "join" => index <= t

\* If TpUninit returns, every accepted item was executed exactly once, nobody
\* holds one, and lock and events are given back: when UnitTest1 gets as far as
\* its assertion (UnitTest1.cpp:40), it holds.
ReturnMeansDone ==
    owner \in {"dead", "failed"} =>
        /\ \A i \in Accepted : executed[i] = 1
        /\ Held = {} /\ Queued = {} /\ ~queueLock
        /\ stopEvent = "null" /\ workEvent = "null"

\* TpInit returns, also when a thread cannot be created: the threads it had
\* made are told to stop, and none of them has taken anything to do.
InitReturns == (owner = "create") ~> (owner \in {"ready", "failed"})

\* What TpUninit takes from the queue it processes: "empty the work queue and
\* process the rest of the work items" (ConsoleApplication1.cpp:302).  An accepted
\* item is queued, with a worker, about to be called by TpUninit, or executed.
RestProcessed ==
    owner # "call" => \A i \in Accepted : i \in Queued \cup Held \/ executed[i] = 1
=============================================================================
