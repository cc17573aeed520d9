----------------------------- MODULE MainDriver -----------------------------
(***************************************************************************)
(* MainDriver: DriverEntry and MyDriverUnload with the callbacks they        *)
(* register, and the four IOCTLs of MyDeviceControl over the one thread pool *)
(* of the device extension: INIT, PROCESS, UNINIT and TEST_TPOOL.  The       *)
(* protection IOCTLs are in ProcessProtect, the pool's inside in ThreadPool: *)
(* here TpInit is one step, TpUninit three (stop, join, drain), and a worker *)
(* takes and runs one item at a time.                                       *)
(*                                                                         *)
(* Nothing in MyDeviceControl keeps two requests, or two pools, apart.  The *)
(* history variable blame names what went wrong or was asked for out of     *)
(* order, so that the properties can say what each such event costs, and    *)
(* what is promised without.                                               *)
(***************************************************************************)
EXTENDS Integers, Sequences, FiniteSets, FiniteSetsExt, SequencesExt

CONSTANTS
    Callers,        \* processes that send IOCTLs
    Gone,           \* no such process: the owner of handles that were closed
    MaxThreads,     \* most threads INIT is asked for
    TestThreads,    \* threads of TEST: 5
    ProcessItems,   \* items PROCESS queues: 10
    TestItems,      \* items TEST queues: 100000
    TestLoop,       \* what one item of TEST adds to Number: 1000
    Fired,          \* bound: the callbacks that are called
    ThreadIds,      \* bound: worker threads alive at once
    Requests,       \* bound: IOCTLs sent
    Failures        \* bound: how often memory, a thread or a registration is refused

ASSUME MaxThreadsAssumption == MaxThreads \in Nat \ {0}
ASSUME TestAssumption == TestThreads \in Nat \ {0} /\ TestItems \in Nat /\ TestLoop \in Nat \ {0}
ASSUME ProcessItemsAssumption == ProcessItems \in Nat \ {0}
ASSUME ThreadIdsAssumption == ThreadIds \in Nat \ {0}
ASSUME GoneAssumption == Gone \notin Callers
ASSUME BoundsAssumption == Requests \in Nat /\ Failures \in Nat

Ids == 1..ThreadIds

\* The steps of DriverEntry and of MyDriverUnload, in their order.
EntryOrder == <<"device", "link", "process", "image", "ob", "registry", "thread">>

\* Slip: PsRemoveLoadImageNotifyRoutine is forgotten.
UnloadOrderForgets == <<"thread", "registry", "ob", "process", "link", "device">>

UnloadOrder == <<"thread", "registry", "ob", "image", "process", "link", "device">>
Notifiers == {"process", "image", "ob", "registry", "thread"}

ASSUME FiredAssumption == Fired \subseteq Notifiers

VARIABLES
    load,           \* "entry", "loaded", "failed", "unloading" or "unloaded"
    step,           \* the next step of DriverEntry or MyDriverUnload
    registered,     \* what is registered with the system
    inside,         \* the callbacks that are running
    open,           \* the processes with an open handle of the device
    requests,       \* how many IOCTLs were sent
    at,             \* caller -> where its IOCTL is in MyDeviceControl
    op,             \* caller -> its IOCTL
    left,           \* caller -> the threads to create, or the items left to queue
    status,         \* caller -> what became of its last IOCTL, as far as it matters
    hasBeenInitialized,
    pool,           \* devExt->tp: "zeroed", "running" or "stopped" (StopThreadPool)
    list,           \* ListHead: what each queued item will add, oldest first
    array,          \* ThreadHandles: NULL with no thread ("zero"), "open", or "freed"
    inArray,        \* the threads of its handles
    handleOwner,    \* the process in whose table the handles are
    thread,         \* thread -> "none", "waiting", "busy", "draining" or "stranded"
    adds,           \* thread -> what the item it is running adds
    number,         \* devExt->ctx.Number
    accepted,       \* what all queued items add, since Number was last zeroed
    blame,          \* what first went wrong with the requests, or "none"
    failures,       \* how many calls of the system failed
    crashed         \* where the system stopped, or "no"

driverVars == <<load, step, registered, inside>>
requestVars == <<open, requests, at, op, left, status>>
poolVars == <<hasBeenInitialized, pool, list, array, inArray, handleOwner, thread, adds>>
sumVars == <<number, accepted>>
vars == <<driverVars, requestVars, poolVars, sumVars, blame, failures, crashed>>

Live == {i \in Ids : thread[i] # "none"}
Idle == \A c \in Callers : at[c] = "idle"
Running == crashed = "no"
Sum(s) == FoldSeq(+, 0, s)

Init ==
    /\ load = "entry" /\ step = 1 /\ registered = {} /\ inside = {}
    /\ open = {} /\ requests = 0
    /\ at = [c \in Callers |-> "idle"]
    /\ op = [c \in Callers |-> "none"]
    /\ left = [c \in Callers |-> 0]
    /\ status = [c \in Callers |-> "done"]
    /\ hasBeenInitialized = FALSE
    /\ pool = "zeroed" /\ list = <<>>
    /\ array = "zero" /\ inArray = {} /\ handleOwner = Gone
    /\ thread = [i \in Ids |-> "none"]
    /\ adds = [i \in Ids |-> 0]
    /\ number = 0 /\ accepted = 0
    /\ blame = "none" /\ failures = 0 /\ crashed = "no"

Crash(where) ==
    /\ crashed' = where
    /\ UNCHANGED <<driverVars, requestVars, poolVars, sumVars, blame, failures>>

GoTo(c, place) == at' = [at EXCEPT ![c] = place]

Enter(c, code, place, n) ==
    /\ GoTo(c, place)
    /\ op' = [op EXCEPT ![c] = code]
    /\ left' = [left EXCEPT ![c] = n]
    /\ UNCHANGED status

\* What a finished request leaves behind: its status only.
Return(c, result) ==
    /\ GoTo(c, "idle")
    /\ op' = [op EXCEPT ![c] = "none"]
    /\ left' = [left EXCEPT ![c] = 0]
    /\ status' = [status EXCEPT ![c] = result]

\* The threads that wait on an event that is made anew, or zeroed, stay on its
\* old wait list for ever.
Strand == [i \in Ids |-> IF thread[i] = "waiting" THEN "stranded" ELSE thread[i]]

\* The first thing that went wrong; requests that overlap take the place of any.
Blame(what) == blame' = IF blame = "none" \/ what = "overlap" THEN what ELSE blame

Fails == failures < Failures /\ failures' = failures + 1
-----------------------------------------------------------------------------
(***************************************************************************)
(* MyDeviceControl: a request of process c                                 *)
(***************************************************************************)
\* The client opens the device for each request and leaves the handle open.
\* Two requests overlap unless both are PROCESS; nothing is promised after that,
\* and (a bound) no further request is sent.
Arrive(c, code) ==
    /\ Running
    /\ load = "loaded"
    /\ at[c] = "idle" /\ inside = {}
    /\ requests < Requests /\ blame # "overlap"
    /\ requests' = requests + 1
    /\ open' = open \cup {c}
    /\ IF \E d \in Callers \ {c} : at[d] # "idle" /\ {code, op[d]} # {"PROCESS"}
       THEN Blame("overlap")
       ELSE IF code \in {"INIT", "TEST"} /\ (Live # {} \/ array = "open")
            THEN Blame("overlaid")
            ELSE IF code = "noInput" THEN Blame("noInput") ELSE UNCHANGED blame

\* The flag is set and tp and ctx are zeroed, before anything else.
ZeroPool ==
    /\ hasBeenInitialized' = TRUE
    /\ pool' = "zeroed" /\ list' = <<>>
    /\ array' = "zero" /\ inArray' = {}
    /\ thread' = Strand
    /\ number' = 0 /\ accepted' = 0
    /\ UNCHANGED <<handleOwner, adds>>

\* The number of threads is whatever the buffer holds.
InitTpool(c) ==
    /\ Arrive(c, "INIT")
    /\ ZeroPool
    /\ \E n \in 0..MaxThreads : Enter(c, "INIT", "tpInit", n)
    /\ UNCHANGED <<driverVars, crashed, failures>>

\* A request with no buffer at all: SystemBuffer is NULL, and is read (main.c:168).
InitTpoolNoInput(c) ==
    /\ Arrive(c, "noInput")
    /\ ZeroPool
    /\ crashed' = "input"
    /\ UNCHANGED <<driverVars, at, op, left, status, failures>>

\* Slip: Number is left as the pool before it did.
TestTpoolKeepsNumber(c) ==
    /\ Arrive(c, "TEST")
    /\ accepted' = 0
    /\ Enter(c, "TEST", "tpInit", TestThreads)
    /\ UNCHANGED <<driverVars, poolVars, number, crashed, failures>>

\* Number is zeroed; TpInit is given whatever tp is.
TestTpool(c) ==
    /\ Arrive(c, "TEST")
    /\ number' = 0 /\ accepted' = 0
    /\ Enter(c, "TEST", "tpInit", TestThreads)
    /\ UNCHANGED <<driverVars, poolVars, crashed, failures>>

ProcessTpool(c) ==
    /\ Arrive(c, "PROCESS")
    /\ IF hasBeenInitialized
       THEN Enter(c, "PROCESS", "queue", ProcessItems)
       ELSE Return(c, "done")
    /\ UNCHANGED <<driverVars, poolVars, sumVars, crashed, failures>>

UninitTpool(c) ==
    /\ Arrive(c, "UNINIT")
    /\ IF hasBeenInitialized
       THEN Enter(c, "UNINIT", "clear", 0)
       ELSE Return(c, "done")
    /\ UNCHANGED <<driverVars, poolVars, sumVars, crashed, failures>>

\* Slip: hasBeenInitialized stays TRUE.
ClearFlagForgotten(c) ==
    /\ Running
    /\ at[c] = "clear"
    /\ GoTo(c, "uninit")
    /\ UNCHANGED <<driverVars, open, requests, op, left, status, poolVars, sumVars, blame,
                   crashed, failures>>

ClearFlag(c) ==
    /\ Running
    /\ at[c] = "clear"
    /\ hasBeenInitialized' = FALSE
    /\ GoTo(c, "uninit")
    /\ UNCHANGED <<driverVars, open, requests, op, left, status, pool, list, array, inArray,
                   handleOwner, thread, adds, sumVars, blame, crashed, failures>>

Free == {i \in Ids \ inArray : thread[i] = "none"}

\* TpInit fails: goto cleanup.
TpInitFails(c) ==
    /\ Running
    /\ at[c] = "tpInit"
    /\ \/ left[c] = 0 /\ UNCHANGED <<pool, list, array, inArray, thread>>
       \/ /\ left[c] > 0
          /\ pool' \in {"running", "stopped"}    \* no array; or no thread, and TpUninit
          /\ list' = <<>>
          /\ array' = "freed" /\ inArray' = {}
          /\ thread' = Strand
    /\ op' = [op EXCEPT ![c] = "failedInit"]
    /\ GoTo(c, "uninit")
    /\ Fails \/ ((left[c] = 0 \/ Cardinality(Free) < left[c]) /\ UNCHANGED failures)
    /\ Blame("failed")
    /\ UNCHANGED <<driverVars, open, requests, left, status, hasBeenInitialized, handleOwner,
                   adds, sumVars, crashed>>

\* The handles of PsCreateSystemThread are handles of the calling process.
TpInit(c) ==
    /\ Running
    /\ at[c] = "tpInit"
    /\ left[c] > 0
    /\ \E new \in kSubset(left[c], Free) :
         /\ \A i \in new, j \in Free \ new : i < j
         /\ inArray' = new
         /\ thread' = [i \in Ids |-> IF i \in new THEN "waiting" ELSE Strand[i]]
    /\ pool' = "running" /\ list' = <<>>
    /\ array' = "open" /\ handleOwner' = c
    /\ IF op[c] = "TEST"
       THEN /\ GoTo(c, "queue")
            /\ left' = [left EXCEPT ![c] = TestItems]
            /\ UNCHANGED <<op, status, sumVars>>
       ELSE /\ Return(c, "done")
            /\ number' = 0 /\ accepted' = 0
    /\ UNCHANGED <<driverVars, open, requests, hasBeenInitialized, adds, blame, crashed, failures>>

\* SimpleTPProcess adds 1, TestThreadPoolRoutine TestLoop.
TpEnqueueWorkItem(c) ==
    /\ Running
    /\ at[c] = "queue"
    /\ left[c] > 0
    /\ IF pool = "zeroed"
       THEN Crash("list")
       ELSE LET adding == IF op[c] = "TEST" THEN TestLoop ELSE 1
            IN  /\ list' = Append(list, adding)
                /\ accepted' = accepted + adding
                /\ left' = [left EXCEPT ![c] = @ - 1]
                /\ UNCHANGED <<driverVars, open, requests, at, op, status, hasBeenInitialized, pool,
                               array, inArray, handleOwner, thread, adds, number, blame, crashed, failures>>

\* goto cleanup.
EnqueueFails(c) ==
    /\ Running
    /\ at[c] = "queue"
    /\ left[c] > 0
    /\ op' = [op EXCEPT ![c] = "failedEnqueue"]
    /\ GoTo(c, "uninit")
    /\ Fails
    /\ Blame("failed")
    /\ UNCHANGED <<driverVars, open, requests, left, status, poolVars, sumVars, crashed>>

AllQueued(c) ==
    /\ Running
    /\ at[c] = "queue"
    /\ left[c] = 0
    /\ IF op[c] = "TEST" THEN GoTo(c, "uninit") /\ UNCHANGED <<op, left, status>> ELSE Return(c, "done")
    /\ UNCHANGED <<driverVars, open, requests, poolVars, sumVars, blame, crashed, failures>>
-----------------------------------------------------------------------------
(***************************************************************************)
(* TpUninit, also as cleanup: the test of &tp.ListHead is always true       *)
(***************************************************************************)
\* Slip: the stop event is not set.
TpUninitNoStop(c) ==
    /\ Running
    /\ at[c] = "uninit"
    /\ GoTo(c, "join")
    /\ UNCHANGED <<driverVars, open, requests, op, left, status, poolVars, sumVars, blame,
                   crashed, failures>>

\* KeSetEvent; in a zeroed event it follows a NULL wait list.
TpUninit(c) ==
    /\ Running
    /\ at[c] = "uninit"
    /\ IF pool = "zeroed"
       THEN Crash("list")
       ELSE /\ pool' = "stopped"
            /\ GoTo(c, "join")
            /\ IF array = "open" /\ handleOwner # c THEN Blame("foreign") ELSE UNCHANGED blame
            /\ UNCHANGED <<driverVars, open, requests, op, left, status, hasBeenInitialized, list,
                           array, inArray, handleOwner, thread, adds, sumVars, crashed, failures>>

HandlesFreed(c) ==
    /\ array' = "freed" /\ inArray' = {}
    /\ UNCHANGED <<driverVars, open, requests, op, left, status, hasBeenInitialized, pool, list,
                   handleOwner, thread, adds, sumVars, blame, crashed, failures>>

\* Each handle is waited for, closed and the array freed.
Join(c) ==
    /\ Running
    /\ at[c] = "join"
    /\ array = "open"
    /\ handleOwner = c => \A i \in inArray : thread[i] = "none"
    /\ IF handleOwner = c
       THEN GoTo(c, "drain")
       ELSE \E place \in {"drain", "hung"} : GoTo(c, place)   \* values of another's handle table
    /\ HandlesFreed(c)

\* NumberOfThreads is not zeroed by TpUninit: ThreadHandles[0] of a NULL array.
JoinFreed(c) ==
    /\ Running
    /\ at[c] = "join"
    /\ array # "open"
    /\ \/ array = "freed" /\ Crash("join")
       \/ /\ array = "zero" \/ blame = "overlap"      \* no thread, or past the loop
          /\ GoTo(c, "drain")
          /\ UNCHANGED <<driverVars, open, requests, op, left, status, poolVars, sumVars, blame,
                         crashed, failures>>

\* What the request ends with; TEST looks at the result.
Outcome(c, result) ==
    CASE op[c] = "failedInit" -> "failedInit"
      [] op[c] = "TEST" /\ result # TestItems * TestLoop -> "unexpected"
      [] OTHER -> "done"

\* What is left in the list is executed.
Drain(c) ==
    /\ Running
    /\ at[c] = "drain"
    /\ IF pool = "zeroed"
       THEN Crash("list")
       ELSE /\ list' = <<>>
            /\ number' = number + Sum(list)
            /\ Return(c, Outcome(c, number'))
            /\ UNCHANGED <<driverVars, open, requests, hasBeenInitialized, pool, array,
                           inArray, handleOwner, thread, adds, accepted, blame, crashed, failures>>
-----------------------------------------------------------------------------
(***************************************************************************)
(* TpWorkerThread                                                          *)
(***************************************************************************)
WorkerGoesOn(i, place) ==
    /\ thread' = [thread EXCEPT ![i] = place]
    /\ UNCHANGED <<driverVars, requestVars, hasBeenInitialized, pool, array, inArray,
                   handleOwner, accepted, blame, crashed, failures>>

TakeItem(i) ==
    /\ list # <<>>
    /\ adds' = [adds EXCEPT ![i] = Head(list)]
    /\ list' = Tail(list)
    /\ WorkerGoesOn(i, "busy")
    /\ UNCHANGED number

WorkerWakes(i) ==
    /\ Running /\ load # "unloaded"
    /\ thread[i] = "waiting"
    /\ \/ pool = "running" /\ TakeItem(i)
       \/ pool = "stopped" /\ WorkerGoesOn(i, "none") /\ UNCHANGED <<list, adds, number>>

\* SimpleTPProcess or TestThreadPoolRoutine, under ContextLock.
WorkerRuns(i) ==
    /\ Running /\ load # "unloaded"
    /\ thread[i] = "busy"
    /\ number' = number + adds[i]
    /\ adds' = [adds EXCEPT ![i] = 0]
    /\ WorkerGoesOn(i, "draining")
    /\ UNCHANGED list

WorkerLooks(i) ==
    /\ Running /\ load # "unloaded"
    /\ thread[i] = "draining"
    /\ IF pool = "zeroed"
       THEN Crash("list")
       ELSE \/ TakeItem(i)
            \/ list = <<>> /\ WorkerGoesOn(i, "waiting") /\ UNCHANGED <<list, adds, number>>

\* The thread's code, its events and its list are gone with the driver.
WorkerWithoutDriver(i) ==
    /\ Running /\ load = "unloaded"
    /\ i \in Live
    /\ Crash("worker")
-----------------------------------------------------------------------------
(***************************************************************************)
(* DriverEntry, MyDriverUnload and the callbacks                           *)
(***************************************************************************)
EntryStepSucceeds ==
    /\ Running
    /\ load = "entry"
    /\ registered' = registered \cup {EntryOrder[step]}
    /\ step' = step + 1
    /\ load' = IF step = Len(EntryOrder) THEN "loaded" ELSE "entry"
    /\ UNCHANGED <<inside, requestVars, poolVars, sumVars, blame, crashed, failures>>

\* DriverEntry returns the error and undoes nothing; for the object callback the
\* status stays in InitializeProcessProtectRoutine.
EntryStepFails ==
    /\ Running
    /\ load = "entry"
    /\ Fails
    /\ IF EntryOrder[step] = "ob"
       THEN step' = step + 1 /\ UNCHANGED load
       ELSE load' = "failed" /\ UNCHANGED step
    /\ UNCHANGED <<registered, inside, requestVars, poolVars, sumVars, blame, crashed>>

\* The process ends: its handles are closed, the device's and the threads'.
ProcessEnds(c) ==
    /\ Running
    /\ c \in open /\ at[c] = "idle"
    /\ open' = open \ {c}
    /\ handleOwner' = IF handleOwner = c THEN Gone ELSE handleOwner
    /\ UNCHANGED <<driverVars, requests, at, op, left, status, hasBeenInitialized, pool, list,
                   array, inArray, thread, adds, sumVars, blame, crashed, failures>>

\* The I/O manager calls MyDriverUnload when no handle of the device is open.
MyDriverUnload ==
    /\ Running
    /\ load = "loaded"
    /\ open = {}
    /\ load' = "unloading"
    /\ step' = 1
    /\ UNCHANGED <<registered, inside, requestVars, poolVars, sumVars, blame, failures, crashed>>

\* Each call lets no new callback in and waits for the one that is running.
Unregister ==
    /\ Running
    /\ load = "unloading"
    /\ UnloadOrder[step] \notin inside
    /\ registered' = registered \ {UnloadOrder[step]}
    /\ step' = step + 1
    /\ load' = IF step = Len(UnloadOrder) THEN "unloaded" ELSE "unloading"
    /\ UNCHANGED <<inside, requestVars, poolVars, sumVars, blame, crashed, failures>>

\* ObUnRegisterCallbacks of a handle that was never set.
UnregisterNothing ==
    /\ Running
    /\ load = "unloading"
    /\ UnloadOrder[step] = "ob" /\ "ob" \notin registered
    /\ Crash("ob")

\* The callbacks only print: they share nothing with each other or with a request,
\* and one at a time, between requests, is enough.  In a driver that failed to
\* load the routine may be gone.
Notify(k) ==
    /\ Running
    /\ k \in registered
    /\ inside = {} /\ Idle
    /\ load = "unloading" => UnloadOrder[step] # k
    /\ \/ /\ inside' = {k}
          /\ UNCHANGED <<load, step, registered, requestVars, poolVars, sumVars, blame, crashed, failures>>
       \/ load = "failed" /\ Crash("callback")

NotifyReturns(k) ==
    /\ Running
    /\ k \in inside
    /\ inside' = inside \ {k}
    /\ UNCHANGED <<load, step, registered, requestVars, poolVars, sumVars, blame, crashed, failures>>
-----------------------------------------------------------------------------
MyDeviceControl(c) ==
    \/ TpInit(c) \/ TpInitFails(c)
    \/ TpEnqueueWorkItem(c) \/ EnqueueFails(c) \/ AllQueued(c)
    \/ ClearFlag(c) \/ TpUninit(c) \/ Join(c) \/ JoinFreed(c) \/ Drain(c)

TpWorkerThread(i) ==
    WorkerWakes(i) \/ WorkerRuns(i) \/ WorkerLooks(i) \/ WorkerWithoutDriver(i)

Next ==
    \/ EntryStepSucceeds \/ EntryStepFails
    \/ MyDriverUnload \/ Unregister \/ UnregisterNothing
    \/ \E k \in Fired : Notify(k) \/ NotifyReturns(k)
    \/ \E c \in Callers :
         \/ InitTpool(c) \/ InitTpoolNoInput(c)
         \/ ProcessTpool(c) \/ UninitTpool(c) \/ TestTpool(c)
         \/ MyDeviceControl(c) \/ ProcessEnds(c)
    \/ \E i \in Ids : TpWorkerThread(i)

Spec == Init /\ [][Next]_vars

\* Requests in progress and workers are scheduled.
FairSpec ==
    /\ Spec
    /\ \A c \in Callers : WF_vars(MyDeviceControl(c))
    /\ \A i \in Ids : WF_vars(TpWorkerThread(i))
-----------------------------------------------------------------------------
(***************************************************************************)
(* Properties                                                              *)
(***************************************************************************)
DriverOK ==
    /\ load \in {"entry", "loaded", "failed", "unloading", "unloaded"}
    /\ step \in 1..8
    /\ registered \subseteq Notifiers \cup {"device", "link"}
    /\ inside \subseteq Notifiers

RequestsOK ==
    /\ open \subseteq Callers
    /\ requests \in 0..Requests
    /\ at \in [Callers -> {"idle", "tpInit", "queue", "clear", "uninit", "join", "drain", "hung"}]
    /\ op \in [Callers -> {"none", "INIT", "PROCESS", "UNINIT", "TEST", "failedInit", "failedEnqueue"}]
    /\ left \in [Callers -> Nat]
    /\ status \in [Callers -> {"done", "failedInit", "unexpected"}]

PoolOK ==
    /\ hasBeenInitialized \in BOOLEAN
    /\ pool \in {"zeroed", "running", "stopped"}
    /\ list \in Seq(Nat)
    /\ array \in {"zero", "open", "freed"}
    /\ inArray \subseteq Ids /\ (inArray # {} <=> array = "open")
    /\ handleOwner \in Callers \cup {Gone}
    /\ thread \in [Ids -> {"none", "waiting", "busy", "draining", "stranded"}]
    /\ adds \in [Ids -> Nat]
    /\ number \in Nat /\ accepted \in Nat

\* The types; unless something is to blame, every live worker has a handle that
\* TpUninit will wait for.
TypeOK ==
    /\ DriverOK /\ RequestsOK /\ PoolOK
    /\ blame \in {"none", "failed", "noInput", "overlaid", "foreign", "overlap"}
    /\ failures \in 0..Failures
    /\ crashed \in {"no", "input", "list", "join", "worker", "callback", "ob"}
    /\ blame = "none" => Live \subseteq inArray

\* Why the system may stop at each place.  In particular it does not for processes
\* that send their requests one after another, give INIT its number of threads,
\* stop the pool from the process that started it, meet no failure, and unload a
\* driver without a live pool.
\* When TpInit does fail, cleanup's TpUninit (main.c:233) takes the system down: it
\* finds a zeroed pool, or NumberOfThreads handles in a NULL array.  INIT or TEST
\* never returns the failure, unless another request made the pool anew meanwhile.
CrashHasCause ==
    /\ crashed \in {"input", "list", "join"} => blame # "none"
    /\ crashed = "worker" => load = "unloaded" /\ (hasBeenInitialized \/ blame # "none")
    /\ crashed = "callback" => load = "failed"
    /\ crashed = "ob" => failures > 0
    /\ \A c \in Callers : status[c] = "failedInit" => blame = "overlap"

\* With nothing to blame no addition is lost or made twice, across the workers and
\* TpUninit's own loop; TEST gets the number its comment expects (main.c:275); and
\* a pool that is not initialized is at rest between requests, all of it executed.
NumberExact ==
    blame = "none" =>
        /\ number + Sum(list) + SumFunction(adds) = accepted
        /\ \A c \in Callers : status[c] # "unexpected"
        /\ Idle /\ ~hasBeenInitialized => Live = {} /\ number = accepted

\* MyDriverUnload takes back DriverEntry's steps from the last to the first: what
\* is still registered is what a DriverEntry that got so far has registered, but for
\* the object callback, whose failure it does not see.  At the end the system knows
\* nothing of the driver and none of its callbacks is running.
UnloadUndoesEntry ==
    /\ load \in {"unloading", "unloaded"} =>
           registered \cup {"ob"} = {EntryOrder[k] : k \in 1..(8 - step)} \cup {"ob"}
    /\ load = "unloaded" => registered = {} /\ inside = {}

\* A request returns: TpUninit's wait ends, for every worker sees the stop event.
\* What may keep it is a TpInit that resets the event under the wait (overlap), and
\* a wait for what another process's handles mean in the caller's table (hung).
RequestReturns ==
    \A c \in Callers :
        at[c] # "idle" ~> (at[c] \in {"idle", "hung"} \/ ~Running \/ blame = "overlap")
=============================================================================
