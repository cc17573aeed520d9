-------------------------- MODULE FilterLifecycle --------------------------
(***************************************************************************)
(* The life of FilterDriver: DriverEntry, with every failure it handles,    *)
(* FilterUnload, and the callbacks that run meanwhile.  A callback is in     *)
(* one of the driver's routines; all it does here is to queue a work item.  *)
(*                                                                         *)
(* The kernel removes a notify or registry callback, and FltUnregisterFilter *)
(* ends the file callbacks, by refusing new calls and waiting for those that *)
(* are inside; the removal is one step, enabled when nobody is.              *)
(***************************************************************************)
EXTENDS Integers, FiniteSets

CONSTANTS
    Callers,        \* threads on which the kernel calls back
    Failures        \* the steps of DriverEntry that may fail

Notifications == {"process", "image", "thread", "registry"}
Routines == Notifications \cup {"file"}
EntrySteps == {"filter", "memory", "TpInit", "port", "start"} \cup Notifications

ASSUME FailuresAssumption == Failures \subseteq EntrySteps

VARIABLES
    entry,          \* where DriverEntry is
    unload,         \* where FilterUnload is
    routines,       \* the routines the kernel may call
    filter,         \* whether the filter is registered
    serverPort,     \* whether gServerPort is open
    gThreadPool,    \* whether gThreadPool is not NULL
    pool,           \* the pool it points to, or pointed to
    inside,         \* caller -> the routine it is in, or "none"
    misused,        \* history: routines that queued into freed memory
    badUninit,      \* history: whether TpUninit was given no valid pool
    freedBy         \* history: who first freed the pool

systemVars == <<routines, filter, serverPort>>
poolVars == <<gThreadPool, pool, badUninit, freedBy>>
callVars == <<inside, misused>>
vars == <<entry, unload, systemVars, poolVars, callVars>>

Quiet(r) == \A c \in Callers : inside[c] # r

Init ==
    /\ entry = "filter"
    /\ unload = "idle"
    /\ routines = {}
    /\ filter = FALSE
    /\ serverPort = FALSE
    /\ gThreadPool = FALSE
    /\ pool = "none"
    /\ inside = [c \in Callers |-> "none"]
    /\ misused = {}
    /\ badUninit = FALSE
    /\ freedBy = "nobody"
-----------------------------------------------------------------------------
(***************************************************************************)
(* Slips a change of this code could make; none is a step of the driver.    *)
(***************************************************************************)
\* The routine is "removed" with Remove = FALSE.
ProcessFilterUninitializeAdds ==
    /\ unload = "process"
    /\ unload' = "pool"
    /\ UNCHANGED <<entry, systemVars, poolVars, callVars>>

\* The pool goes before the image routine is removed.
RegistryFilterUninitializeLast ==
    /\ unload = "registry"
    /\ Quiet("registry")
    /\ routines' = routines \ {"registry"}
    /\ unload' = "pool"
    /\ UNCHANGED <<entry, filter, serverPort, poolVars, callVars>>
-----------------------------------------------------------------------------
(***************************************************************************)
(* DriverEntry                                                             *)
(***************************************************************************)
MayFail(step) == entry = step /\ step \in Failures

FltRegisterFilter ==
    /\ \/ entry = "filter" /\ filter' = TRUE /\ entry' = "memory"
       \/ MayFail("filter") /\ entry' = "failed" /\ UNCHANGED filter
    /\ UNCHANGED <<unload, routines, serverPort, poolVars, callVars>>

\* Without memory DriverEntry returns, the filter still registered.
AllocateThreadPool ==
    /\ \/ entry = "memory" /\ gThreadPool' = TRUE /\ pool' = "zeroed" /\ entry' = "TpInit"
       \/ MayFail("memory") /\ entry' = "failed" /\ UNCHANGED <<gThreadPool, pool>>
    /\ UNCHANGED <<unload, systemVars, badUninit, freedBy, callVars>>

\* The status of TpInit is looked at and ignored.
InitThreadPool ==
    /\ \/ entry = "TpInit" /\ pool' = "running"
       \/ MayFail("TpInit") /\ pool' = "uninit"
    /\ entry' = "port"
    /\ UNCHANGED <<unload, systemVars, gThreadPool, badUninit, freedBy, callVars>>

CreateCommunicationPort ==
    /\ \/ entry = "port" /\ serverPort' = TRUE /\ entry' = "process" /\ UNCHANGED filter
       \/ MayFail("port") /\ filter' = FALSE /\ entry' = "failed" /\ UNCHANGED serverPort
    /\ UNCHANGED <<unload, routines, poolVars, callVars>>

\* TpUninit followed by ExFreePoolWithTag.
TpUninitAndFree(caller) ==
    /\ freedBy' = IF freedBy = "nobody" THEN caller ELSE freedBy
    /\ badUninit' = (badUninit \/ pool # "running")
    /\ pool' = "freed"

Registers(r, next) ==
    /\ entry = r
    /\ routines' = routines \cup {r}
    /\ entry' = next
    /\ UNCHANGED <<unload, filter, serverPort, poolVars, callVars>>

\* Failure ends DriverEntry; what was registered before stays, but the filter.
RegisterFails(r) ==
    /\ MayFail(r)
    /\ filter' = FALSE
    /\ TpUninitAndFree("DriverEntry")
    /\ entry' = "failed"
    /\ UNCHANGED <<unload, routines, serverPort, gThreadPool, callVars>>

\* Failure takes the pool away, and DriverEntry goes on.
RegisterFailsAndGoesOn(r, next) ==
    /\ MayFail(r)
    /\ TpUninitAndFree("DriverEntry")
    /\ entry' = next
    /\ UNCHANGED <<unload, systemVars, gThreadPool, callVars>>

ProcessFilterInitialize == Registers("process", "image") \/ RegisterFails("process")

ImageFilterInitialize == Registers("image", "thread") \/ RegisterFails("image")

ThreadFilterInitialize ==
    Registers("thread", "registry") \/ RegisterFailsAndGoesOn("thread", "registry")

RegistryFilterInitialize ==
    Registers("registry", "start") \/ RegisterFailsAndGoesOn("registry", "start")

FltStartFiltering ==
    /\ \/ entry = "start" /\ routines' = routines \cup {"file"} /\ entry' = "loaded"
       \/ MayFail("start") /\ entry' = "failed" /\ UNCHANGED routines
    /\ UNCHANGED <<unload, filter, serverPort, poolVars, callVars>>
-----------------------------------------------------------------------------
(***************************************************************************)
(* FilterUnload                                                            *)
(***************************************************************************)
FilterUnload ==
    /\ entry = "loaded" /\ unload = "idle"
    /\ unload' = "thread"
    /\ UNCHANGED <<entry, systemVars, poolVars, callVars>>

Removes(r, next) ==
    /\ unload = r
    /\ Quiet(r)
    /\ routines' = routines \ {r}
    /\ unload' = next
    /\ UNCHANGED <<entry, filter, serverPort, poolVars, callVars>>

ThreadFilterUninitialize == Removes("thread", "registry")
RegistryFilterUninitialize == Removes("registry", "image")
ImageFilterUninitialize == Removes("image", "process")
ProcessFilterUninitialize == Removes("process", "pool")

\* gThreadPool is set to NULL here, and only here.
FreeThreadPool ==
    /\ unload = "pool"
    /\ IF gThreadPool THEN TpUninitAndFree("FilterUnload")
                      ELSE UNCHANGED <<badUninit, pool, freedBy>>
    /\ gThreadPool' = FALSE
    /\ unload' = "port"
    /\ UNCHANGED <<entry, systemVars, callVars>>

FltCloseCommunicationPort ==
    /\ unload = "port"
    /\ serverPort' = FALSE
    /\ unload' = "file"
    /\ UNCHANGED <<entry, routines, filter, poolVars, callVars>>

FltUnregisterFilter ==
    /\ unload = "file"
    /\ Quiet("file")
    /\ routines' = routines \ {"file"}
    /\ filter' = FALSE
    /\ unload' = "unloaded"
    /\ UNCHANGED <<entry, serverPort, poolVars, callVars>>
-----------------------------------------------------------------------------
(***************************************************************************)
(* Callbacks                                                               *)
(***************************************************************************)
CallBack(c) ==
    \E r \in routines :
        /\ inside[c] = "none"
        /\ inside' = [inside EXCEPT ![c] = r]
        /\ UNCHANGED <<entry, unload, systemVars, poolVars, misused>>

\* The routine queues its message: &gThreadPool->tp is used as it is found.
TpEnqueueWorkItem(c) ==
    /\ inside[c] # "none"
    /\ misused' = misused \cup
         IF gThreadPool /\ pool \in {"running", "uninit"} THEN {} ELSE {inside[c]}
    /\ inside' = [inside EXCEPT ![c] = "none"]
    /\ UNCHANGED <<entry, unload, systemVars, poolVars>>

\* Or it returns without a message.
ReturnsAtOnce(c) ==
    /\ inside[c] # "none"
    /\ inside' = [inside EXCEPT ![c] = "none"]
    /\ UNCHANGED <<entry, unload, systemVars, poolVars, misused>>
-----------------------------------------------------------------------------
DriverEntry ==
    \/ FltRegisterFilter \/ AllocateThreadPool \/ InitThreadPool
    \/ CreateCommunicationPort \/ ProcessFilterInitialize
    \/ ImageFilterInitialize \/ ThreadFilterInitialize
    \/ RegistryFilterInitialize \/ FltStartFiltering

Unloading ==
    \/ FilterUnload \/ ThreadFilterUninitialize \/ RegistryFilterUninitialize
    \/ ImageFilterUninitialize \/ ProcessFilterUninitialize \/ FreeThreadPool
    \/ FltCloseCommunicationPort \/ FltUnregisterFilter

Next ==
    \/ DriverEntry
    \/ Unloading
    \/ \E c \in Callers : CallBack(c) \/ TpEnqueueWorkItem(c) \/ ReturnsAtOnce(c)

Spec == Init /\ [][Next]_vars
-----------------------------------------------------------------------------
(***************************************************************************)
(* Properties                                                              *)
(***************************************************************************)
\* When FilterUnload has returned and the code may go, nobody runs in it,
\* nothing can call it, and what DriverEntry made is undone.
UnloadedIsQuiet ==
    unload = "unloaded" =>
        /\ routines = {} /\ \A c \in Callers : inside[c] = "none"
        /\ ~filter /\ ~serverPort /\ ~gThreadPool /\ pool = "freed"

\* A routine other than a file callback never queues into a pool FilterUnload
\* has freed: it was removed, and had returned, before.  Only a DriverEntry that
\* failed half way and freed the pool itself can break this.
NotifyBeforeFree ==
    misused \cap Notifications # {} => freedBy = "DriverEntry"

\* Every call of TpEnqueueWorkItem is given a pool that is there: its parameter
\* is _In_ PMY_THREAD_POOL ThreadPool (threadpool.c:144).
EnqueueOnValidPool == misused = {}

\* TpUninit is given a valid pool and leaves it invalid: its parameter is
\* _Pre_valid_ _Post_invalid_ PMY_THREAD_POOL ThreadPool (threadpool.c:61).
UninitOnValidPool == ~badUninit
=============================================================================
