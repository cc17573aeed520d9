--------------------------- MODULE DeviceForward ---------------------------
(***************************************************************************)
(* DriverFirst and DriverSecond: IOCTL_MY_DRIVER_FORWARD is passed from the *)
(* device of one to the device of the other.  MyDeviceControl of DriverFirst*)
(* looks the lower device up for each request and keeps what it found in    *)
(* the device extension, which all requests share and no lock guards.       *)
(*                                                                         *)
(* Granularity.  One step per access to the device extension.  The other    *)
(* codes, creation and close are completed at once and share nothing.       *)
(***************************************************************************)
EXTENDS Integers, FiniteSets

CONSTANTS
    Senders,        \* threads that send requests to DriverFirst
    Files,          \* bound: the file objects that are opened on the lower device
    NoFile,         \* a FileObject never written
    MaxLoads        \* bound: how often DriverSecond is loaded

ASSUME NoFileAssumption == NoFile \notin Files
ASSUME MaxLoadsAssumption == MaxLoads \in Nat

Devices == 1..MaxLoads      \* DriverSecond's device object, one per load
Null == 0

VARIABLES
    first,          \* DriverFirst: "absent" or "loaded"
    handles,        \* the callers that have its device open
    pinned,         \* those whose handle a request that never completes holds
    second,         \* DriverSecond: "absent", "loaded" or "unloading"
    loads,          \* how often it was loaded: its device, unless absent
    LowerDeviceObject, FileObject,      \* the device extension
    state,          \* file object -> "unused", "held" or "gone"
    at,             \* caller -> where its MyDeviceControl is
    mine,           \* caller -> the file object its lookup opened
    owes,           \* caller -> what IoGetDeviceObjectPointer has yet to write
    target,         \* caller -> the device it called
    crashed,        \* "no", or what MyDeviceControl touched
    overlapped,     \* history: whether two requests were forwarded at once
    vanished,       \* history: whether DriverSecond left during a call
    skipped         \* history: how many requests saw NULL where they had a device

driverVars == <<first, handles, pinned, second, loads>>
extensionVars == <<LowerDeviceObject, FileObject>>
requestVars == <<mine, owes, target>>
historyVars == <<overlapped, vanished, skipped>>
forwardVars == <<driverVars, extensionVars, state, at, requestVars, crashed, historyVars>>

Held == {f \in Files : state[f] = "held"}
Exists(d) == second # "absent" /\ d = loads
Forwarding == {c \in Senders : at[c] # "idle"}

\* The callers that opened a file object and have not come to dereference one.
Owing == {c \in Senders : at[c] \in {"opened", "deref"}}

ForwardInit ==
    /\ first = "absent" /\ handles = {} /\ pinned = {}
    /\ second = "absent" /\ loads = 0
    /\ LowerDeviceObject = Null /\ FileObject = NoFile
    /\ state = [f \in Files |-> "unused"]
    /\ at = [c \in Senders |-> "idle"]
    /\ mine = [c \in Senders |-> NoFile]
    /\ owes = [c \in Senders |-> {}]
    /\ target = [c \in Senders |-> Null]
    /\ crashed = "no"
    /\ overlapped = FALSE /\ vanished = FALSE /\ skipped = 0

GoTo(c, place) == at' = [at EXCEPT ![c] = place]
-----------------------------------------------------------------------------
(***************************************************************************)
(* Slips a change of this code could make; none is a step of the drivers.   *)
(***************************************************************************)
\* No return when the lookup failed.
LookupFailsGoesOn(c) ==
    /\ at[c] = "lookup"
    /\ GoTo(c, "call")
    /\ UNCHANGED <<driverVars, extensionVars, state, requestVars, crashed, historyVars>>

\* ObDereferenceObject is left out.
DereferenceForgotten(c) ==
    /\ at[c] = "deref"
    /\ GoTo(c, "call")
    /\ UNCHANGED <<driverVars, extensionVars, state, requestVars, crashed, historyVars>>
-----------------------------------------------------------------------------
(***************************************************************************)
(* The drivers come and go                                                 *)
(***************************************************************************)
\* DriverEntry; a failure of it leaves nothing behind.
LoadFirst ==
    /\ first = "absent"
    /\ first' = "loaded"
    /\ LowerDeviceObject' = Null /\ FileObject' = NoFile
    /\ UNCHANGED <<handles, pinned, second, loads, state, at, requestVars, crashed, historyVars>>

\* MyDriverUnload is not called while a handle is open.
UnloadFirst ==
    /\ first = "loaded" /\ handles = {}
    /\ first' = "absent"
    /\ UNCHANGED <<handles, pinned, second, loads, extensionVars, state, at, requestVars, crashed,
                   historyVars>>

\* MyCreateClose, for IRP_MJ_CREATE and for IRP_MJ_CLOSE; the file object of a
\* request that is never completed is not closed.
MyCreateClose(c) ==
    /\ at[c] = "idle"
    /\ \/ first = "loaded" /\ handles' = handles \cup {c}
       \/ c \in handles \ pinned /\ handles' = handles \ {c}
    /\ UNCHANGED <<first, pinned, second, loads, extensionVars, state, at, requestVars, crashed,
                   historyVars>>

LoadSecond ==
    /\ second = "absent" /\ loads < MaxLoads
    /\ second' = "loaded" /\ loads' = loads + 1
    /\ UNCHANGED <<first, handles, pinned, extensionVars, state, at, requestVars, crashed,
                   historyVars>>

\* It is asked to unload: its device can no longer be opened.
StopSecond ==
    /\ second = "loaded"
    /\ second' = "unloading"
    /\ UNCHANGED <<first, handles, pinned, loads, extensionVars, state, at, requestVars, crashed,
                   historyVars>>

\* MyDriverUnload is called when no file object is left of the device.
UnloadSecond ==
    /\ second = "unloading" /\ Held = {}
    /\ second' = "absent"
    /\ vanished' = (vanished \/ \E c \in Senders : at[c] \in {"call", "lower"})
    /\ UNCHANGED <<first, handles, pinned, loads, extensionVars, state, at, requestVars, crashed,
                   overlapped, skipped>>
-----------------------------------------------------------------------------
(***************************************************************************)
(* MyDeviceControl of DriverFirst, IOCTL_MY_DRIVER_FORWARD                  *)
(***************************************************************************)
Forward(c) ==
    /\ at[c] = "idle" /\ c \in handles
    /\ LowerDeviceObject' = Null
    /\ GoTo(c, "lookup")
    /\ overlapped' = (overlapped \/ Forwarding # {})
    /\ UNCHANGED <<driverVars, FileObject, state, requestVars, crashed, vanished, skipped>>

\* IoGetDeviceObjectPointer opens the device.
Lookup(c) ==
    /\ at[c] = "lookup"
    /\ second = "loaded"
    /\ \E f \in Files :
        /\ state[f] = "unused"
        /\ state' = [state EXCEPT ![f] = "held"]
        /\ mine' = [mine EXCEPT ![c] = f]
    /\ target' = [target EXCEPT ![c] = loads]
    /\ owes' = [owes EXCEPT ![c] = {"file", "device"}]
    /\ GoTo(c, "opened")
    /\ UNCHANGED <<driverVars, extensionVars, crashed, historyVars>>

\* Or it fails: the error is returned, but the request is neither completed nor
\* passed on.
LookupFails(c) ==
    /\ at[c] = "lookup"
    /\ GoTo(c, "idle")
    /\ pinned' = pinned \cup {c}
    /\ UNCHANGED <<first, handles, second, loads, extensionVars, state, requestVars, crashed,
                   historyVars>>

\* It writes its two results into the extension, in an order of its own.
LookupReturns(c) ==
    /\ at[c] = "opened"
    /\ \/ /\ "file" \in owes[c]
          /\ owes' = [owes EXCEPT ![c] = @ \ {"file"}]
          /\ FileObject' = mine[c]
          /\ UNCHANGED LowerDeviceObject
       \/ /\ "device" \in owes[c]
          /\ owes' = [owes EXCEPT ![c] = @ \ {"device"}]
          /\ LowerDeviceObject' = target[c]
          /\ UNCHANGED FileObject
    /\ UNCHANGED <<driverVars, state, at, mine, target, crashed, historyVars>>

\* The device is tested: a request that began meanwhile has set it to NULL.
TestDevice(c) ==
    /\ at[c] = "opened" /\ owes[c] = {}
    /\ IF LowerDeviceObject # Null
       THEN GoTo(c, "deref") /\ UNCHANGED skipped
       ELSE GoTo(c, "call") /\ skipped' = skipped + 1
    /\ UNCHANGED <<driverVars, extensionVars, state, requestVars, crashed, overlapped, vanished>>

\* The file object in the extension may be another request's, and gone.
Dereference(c) ==
    /\ at[c] = "deref"
    /\ IF FileObject \in Held
       THEN /\ state' = [state EXCEPT ![FileObject] = "gone"]
            /\ GoTo(c, "call")
            /\ UNCHANGED crashed
       ELSE crashed' = "file" /\ UNCHANGED <<state, at>>
    /\ UNCHANGED <<driverVars, extensionVars, requestVars, historyVars>>

\* IoCallDriver, which enters MyDeviceControl of DriverSecond.
CallDriver(c) ==
    /\ at[c] = "call"
    /\ IF Exists(LowerDeviceObject)
       THEN /\ GoTo(c, "lower")
            /\ target' = [target EXCEPT ![c] = LowerDeviceObject]
            /\ UNCHANGED crashed
       ELSE /\ crashed' = IF LowerDeviceObject = Null THEN "null" ELSE "device"
            /\ UNCHANGED <<at, target>>
    /\ UNCHANGED <<driverVars, extensionVars, state, mine, owes, historyVars>>

\* It completes the request, if it is still there; MyCompletionRoutine lets it go.
Complete(c) ==
    /\ at[c] = "lower"
    /\ IF Exists(target[c])
       THEN GoTo(c, "idle") /\ UNCHANGED crashed
       ELSE crashed' = "device" /\ UNCHANGED at
    /\ UNCHANGED <<driverVars, extensionVars, state, requestVars, historyVars>>
-----------------------------------------------------------------------------
MyDeviceControl(c) ==
    \/ Lookup(c) \/ LookupFails(c) \/ LookupReturns(c)
    \/ TestDevice(c) \/ Dereference(c) \/ CallDriver(c) \/ Complete(c)

ForwardNext ==
    /\ crashed = "no"
    /\ \/ LoadFirst \/ UnloadFirst \/ LoadSecond \/ StopSecond \/ UnloadSecond
       \/ \E c \in Senders : MyCreateClose(c) \/ Forward(c) \/ MyDeviceControl(c)

ForwardSpec == ForwardInit /\ [][ForwardNext]_forwardVars

\* The callers' threads are scheduled, and a driver without references is unloaded.
ForwardFairSpec ==
    /\ ForwardSpec
    /\ WF_forwardVars(crashed = "no" /\ UnloadSecond)
    /\ \A c \in Senders : WF_forwardVars(crashed = "no" /\ MyDeviceControl(c))
-----------------------------------------------------------------------------
(***************************************************************************)
(* Properties                                                              *)
(***************************************************************************)
ForwardTypeOK ==
    /\ first \in {"absent", "loaded"} /\ handles \subseteq Senders /\ pinned \subseteq handles
    /\ second \in {"absent", "loaded", "unloading"} /\ loads \in 0..MaxLoads
    /\ LowerDeviceObject \in Devices \cup {Null} /\ FileObject \in Files \cup {NoFile}
    /\ state \in [Files -> {"unused", "held", "gone"}]
    /\ at \in [Senders -> {"idle", "lookup", "opened", "deref", "call", "lower"}]
    /\ mine \in [Senders -> Files \cup {NoFile}]
    /\ owes \in [Senders -> SUBSET {"file", "device"}]
    /\ target \in [Senders -> Devices \cup {Null}]
    /\ crashed \in {"no", "null", "file", "device"}
    /\ overlapped \in BOOLEAN /\ vanished \in BOOLEAN /\ skipped \in Nat

\* One request at a time never calls through NULL and never releases a file object
\* twice (MyDriver.c:122-146).  It does call a device that is gone, when DriverSecond
\* is unloaded after the reference was given back (MyDriver.c:139).
CrashHasCause ==
    /\ crashed \in {"null", "file"} => overlapped
    /\ crashed = "device" => overlapped \/ vanished

\* A request that takes another's file object leaves it its own: as many are held
\* as requests have yet to release one, and one for each request that saw NULL where
\* its lookup had put a device.  Only overlapping requests do.
FilesBalance ==
    /\ Cardinality(Held) = Cardinality(Owing) + skipped
    /\ skipped > 0 => overlapped

\* DriverSecond, asked to unload, is unloaded; unless one of its file objects was
\* lost, or the system crashed.
UnloadCompletes ==
    second = "unloading" ~> (second = "absent" \/ skipped > 0 \/ crashed # "no")
=============================================================================
