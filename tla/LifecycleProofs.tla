--------------------------- MODULE LifecycleProofs ---------------------------
(***************************************************************************)
(* What TLAPS proves of the two components whose subject is a driver that   *)
(* goes while it is in use: FilterLifecycle, for any number of callers and   *)
(* whatever steps of DriverEntry may fail; and DeviceForward, for any number *)
(* of senders, file objects and loads of DriverSecond.                      *)
(***************************************************************************)
EXTENDS FilterLifecycle, DeviceForward, FiniteSetTheorems, TLAPS
-----------------------------------------------------------------------------
(***************************************************************************)
(* FilterLifecycle                                                         *)
(***************************************************************************)
\* FilterUnload before it frees the pool, and after.
PoolKept == {"idle", "thread", "registry", "image", "process", "pool"}
PoolGone == {"port", "file", "unloaded"}

Typed ==
    /\ entry \in EntrySteps \cup {"loaded", "failed"}
    /\ unload \in PoolKept \cup PoolGone
    /\ routines \subseteq Routines
    /\ inside \in [Callers -> Routines \cup {"none"}]
    /\ pool \in {"none", "zeroed", "running", "uninit", "freed"}
    /\ freedBy \in {"nobody", "DriverEntry", "FilterUnload"}

\* A routine that somebody is in has not been removed.
InsideIsRegistered == \A c \in Callers : inside[c] # "none" => inside[c] \in routines

\* Nothing is registered before there is a pool to queue to.
PoolFirst ==
    /\ entry \in {"filter", "memory", "TpInit", "port"} => routines = {}
    /\ entry \in {"filter", "memory", "TpInit"} => pool # "freed"
    /\ entry \in {"port", "start", "loaded"} \cup Notifications \/ routines # {} =>
           pool \in {"running", "uninit", "freed"}
    /\ entry \in {"TpInit", "port", "start", "loaded"} \cup Notifications \/ routines # {} =>
           gThreadPool \/ unload \in PoolGone

\* Who freed the pool.
FreedOK ==
    /\ pool = "freed" <=> freedBy # "nobody"
    /\ freedBy = "FilterUnload" => unload \in PoolGone

\* How far FilterUnload has come.
UnloadOK ==
    /\ unload # "idle" => entry = "loaded"
    /\ unload \in {"registry", "image", "process", "pool"} \cup PoolGone => "thread" \notin routines
    /\ unload \in {"image", "process", "pool"} \cup PoolGone => "registry" \notin routines
    /\ unload \in {"process", "pool"} \cup PoolGone => "image" \notin routines
    /\ unload \in {"pool"} \cup PoolGone => "process" \notin routines
    /\ unload \in PoolGone => ~gThreadPool /\ pool = "freed"
    /\ unload \in {"file", "unloaded"} => ~serverPort
    /\ unload = "unloaded" => ~filter /\ "file" \notin routines

IInv ==
    Typed /\ InsideIsRegistered /\ PoolFirst /\ FreedOK /\ UnloadOK /\ NotifyBeforeFree

\* The invariant holds at first and says what the properties say.
LEMMA IInvInit == Init => IInv
  BY DEF Init, IInv, Typed, InsideIsRegistered, PoolFirst, FreedOK, UnloadOK,
         NotifyBeforeFree, EntrySteps, PoolKept, PoolGone, Notifications, Routines

LEMMA IInvImplies == IInv => UnloadedIsQuiet
  BY DEF IInv, Typed, InsideIsRegistered, UnloadOK, UnloadedIsQuiet, PoolGone, Notifications, Routines

\* Every step keeps it.
LEMMA IInvNext == IInv /\ [Next]_vars => IInv'
<1> SUFFICES ASSUME IInv, [Next]_vars PROVE IInv'
  OBVIOUS
<1> USE DEF IInv, Typed, InsideIsRegistered, PoolFirst, FreedOK, UnloadOK, NotifyBeforeFree,
            EntrySteps, PoolKept, PoolGone, Notifications, Routines,
            systemVars, poolVars, callVars
<1>1. CASE FltRegisterFilter
  BY <1>1 DEF FltRegisterFilter, MayFail
<1>2. CASE AllocateThreadPool
  BY <1>2 DEF AllocateThreadPool, MayFail
<1>3. CASE InitThreadPool
  BY <1>3 DEF InitThreadPool, MayFail
<1>4. CASE CreateCommunicationPort
  BY <1>4 DEF CreateCommunicationPort, MayFail
<1>5. ASSUME NEW r \in Notifications, NEW next \in {"image", "thread", "registry", "start"},
             Registers(r, next)
      PROVE  IInv'
  BY <1>5 DEF Registers
<1>6. ASSUME NEW r \in Notifications, RegisterFails(r) PROVE IInv'
  BY <1>6 DEF RegisterFails, MayFail, TpUninitAndFree
<1>7. ASSUME NEW r \in Notifications, NEW next \in {"registry", "start"},
             RegisterFailsAndGoesOn(r, next)
      PROVE  IInv'
  BY <1>7 DEF RegisterFailsAndGoesOn, MayFail, TpUninitAndFree
<1>8. CASE FltStartFiltering
  BY <1>8 DEF FltStartFiltering, MayFail
<1>9. CASE FilterUnload
  BY <1>9 DEF FilterUnload
<1>10. CASE ThreadFilterUninitialize
  BY <1>10 DEF ThreadFilterUninitialize, Removes, Quiet
<1>11. CASE RegistryFilterUninitialize
  BY <1>11 DEF RegistryFilterUninitialize, Removes, Quiet
<1>12. CASE ImageFilterUninitialize
  BY <1>12 DEF ImageFilterUninitialize, Removes, Quiet
<1>13. CASE ProcessFilterUninitialize
  BY <1>13 DEF ProcessFilterUninitialize, Removes, Quiet
<1>14. CASE FreeThreadPool
  BY <1>14 DEF FreeThreadPool, TpUninitAndFree
<1>15. CASE FltCloseCommunicationPort
  BY <1>15 DEF FltCloseCommunicationPort
<1>16. CASE FltUnregisterFilter
  BY <1>16 DEF FltUnregisterFilter, Quiet
<1>17. ASSUME NEW c \in Callers, CallBack(c) PROVE IInv'
  BY <1>17 DEF CallBack
<1>18. ASSUME NEW c \in Callers, TpEnqueueWorkItem(c) PROVE IInv'
  BY <1>18 DEF TpEnqueueWorkItem
<1>19. ASSUME NEW c \in Callers, ReturnsAtOnce(c) PROVE IInv'
  BY <1>19 DEF ReturnsAtOnce
<1>20. CASE UNCHANGED vars
  BY <1>20 DEF vars
<1> QED
  BY <1>1, <1>2, <1>3, <1>4, <1>5, <1>6, <1>7, <1>8, <1>9, <1>10, <1>11, <1>12, <1>13,
     <1>14, <1>15, <1>16, <1>17, <1>18, <1>19, <1>20
  DEF Next, DriverEntry, Unloading, ProcessFilterInitialize, ImageFilterInitialize,
      ThreadFilterInitialize, RegistryFilterInitialize

\* The invariant holds in every reachable state: where DriverEntry and FilterUnload
\* are says what is registered, who may be inside and whether the pool is there.
THEOREM IInvCorrect == Spec => []IInv
  BY IInvInit, IInvNext, PTL DEF Spec

\* When FilterUnload has returned nobody is in the driver's code, nothing can call
\* it, and what DriverEntry made is undone (main.c:2415-2448).
THEOREM UnloadedIsQuietCorrect == Spec => []UnloadedIsQuiet
  BY IInvCorrect, IInvImplies, PTL

\* Notify routines are removed, and have returned, before FilterUnload frees the
\* pool they queue to (main.c:2423-2432).
THEOREM NotifyBeforeFreeCorrect == Spec => []NotifyBeforeFree
<1>1. IInv => NotifyBeforeFree
  BY DEF IInv
<1> QED
  BY <1>1, IInvCorrect, PTL
-----------------------------------------------------------------------------
(***************************************************************************)
(* DeviceForward: the inductive invariant.  While requests do not overlap    *)
(* the device extension is one request's own; the balance of file objects    *)
(* holds however they do.                                                   *)
(***************************************************************************)
\* A request keeps the device open, and an open device DriverFirst loaded.
ForwardPlaceOK ==
    /\ Forwarding \subseteq handles
    /\ handles # {} => first = "loaded"
    /\ second # "absent" => loads \in Devices

\* Until two overlap there is one.
OneForwards ==
    ~overlapped => \A c, d \in Forwarding : c = d

\* What the only request finds in the device extension.
ExtensionOK ==
    ~overlapped => \A c \in Senders :
        /\ at[c] = "opened" =>
               /\ mine[c] \in Held /\ target[c] \in Devices
               /\ "file" \in owes[c] \/ FileObject = mine[c]
               /\ "device" \in owes[c] \/ LowerDeviceObject = target[c]
        /\ at[c] = "deref" => FileObject \in Held
        /\ at[c] \in {"deref", "call"} => LowerDeviceObject \in Devices

\* The device it was given is there, until DriverSecond leaves it.
DeviceOK ==
    ~overlapped /\ ~vanished => \A c \in Senders :
        /\ at[c] \in {"opened", "lower"} => Exists(target[c])
        /\ at[c] \in {"deref", "call"} => Exists(LowerDeviceObject)

\* The balance, and what counting it needs.
HeldOK == IsFiniteSet(Held) /\ IsFiniteSet(Owing) /\ FilesBalance

ForwardInv ==
    /\ ForwardTypeOK /\ ForwardPlaceOK /\ OneForwards /\ ExtensionOK /\ DeviceOK /\ HeldOK
    /\ CrashHasCause
-----------------------------------------------------------------------------
\* It holds at first.
LEMMA ForwardInitInv == ForwardInit => ForwardInv
<1> SUFFICES ASSUME ForwardInit PROVE ForwardInv
  OBVIOUS
<1> USE DEF ForwardInit
<1>1. ForwardTypeOK
  <2>1. owes \in [Senders -> SUBSET {"file", "device"}]
    OBVIOUS
  <2>2. loads \in 0..MaxLoads /\ skipped \in Nat
    BY MaxLoadsAssumption
  <2> QED
    BY <2>1, <2>2 DEF ForwardTypeOK
<1>2. ForwardPlaceOK /\ OneForwards /\ ExtensionOK /\ DeviceOK /\ CrashHasCause
  BY DEF ForwardPlaceOK, OneForwards, ExtensionOK, DeviceOK, CrashHasCause, Forwarding
<1>3. Held = {} /\ Owing = {}
  BY DEF Held, Owing
<1>4. HeldOK
  BY <1>3, FS_EmptySet DEF HeldOK, FilesBalance
<1> QED
  BY <1>1, <1>2, <1>4 DEF ForwardInv

\* Each step keeps the types and what is loaded under a request,
LEMMA ForwardTypeStep ==
    ASSUME ForwardTypeOK, ForwardPlaceOK, [ForwardNext]_forwardVars
    PROVE  ForwardTypeOK' /\ ForwardPlaceOK'
<1> USE MaxLoadsAssumption
    DEF ForwardTypeOK, ForwardPlaceOK, Forwarding, GoTo, Devices, Null,
        driverVars, extensionVars, requestVars, historyVars
<1>1. CASE LoadFirst \/ UnloadFirst \/ LoadSecond \/ StopSecond \/ UnloadSecond
  <2>1. CASE LoadFirst \/ UnloadFirst
    BY <2>1 DEF LoadFirst, UnloadFirst
  <2>2. CASE LoadSecond
    BY <2>2 DEF LoadSecond
  <2>3. CASE StopSecond \/ UnloadSecond
    BY <2>3 DEF StopSecond, UnloadSecond
  <2> QED
    BY <1>1, <2>1, <2>2, <2>3
<1>2. ASSUME NEW c \in Senders, MyCreateClose(c) \/ Forward(c)
      PROVE  ForwardTypeOK' /\ ForwardPlaceOK'
  BY <1>2 DEF MyCreateClose, Forward
<1>3. ASSUME NEW c \in Senders, Lookup(c)
      PROVE  ForwardTypeOK' /\ ForwardPlaceOK'
  BY <1>3 DEF Lookup
<1>4. ASSUME NEW c \in Senders, LookupFails(c) \/ LookupReturns(c)
      PROVE  ForwardTypeOK' /\ ForwardPlaceOK'
  BY <1>4 DEF LookupFails, LookupReturns
<1>5. ASSUME NEW c \in Senders, TestDevice(c) \/ Dereference(c)
      PROVE  ForwardTypeOK' /\ ForwardPlaceOK'
  BY <1>5 DEF TestDevice, Dereference
<1>6. ASSUME NEW c \in Senders, CallDriver(c) \/ Complete(c)
      PROVE  ForwardTypeOK' /\ ForwardPlaceOK'
  BY <1>6 DEF CallDriver, Complete
<1>7. CASE UNCHANGED forwardVars
  BY <1>7 DEF forwardVars
<1> QED
  BY <1>1, <1>2, <1>3, <1>4, <1>5, <1>6, <1>7 DEF ForwardNext, MyDeviceControl

\* that a second request is an overlap,
LEMMA OneForwardsStep ==
    ASSUME ForwardTypeOK, OneForwards, [ForwardNext]_forwardVars
    PROVE  OneForwards'
<1> USE DEF ForwardTypeOK, OneForwards, Forwarding, GoTo, historyVars
<1>1. CASE LoadFirst \/ UnloadFirst \/ LoadSecond \/ StopSecond \/ UnloadSecond
  BY <1>1 DEF LoadFirst, UnloadFirst, LoadSecond, StopSecond, UnloadSecond
<1>2. ASSUME NEW c \in Senders, MyCreateClose(c) \/ Forward(c)
      PROVE  OneForwards'
  <2>1. CASE MyCreateClose(c)
    BY <2>1 DEF MyCreateClose
  <2>2. CASE Forward(c)
    <3>1. overlapped' = (overlapped \/ Forwarding # {}) /\ at' = [at EXCEPT ![c] = "lookup"]
      BY <2>2 DEF Forward
    <3> QED
      BY <3>1
  <2> QED
    BY <1>2, <2>1, <2>2
<1>3. ASSUME NEW c \in Senders, MyDeviceControl(c)
      PROVE  OneForwards'
  BY <1>3 DEF MyDeviceControl, Lookup, LookupFails, LookupReturns, TestDevice, Dereference,
              CallDriver, Complete
<1>4. CASE UNCHANGED forwardVars
  BY <1>4 DEF forwardVars
<1> QED
  BY <1>1, <1>2, <1>3, <1>4 DEF ForwardNext

\* that a request alone finds in the extension what its own lookup wrote,
LEMMA ExtensionStep ==
    ASSUME ForwardTypeOK, ForwardPlaceOK, OneForwards, ExtensionOK, [ForwardNext]_forwardVars
    PROVE  ExtensionOK'
<1> USE NoFileAssumption
    DEF ForwardTypeOK, ForwardPlaceOK, OneForwards, ExtensionOK, Forwarding, Held, GoTo,
        Devices, Null, driverVars, extensionVars, requestVars, historyVars
<1>1. CASE LoadFirst \/ UnloadFirst \/ LoadSecond \/ StopSecond \/ UnloadSecond
  BY <1>1 DEF LoadFirst, UnloadFirst, LoadSecond, StopSecond, UnloadSecond
<1>2. ASSUME NEW c \in Senders, MyCreateClose(c) \/ Forward(c)
      PROVE  ExtensionOK'
  <2>1. CASE MyCreateClose(c)
    BY <2>1 DEF MyCreateClose
  <2>2. CASE Forward(c)
    <3>1. /\ overlapped' = (overlapped \/ Forwarding # {}) /\ at' = [at EXCEPT ![c] = "lookup"]
          /\ UNCHANGED <<FileObject, state, requestVars>>
      BY <2>2 DEF Forward
    <3>2. ~overlapped' => ~overlapped /\ \A d \in Senders : at[d] = "idle"
      BY <3>1
    <3> QED
      BY <3>1, <3>2
  <2> QED
    BY <1>2, <2>1, <2>2
<1>3. ASSUME NEW c \in Senders, Lookup(c)
      PROVE  ExtensionOK'
  BY <1>3 DEF Lookup
<1>4. ASSUME NEW c \in Senders, LookupFails(c) \/ LookupReturns(c)
      PROVE  ExtensionOK'
  BY <1>4 DEF LookupFails, LookupReturns
<1>5. ASSUME NEW c \in Senders, TestDevice(c) \/ Dereference(c)
      PROVE  ExtensionOK'
  BY <1>5 DEF TestDevice, Dereference
<1>6. ASSUME NEW c \in Senders, CallDriver(c) \/ Complete(c)
      PROVE  ExtensionOK'
  BY <1>6 DEF CallDriver, Complete
<1>7. CASE UNCHANGED forwardVars
  BY <1>7 DEF forwardVars
<1> QED
  BY <1>1, <1>2, <1>3, <1>4, <1>5, <1>6, <1>7 DEF ForwardNext, MyDeviceControl

\* that its device is there, unless it vanished under a call;
LEMMA DeviceStep ==
    ASSUME ForwardTypeOK, ForwardPlaceOK, OneForwards, ExtensionOK, DeviceOK,
           [ForwardNext]_forwardVars
    PROVE  DeviceOK'
<1> USE DEF ForwardTypeOK, ForwardPlaceOK, OneForwards, ExtensionOK, DeviceOK, Exists,
            Forwarding, Held, GoTo, driverVars, extensionVars, requestVars, historyVars
<1>1. CASE LoadFirst \/ UnloadFirst \/ LoadSecond \/ StopSecond \/ UnloadSecond
  BY <1>1 DEF LoadFirst, UnloadFirst, LoadSecond, StopSecond, UnloadSecond
<1>2. ASSUME NEW c \in Senders, MyCreateClose(c) \/ Forward(c)
      PROVE  DeviceOK'
  BY <1>2 DEF MyCreateClose, Forward
<1>3. ASSUME NEW c \in Senders, Lookup(c)
      PROVE  DeviceOK'
  BY <1>3 DEF Lookup
<1>4. ASSUME NEW c \in Senders, LookupFails(c) \/ LookupReturns(c)
      PROVE  DeviceOK'
  BY <1>4 DEF LookupFails, LookupReturns
<1>5. ASSUME NEW c \in Senders, TestDevice(c) \/ Dereference(c)
      PROVE  DeviceOK'
  BY <1>5 DEF TestDevice, Dereference
<1>6. ASSUME NEW c \in Senders, CallDriver(c) \/ Complete(c)
      PROVE  DeviceOK'
  BY <1>6 DEF CallDriver, Complete
<1>7. CASE UNCHANGED forwardVars
  BY <1>7 DEF forwardVars
<1> QED
  BY <1>1, <1>2, <1>3, <1>4, <1>5, <1>6, <1>7 DEF ForwardNext, MyDeviceControl

\* that each file object is held for a request or lost by one (Lookup opens one,
\* Dereference closes one, whosever it is, and TestDevice may skip that),
LEMMA HeldStep ==
    ASSUME ForwardTypeOK, ExtensionOK, HeldOK, [ForwardNext]_forwardVars
    PROVE  HeldOK'
<1> USE DEF HeldOK, FilesBalance
<1>0. /\ Cardinality(Held) \in Nat /\ Cardinality(Owing) \in Nat /\ skipped \in Nat
  BY FS_CardinalityType DEF ForwardTypeOK
<1>1. CASE /\ Held' = Held /\ Owing' = Owing /\ skipped' = skipped
           /\ overlapped => overlapped'
  BY <1>1
<1>2. ASSUME NEW c \in Senders, Lookup(c)
      PROVE  HeldOK'
  <2>1. PICK f \in Files : state[f] = "unused" /\ state' = [state EXCEPT ![f] = "held"]
    BY <1>2 DEF Lookup
  <2>2. at[c] = "lookup" /\ at' = [at EXCEPT ![c] = "opened"] /\ UNCHANGED <<skipped, overlapped>>
    BY <1>2 DEF Lookup, GoTo, historyVars
  <2>3. f \notin Held /\ Held' = Held \cup {f}
    BY <2>1 DEF Held, ForwardTypeOK
  <2>4. c \notin Owing /\ Owing' = Owing \cup {c}
    BY <2>2 DEF Owing, ForwardTypeOK
  <2>5. IsFiniteSet(Held') /\ Cardinality(Held') = Cardinality(Held) + 1
    BY <2>3, FS_AddElement
  <2>6. IsFiniteSet(Owing') /\ Cardinality(Owing') = Cardinality(Owing) + 1
    BY <2>4, FS_AddElement
  <2> QED
    BY <1>0, <2>2, <2>5, <2>6
<1>3. ASSUME NEW c \in Senders, TestDevice(c), LowerDeviceObject = Null
      PROVE  HeldOK'
  <2>1. /\ at[c] = "opened" /\ owes[c] = {} /\ at' = [at EXCEPT ![c] = "call"]
        /\ skipped' = skipped + 1 /\ UNCHANGED <<state, overlapped>>
    BY <1>3 DEF TestDevice, GoTo
  <2>2. overlapped
    BY <1>3, <2>1, MaxLoadsAssumption DEF ExtensionOK, Devices, Null, ForwardTypeOK
  <2>3. Held' = Held
    BY <2>1 DEF Held
  <2>4. c \in Owing /\ Owing' = Owing \ {c}
    BY <2>1 DEF Owing, ForwardTypeOK
  <2>5. IsFiniteSet(Owing') /\ Cardinality(Owing') = Cardinality(Owing) - 1
    BY <2>4, FS_RemoveElement
  <2> QED
    BY <1>0, <2>1, <2>2, <2>3, <2>5
<1>4. ASSUME NEW c \in Senders, Dereference(c), FileObject \in Held
      PROVE  HeldOK'
  <2>1. /\ at[c] = "deref" /\ at' = [at EXCEPT ![c] = "call"]
        /\ state' = [state EXCEPT ![FileObject] = "gone"] /\ UNCHANGED <<skipped, overlapped>>
    BY <1>4 DEF Dereference, GoTo, historyVars
  <2>2. Held' = Held \ {FileObject}
    BY <1>4, <2>1 DEF Held, ForwardTypeOK
  <2>3. c \in Owing /\ Owing' = Owing \ {c}
    BY <2>1 DEF Owing, ForwardTypeOK
  <2>4. IsFiniteSet(Held') /\ Cardinality(Held') = Cardinality(Held) - 1
    BY <1>4, <2>2, FS_RemoveElement
  <2>5. IsFiniteSet(Owing') /\ Cardinality(Owing') = Cardinality(Owing) - 1
    BY <2>3, FS_RemoveElement
  <2> QED
    BY <1>0, <2>1, <2>4, <2>5
<1> HIDE DEF HeldOK, FilesBalance
<1> USE DEF Held, Owing, ForwardTypeOK, GoTo, historyVars, driverVars
<1>5. ASSUME NEW c \in Senders, MyDeviceControl(c) \/ MyCreateClose(c) \/ Forward(c)
      PROVE  HeldOK'
  <2>1. CASE Lookup(c) \/ LookupReturns(c) \/ CallDriver(c) \/ Complete(c)
    BY <1>1, <1>2, <2>1 DEF LookupReturns, CallDriver, Complete
  <2>2. CASE LookupFails(c) \/ MyCreateClose(c) \/ Forward(c)
    BY <1>1, <2>2 DEF LookupFails, MyCreateClose, Forward
  <2>3. CASE TestDevice(c)
    BY <1>1, <1>3, <2>3 DEF TestDevice
  <2>4. CASE Dereference(c)
    BY <1>1, <1>4, <2>4 DEF Dereference
  <2> QED
    BY <1>5, <2>1, <2>2, <2>3, <2>4 DEF MyDeviceControl
<1>6. CASE LoadFirst \/ UnloadFirst \/ LoadSecond \/ StopSecond \/ UnloadSecond
  BY <1>1, <1>6 DEF LoadFirst, UnloadFirst, LoadSecond, StopSecond, UnloadSecond
<1>7. CASE UNCHANGED forwardVars
  BY <1>1, <1>7 DEF forwardVars
<1> QED
  BY <1>5, <1>6, <1>7 DEF ForwardNext

\* and that only an overlap or a vanished device stops the system.
LEMMA ForwardCrashStep ==
    ASSUME ForwardTypeOK, ExtensionOK, DeviceOK, CrashHasCause, [ForwardNext]_forwardVars
    PROVE  CrashHasCause'
<1> USE DEF CrashHasCause, historyVars
<1>1. CASE UNCHANGED crashed /\ (overlapped => overlapped') /\ (vanished => vanished')
  BY <1>1
<1>2. ASSUME NEW c \in Senders, Dereference(c) PROVE CrashHasCause'
  BY <1>2 DEF Dereference, ExtensionOK
<1>3. ASSUME NEW c \in Senders, CallDriver(c) PROVE CrashHasCause'
  BY <1>3, MaxLoadsAssumption DEF CallDriver, ExtensionOK, DeviceOK, Devices, Null
<1>4. ASSUME NEW c \in Senders, Complete(c) PROVE CrashHasCause'
  BY <1>4 DEF Complete, DeviceOK
<1> QED
  BY <1>1, <1>2, <1>3, <1>4
  DEF ForwardNext, MyDeviceControl, LoadFirst, UnloadFirst, LoadSecond, StopSecond, UnloadSecond,
      MyCreateClose, Forward, Lookup, LookupFails, LookupReturns, TestDevice, forwardVars

\* Every step keeps the invariant.
LEMMA ForwardInvNext == ForwardInv /\ [ForwardNext]_forwardVars => ForwardInv'
  BY ForwardTypeStep, OneForwardsStep, ExtensionStep, DeviceStep, HeldStep, ForwardCrashStep
  DEF ForwardInv

\* In every reachable state the extension is as the requests in progress left it.
THEOREM ForwardInvariance == ForwardSpec => []ForwardInv
  BY ForwardInitInv, ForwardInvNext, PTL DEF ForwardSpec

\* The variables keep their types.
THEOREM ForwardTypeCorrect == ForwardSpec => []ForwardTypeOK
<1>1. ForwardInv => ForwardTypeOK
  BY DEF ForwardInv
<1> QED
  BY <1>1, ForwardInvariance, PTL

\* Requests that do not overlap never call through NULL and never release a file
\* object twice (MyDriver.c:122-146); and they call a device that is gone only when
\* DriverSecond left after the reference to it was given back (MyDriver.c:139).
THEOREM CrashHasCauseCorrect == ForwardSpec => []CrashHasCause
<1>1. ForwardInv => CrashHasCause
  BY DEF ForwardInv
<1> QED
  BY <1>1, ForwardInvariance, PTL

\* As many file objects are open as requests have yet to release one, plus one for
\* each request that saw NULL where its lookup had put a device; and only an
\* overlap makes that happen.
THEOREM FilesBalanceCorrect == ForwardSpec => []FilesBalance
<1>1. ForwardInv => FilesBalance
  BY DEF ForwardInv, HeldOK
<1> QED
  BY <1>1, ForwardInvariance, PTL
=============================================================================
