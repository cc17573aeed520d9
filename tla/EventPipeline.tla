--------------------------- MODULE EventPipeline ---------------------------
(***************************************************************************)
(* FilterDriver/main.c once it has started: the callbacks of the five       *)
(* monitors, the port to the console client and SendWorker, over the        *)
(* thread pool seen as a WorkQueue.  An event is one thing that happens in  *)
(* the system: a file operation, a process that starts, a registry access.  *)
(*                                                                         *)
(* Granularity.  A callback shares gClientPort, the monitoring flags and    *)
(* the pool with the others.  A step is what it does from one test of those *)
(* globals to the next; what it does in between touches its own memory.     *)
(* gClientPort and the flag of a test such as main.c:1107 are read together.*)
(***************************************************************************)
EXTENDS Integers, Sequences, FiniteSets

CONSTANTS
    Events,         \* the events of a behaviour
    Sources,        \* event -> the kinds of event it may be
    Ports,          \* client ports, one per connection
    NoPort,         \* NULL
    Senders,        \* threads of the pool: 5 in InitThreadPool
    Commands        \* the sets of monitors that the client's messages name

DeferredOps == {"close", "cleanup", "read", "write", "attributes"}
FileOps == DeferredOps \cup {"create"}
ProcessEvents == {"processCreate", "processExit"}
ThreadEvents == {"threadCreate", "threadExit"}
Kinds == FileOps \cup ProcessEvents \cup ThreadEvents \cup {"image", "registry"}
Monitors == {"process", "image", "thread", "registry", "file"}

ASSUME SourcesAssumption == Sources \in [Events -> SUBSET Kinds]
ASSUME CommandsAssumption == Commands \subseteq SUBSET Monitors
ASSUME NoPortAssumption == NoPort \notin Ports
ASSUME SendersAssumption == Senders \in Nat \ {0}

VARIABLES
    gClientPort,    \* gClientPort
    monitored,      \* the monitors whose g...MonitoringEnabled is TRUE
    portOpen,       \* the connection the filter manager holds open, or NoPort
    portsUsed,      \* ports of connections made so far
    disconnect,     \* where DisconnectNotifyCallback is
    source,         \* event -> what it is
    at,             \* event -> where its callback is
    scratch,        \* event -> its completion context, key name or image path
    mishap,         \* event -> the call that failed in its callback
    msg,            \* event -> its MY_CUSTOM_MESSAGE
    interrupted,    \* history: file operations during which monitoring stopped
    overtaken,      \* history: whether a connection beat gClientPort = NULL
    snapshot,       \* message -> SendWorker's local copy of the port
    pending, running, done, owed, phase     \* the pool

Pool == INSTANCE WorkQueue WITH Items <- Events

poolVars == <<pending, running, done, owed, phase>>
portVars == <<gClientPort, portOpen, portsUsed, disconnect, overtaken>>
eventVars == <<source, at, scratch, mishap>>
vars == <<portVars, monitored, eventVars, msg, interrupted, snapshot, poolVars>>

InPool == Pool!Pending \cup running

Init ==
    /\ gClientPort = NoPort
    /\ monitored = {}
    /\ portOpen = NoPort
    /\ portsUsed = {}
    /\ disconnect = "idle"
    /\ source = [e \in Events |-> "unknown"]
    /\ at = [e \in Events |-> "idle"]
    /\ scratch = [e \in Events |-> "none"]
    /\ mishap = [e \in Events |-> "none"]
    /\ msg = [e \in Events |-> "none"]
    /\ interrupted = {}
    /\ overtaken = FALSE
    /\ snapshot = [e \in Events |-> NoPort]
    /\ pending = <<>> /\ running = {} /\ done = {} /\ owed = {} /\ phase = "open"
-----------------------------------------------------------------------------
(***************************************************************************)
(* What the callbacks share                                                *)
(***************************************************************************)
GoTo(e, place) == at' = [at EXCEPT ![e] = place]

Return(e) == GoTo(e, "returned")

\* The system calls back for event e, which is of kind s.
Begins(e, s) ==
    /\ at[e] = "idle"
    /\ s \in Sources[e]
    /\ source' = [source EXCEPT ![e] = s]

Acquire(e) == scratch' = [scratch EXCEPT ![e] = "held"]

Release(e) ==
    scratch' = [scratch EXCEPT ![e] = IF @ = "held" THEN "released" ELSE @]

Mishap(e, what) == mishap' = [mishap EXCEPT ![e] = what]

Watching == gClientPort # NoPort /\ "file" \in monitored

\* TpEnqueueWorkItem; no callback looks at what it returns.
TpEnqueueWorkItem(e) ==
    \/ Pool!Submit(e) /\ UNCHANGED mishap
    \/ Mishap(e, "refused") /\ UNCHANGED poolVars

\* The file operations whose context exists and is still needed.
InFlight == {e \in Events : at[e] \in {"pending", "safe"}}

\* Monitoring of files stops, for a moment at least, for those in flight.
Interrupt ==
    interrupted' = interrupted \cup
        IF gClientPort' = NoPort \/ "file" \notin monitored' THEN InFlight ELSE {}
-----------------------------------------------------------------------------
(***************************************************************************)
(* Slips a change of this code could make; none is a step of the driver.    *)
(***************************************************************************)
\* Every callback returns early without a message, as the registry one does.
ReportReturnsEarly(e) ==
    /\ at[e] = "report"
    /\ source[e] # "registry"
    /\ \/ msg' = [msg EXCEPT ![e] = "allocated"] /\ TpEnqueueWorkItem(e) /\ Release(e)
       \/ Mishap(e, "noMemory") /\ UNCHANGED <<msg, scratch, poolVars>>
    /\ Return(e)
    /\ UNCHANGED <<portVars, monitored, source, interrupted, snapshot>>

\* The callback frees the message it has queued.
ReportFreesMessage(e) ==
    /\ at[e] = "report"
    /\ source[e] # "registry"
    /\ \/ msg' = [msg EXCEPT ![e] = "freed"] /\ TpEnqueueWorkItem(e)
       \/ Mishap(e, "noMemory") /\ UNCHANGED <<msg, poolVars>>
    /\ Release(e)
    /\ Return(e)
    /\ UNCHANGED <<portVars, monitored, source, interrupted, snapshot>>

\* FltCloseClientPort is given a copy of gClientPort.
FltCloseClientPortCopy ==
    /\ disconnect = "idle"
    /\ gClientPort # NoPort
    /\ portOpen' = NoPort
    /\ disconnect' = "closed"
    /\ UNCHANGED <<gClientPort, portsUsed, overtaken, monitored, eventVars, msg,
                   interrupted, snapshot, poolVars>>

\* FltSendMessage without a time-out waits for an open port to take it.
FltSendMessageForever(m) ==
    /\ snapshot[m] \in {NoPort, portOpen}
    /\ Pool!Finish(m)
    /\ msg' = [msg EXCEPT ![m] = "freed"]
    /\ snapshot' = [snapshot EXCEPT ![m] = NoPort]
    /\ UNCHANGED <<portVars, monitored, eventVars, interrupted>>

-----------------------------------------------------------------------------
(***************************************************************************)
(* The message of a callback                                               *)
(***************************************************************************)
\* The message is allocated and queued, or cannot be allocated; either way the
\* callback gives back what it holds: a file operation its context, a thread
\* that starts the image path.
Report(e) ==
    /\ at[e] = "report"
    /\ source[e] # "registry"
    /\ \/ msg' = [msg EXCEPT ![e] = "allocated"] /\ TpEnqueueWorkItem(e)
       \/ Mishap(e, "noMemory") /\ UNCHANGED <<msg, poolVars>>
    /\ Release(e)
    /\ Return(e)
    /\ UNCHANGED <<portVars, monitored, source, interrupted, snapshot>>

\* The registry callback also gives up when the text exceeds its 1024
\* characters, and returns early from both failures, the name still held.
RegistryReport(e) ==
    /\ at[e] = "report"
    /\ source[e] = "registry"
    /\ \/ /\ msg' = [msg EXCEPT ![e] = "allocated"]
          /\ TpEnqueueWorkItem(e)
          /\ Release(e)
       \/ /\ msg' = [msg EXCEPT ![e] = "allocated"]
          /\ Mishap(e, "tooLong")
          /\ UNCHANGED <<poolVars, scratch>>
       \/ /\ Mishap(e, "noMemory")
          /\ UNCHANGED <<msg, poolVars, scratch>>
    /\ Return(e)
    /\ UNCHANGED <<portVars, monitored, source, interrupted, snapshot>>
-----------------------------------------------------------------------------
(***************************************************************************)
(* File operations: the callbacks of FLT_OPERATION_REGISTRATION             *)
(***************************************************************************)
PreOperation(e, op) ==
    /\ Begins(e, op)
    /\ \/ Watching /\ Acquire(e) /\ GoTo(e, "pending") /\ UNCHANGED mishap
       \/ Watching /\ Mishap(e, "noMemory") /\ Return(e) /\ UNCHANGED scratch
       \/ ~Watching /\ Return(e) /\ UNCHANGED <<scratch, mishap>>
    /\ UNCHANGED <<portVars, monitored, msg, interrupted, snapshot, poolVars>>

\* The lower drivers have completed the operation, at DISPATCH_LEVEL perhaps:
\* the rest waits until it is safe, or cannot be made to wait.
PostOperation(e, op) ==
    /\ at[e] = "pending"
    /\ source[e] = op
    /\ \/ Watching /\ GoTo(e, "safe") /\ UNCHANGED mishap
       \/ Watching /\ Mishap(e, "notDeferred") /\ Return(e)
       \/ ~Watching /\ Return(e) /\ UNCHANGED mishap
    /\ UNCHANGED <<portVars, monitored, source, scratch, msg, interrupted,
                   snapshot, poolVars>>

\* The last test before the report.
LastTest(e) ==
    /\ GoTo(e, IF Watching THEN "report" ELSE "returned")
    /\ UNCHANGED <<portVars, monitored, source, scratch, mishap, msg,
                   interrupted, snapshot, poolVars>>

SafeCallback(e, op) == at[e] = "safe" /\ source[e] = op /\ LastTest(e)

PreCreate(e) == PreOperation(e, "create")
PostCreate(e) == at[e] = "pending" /\ source[e] = "create" /\ LastTest(e)

PreClose(e) == PreOperation(e, "close")
PostClose(e) == PostOperation(e, "close")
SafeCloseCallback(e) == SafeCallback(e, "close")

PreCleanup(e) == PreOperation(e, "cleanup")
PostCleanup(e) == PostOperation(e, "cleanup")
SafeCleanupCallback(e) == SafeCallback(e, "cleanup")

PreRead(e) == PreOperation(e, "read")
PostRead(e) == PostOperation(e, "read")
SafeReadCallback(e) == SafeCallback(e, "read")

PreWrite(e) == PreOperation(e, "write")
PostWrite(e) == PostOperation(e, "write")
SafeWriteCallback(e) == SafeCallback(e, "write")

PreAttributes(e) == PreOperation(e, "attributes")
PostAttributes(e) == PostOperation(e, "attributes")
SafeAttributesCallback(e) == SafeCallback(e, "attributes")
-----------------------------------------------------------------------------
(***************************************************************************)
(* Notify routines                                                         *)
(***************************************************************************)
NotifyOnly == UNCHANGED <<portVars, monitored, mishap, msg, interrupted,
                          snapshot, poolVars>>

\* A process that exits is reported only to a connected client.
ProcessFltNotifyRoutine(e) ==
    \E s \in ProcessEvents :
        /\ Begins(e, s)
        /\ GoTo(e, CASE "process" \notin monitored -> "returned"
                     [] s = "processCreate" -> "report"
                     [] OTHER -> "anyClient")
        /\ UNCHANGED scratch
        /\ NotifyOnly

ProcFltSendMessageProcessTerminate(e) ==
    /\ at[e] = "anyClient"
    /\ source[e] = "processExit"
    /\ GoTo(e, IF gClientPort = NoPort THEN "returned" ELSE "report")
    /\ UNCHANGED <<source, scratch>>
    /\ NotifyOnly

ImageFltNotifyRoutine(e) ==
    /\ Begins(e, "image")
    /\ GoTo(e, IF "image" \in monitored THEN "anyClient" ELSE "returned")
    /\ UNCHANGED scratch
    /\ NotifyOnly

\* No client, or no file name in the image's file object: nothing to say.
PLoadImageNotifyRoutine(e) ==
    /\ at[e] = "anyClient"
    /\ source[e] = "image"
    /\ \/ gClientPort # NoPort /\ GoTo(e, "report")
       \/ Return(e)
    /\ UNCHANGED <<source, scratch>>
    /\ NotifyOnly

\* GetImagePathFromPid may fail; a thread that exits does without the path.
ThreadFilterNotifyRoutine(e) ==
    \E s \in ThreadEvents :
        /\ Begins(e, s)
        /\ \/ /\ "thread" \in monitored
              /\ GoTo(e, "report")
              /\ IF s = "threadCreate" THEN Acquire(e) ELSE UNCHANGED scratch
           \/ /\ "thread" \notin monitored \/ s = "threadCreate"
              /\ Return(e)
              /\ UNCHANGED scratch
        /\ NotifyOnly

\* A class without a key object, a query, or a key without a name: no report.
CmRegistryCallback(e) ==
    /\ Begins(e, "registry")
    /\ \/ "registry" \in monitored /\ Acquire(e) /\ GoTo(e, "report")
       \/ Return(e) /\ UNCHANGED scratch
    /\ NotifyOnly
-----------------------------------------------------------------------------
(***************************************************************************)
(* The port                                                                *)
(***************************************************************************)
\* The filter manager admits one connection at a time.
ConnectNotifyCallback(p) ==
    /\ portOpen = NoPort
    /\ p \notin portsUsed
    /\ gClientPort' = p
    /\ portOpen' = p
    /\ portsUsed' = portsUsed \cup {p}
    /\ UNCHANGED <<disconnect, overtaken, monitored, eventVars, msg, interrupted,
                   snapshot, poolVars>>

\* FltCloseClientPort clears the variable it is given and ends the connection.
FltCloseClientPort ==
    /\ disconnect = "idle"
    /\ gClientPort # NoPort
    /\ gClientPort' = NoPort
    /\ portOpen' = NoPort
    /\ disconnect' = "closed"
    /\ UNCHANGED <<portsUsed, overtaken, monitored, eventVars, msg, snapshot,
                   poolVars>>
    /\ Interrupt

\* The assignment after it, which a new connection may have overtaken.
DisconnectNotifyCallback ==
    /\ disconnect = "closed"
    /\ gClientPort' = NoPort
    /\ disconnect' = "idle"
    /\ overtaken' = (overtaken \/ portOpen # NoPort)
    /\ UNCHANGED <<portOpen, portsUsed, monitored, eventVars, msg, snapshot,
                   poolVars>>
    /\ Interrupt

\* Each monitor the client's text names is toggled, once however often named.
HandleUserMessage(named) ==
    monitored' = (monitored \ named) \cup (named \ monitored)

MessageNotifyCallback ==
    /\ portOpen # NoPort
    /\ \E named \in Commands : HandleUserMessage(named)
    /\ UNCHANGED <<portVars, eventVars, msg, snapshot, poolVars>>
    /\ Interrupt
-----------------------------------------------------------------------------
(***************************************************************************)
(* SendWorker, the work routine, run by the pool for message m              *)
(***************************************************************************)
SendWorker(m) ==
    /\ pending # <<>> /\ m = Head(pending)
    /\ Cardinality(running) < Senders
    /\ Pool!StartOldest
    /\ snapshot' = [snapshot EXCEPT ![m] = gClientPort]
    /\ UNCHANGED <<portVars, monitored, eventVars, msg, interrupted>>

\* FltSendMessage, if there is a port, returns: the client took the message,
\* the port is closed, or a second has passed.  The message is freed.
FltSendMessage(m) ==
    /\ Pool!Finish(m)
    /\ msg' = [msg EXCEPT ![m] = "freed"]
    /\ snapshot' = [snapshot EXCEPT ![m] = NoPort]
    /\ UNCHANGED <<portVars, monitored, eventVars, interrupted>>
-----------------------------------------------------------------------------
FileOperation(e) ==
    \/ PreCreate(e) \/ PostCreate(e)
    \/ PreClose(e) \/ PostClose(e) \/ SafeCloseCallback(e)
    \/ PreCleanup(e) \/ PostCleanup(e) \/ SafeCleanupCallback(e)
    \/ PreRead(e) \/ PostRead(e) \/ SafeReadCallback(e)
    \/ PreWrite(e) \/ PostWrite(e) \/ SafeWriteCallback(e)
    \/ PreAttributes(e) \/ PostAttributes(e) \/ SafeAttributesCallback(e)

Notify(e) ==
    \/ ProcessFltNotifyRoutine(e) \/ ProcFltSendMessageProcessTerminate(e)
    \/ ImageFltNotifyRoutine(e) \/ PLoadImageNotifyRoutine(e)
    \/ ThreadFilterNotifyRoutine(e)
    \/ CmRegistryCallback(e)

Worker == \E m \in Events : SendWorker(m) \/ FltSendMessage(m)

Port ==
    \/ \E p \in Ports : ConnectNotifyCallback(p)
    \/ FltCloseClientPort \/ DisconnectNotifyCallback
    \/ MessageNotifyCallback

Next ==
    \/ \E e \in Events : FileOperation(e)
    \/ \E e \in Events : Notify(e)
    \/ \E e \in Events : Report(e)
    \/ \E e \in Events : RegistryReport(e)
    \/ Port
    \/ Worker

Spec == Init /\ [][Next]_vars

\* The pool's threads run, and FltSendMessage returns within its time-out.
FairSpec == Spec /\ \A m \in Events : WF_vars(SendWorker(m)) /\ WF_vars(FltSendMessage(m))
-----------------------------------------------------------------------------
(***************************************************************************)
(* Properties                                                              *)
(***************************************************************************)
PortOK ==
    /\ gClientPort \in Ports \cup {NoPort}
    /\ portOpen \in Ports \cup {NoPort}
    /\ portsUsed \in SUBSET Ports
    /\ disconnect \in {"idle", "closed"}
    /\ overtaken \in BOOLEAN
    /\ monitored \in SUBSET Monitors

EventOK ==
    /\ source \in [Events -> Kinds \cup {"unknown"}]
    /\ at \in [Events -> {"idle", "pending", "safe", "anyClient", "report",
                          "returned"}]
    /\ scratch \in [Events -> {"none", "held", "released"}]
    /\ mishap \in [Events -> {"none", "noMemory", "refused", "tooLong",
                              "notDeferred"}]
    /\ interrupted \in SUBSET Events

MessageOK ==
    /\ msg \in [Events -> {"none", "allocated", "freed"}]
    /\ snapshot \in [Events -> Ports \cup {NoPort}]

PoolOK ==
    /\ pending \in Seq(Events)
    /\ running \in SUBSET Events
    /\ done \in SUBSET Events
    /\ Cardinality(running) <= Senders

TypeOK == PortOK /\ EventOK /\ MessageOK /\ PoolOK

\* A completion context, image path or key name outlives its callback only if
\* the file monitor was interrupted while the operation was in flight, its
\* completion could not be deferred, or the registry callback found no memory
\* or no room for its text.
ScratchReturned ==
    \A e \in Events :
        at[e] = "returned" /\ scratch[e] = "held" =>
            \/ source[e] \in FileOps
               /\ (e \in interrupted \/ mishap[e] = "notDeferred")
            \/ source[e] = "registry" /\ mishap[e] \in {"noMemory", "tooLong"}

\* A message in memory is in the pool, queued or being sent, unless the pool
\* refused it or the registry callback dropped it: nothing else leaks.
MessageReturned ==
    \A e \in Events :
        msg[e] = "allocated" => e \in InPool \/ mishap[e] \in {"refused", "tooLong"}

\* A message the pool has, or SendWorker is sending, is still in memory, and
\* one that was freed is never queued again.
NoUseAfterFree == \A e \in InPool : msg[e] = "allocated"

\* A message is in memory exactly as long as the pool or SendWorker owns it, but for
\* those that TpEnqueueWorkItem refused or the registry callback dropped: callbacks and
\* SendWorker's threads neither leak one nor free it while the other side uses it.
MessageOwned == NoUseAfterFree /\ MessageReturned

\* gClientPort is the open connection.  The exception is a connection made
\* between the two halves of a disconnect: the driver never learns of it.
PortAgrees ==
    \/ gClientPort = portOpen
    \/ gClientPort = NoPort /\ overtaken

\* A queued message is freed in the end, with or without a client to take it.
QueuedIsFreed == \A m \in Events : (m \in InPool) ~> (msg[m] = "freed")
=============================================================================
