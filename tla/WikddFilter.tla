---------------------------- MODULE WikddFilter ----------------------------
(***************************************************************************)
(* wikdd6k/main.c, the predecessor of FilterDriver, with the console client *)
(* that connects to its port of the same name.  PreCreate sends each file    *)
(* name from the thread that opens the file, with no pool and no time-out;   *)
(* and the client opens output.log for each message, itself a file opened.   *)
(*                                                                         *)
(* The client is its GetWorker threads.  Which of them come to receive is    *)
(* ConsoleClient's subject: here some do, at least one.                     *)
(* A driver that failed to load (FltStartFiltering, whose failure undoes      *)
(* nothing) has no client here: its code is gone.                           *)
(***************************************************************************)
EXTENDS Integers, Sequences, FiniteSets

CONSTANTS
    Receivers,      \* the client's threads that run GetWorker: up to 5
    Openers,        \* threads of other processes that open files
    Ports,          \* bound: client ports, one per connection
    NoPort,         \* NULL
    Texts,          \* what the client's user may type
    Opens           \* bound: opens of Openers that find a client

ASSUME ThreadsAssumption ==
    Receivers \cap Openers = {} /\ Receivers # {} /\ IsFiniteSet(Receivers)
ASSUME NoPortAssumption == NoPort \notin Ports
ASSUME OpensAssumption == Opens \in Nat

Threads == Receivers \cup Openers

VARIABLES
    load,           \* how far DriverEntry or FilterUnload is
    registered,     \* what the system knows of: the filter, the port, ProcessFilter
    gClientPort,
    connection,     \* the filter manager's one connection
    portsUsed,
    disconnect,     \* port -> its DisconnectNotifyCallback: "idle", "called", "closed", "done"
    client,         \* whether the client runs
    receiver,       \* GetWorker's place: "off", "get", "received", "locked", "open"
    creating,       \* thread -> its PreCreate: "out", "named" or "sending"
    inbox,          \* the threads whose messages wait for a FilterGetMessage
    opens,          \* how many opens of Openers found a client to tell
    echo            \* history: messages sent to this client for the opens of others,
                    \* less its own opens that were not reported

loadVars == <<load, registered>>
portVars == <<gClientPort, connection, portsUsed, disconnect>>
clientVars == <<client, receiver, echo>>
vars == <<loadVars, portVars, clientVars, creating, inbox, opens>>

Init ==
    /\ load = "entry" /\ registered = {}
    /\ gClientPort = NoPort /\ connection = NoPort /\ portsUsed = {}
    /\ disconnect = [p \in Ports |-> "idle"]
    /\ client = FALSE /\ receiver = [t \in Receivers |-> "off"] /\ echo = 0
    /\ creating = [t \in Threads |-> "out"]
    /\ inbox = <<>> /\ opens = 0

Filtering == load \in {"loaded", "closing"}
Reading == client /\ connection # NoPort /\ disconnect[connection] = "idle"
LogHolders == {t \in Receivers : receiver[t] \in {"locked", "open"}}

\* FltSendMessage returns to all that wait when the port is disconnected.
SendersReturn ==
    /\ inbox' = <<>>
    /\ creating' = [t \in Threads |-> IF creating[t] = "sending" THEN "out" ELSE creating[t]]
-----------------------------------------------------------------------------
(***************************************************************************)
(* Slips a change of this code could make; none is a step of driver or      *)
(* client.                                                                  *)
(***************************************************************************)
\* FltCloseClientPort with the address of a copy of gClientPort.
FltCloseClientPortCopy(p) ==
    /\ disconnect[p] = "called"
    /\ IF gClientPort # NoPort
       THEN /\ connection' = NoPort
            /\ disconnect' = [disconnect EXCEPT ![p] = "closed"]
       ELSE /\ disconnect' = [disconnect EXCEPT ![p] = "done"]
            /\ UNCHANGED connection
    /\ UNCHANGED <<loadVars, gClientPort, portsUsed, clientVars, creating, inbox, opens>>

\* FltCreateCommunicationPort with room for two connections.
ConnectTwo(p) ==
    /\ load \in {"port", "loaded"} /\ ~client
    /\ p \notin portsUsed
    /\ gClientPort' = p /\ connection' = p
    /\ portsUsed' = portsUsed \cup {p}
    /\ client' = TRUE /\ echo' = 0
    /\ \E rs \in SUBSET Receivers \ {{}} :
         receiver' = [t \in Receivers |-> IF t \in rs THEN "get" ELSE "off"]
    /\ UNCHANGED <<loadVars, disconnect, creating, inbox, opens>>

\* GetWorker drops the message when fLock is taken.
FilterGetMessageDrops(t) ==
    /\ receiver[t] = "get"
    /\ Reading /\ inbox # <<>>
    /\ creating' = [creating EXCEPT ![Head(inbox)] = "out"]
    /\ inbox' = Tail(inbox)
    /\ receiver' = [receiver EXCEPT ![t] = IF LogHolders = {} THEN "received" ELSE "get"]
    /\ UNCHANGED <<loadVars, portVars, client, echo, opens>>

\* AcquireSRWLockShared instead of Exclusive.
LockLogShared(t) ==
    /\ receiver[t] = "received"
    /\ receiver' = [receiver EXCEPT ![t] = "locked"]
    /\ UNCHANGED <<loadVars, portVars, client, echo, creating, inbox, opens>>

\* GetWorker returns when it has logged one message.
WriteAndLeave(t) ==
    /\ receiver[t] = "open"
    /\ creating[t] = "out"
    /\ receiver' = [receiver EXCEPT ![t] = "off"]
    /\ UNCHANGED <<loadVars, portVars, client, echo, creating, inbox, opens>>
-----------------------------------------------------------------------------
(***************************************************************************)
(* DriverEntry and FilterUnload                                             *)
(***************************************************************************)
FltRegisterFilter ==
    /\ load = "entry"
    /\ \/ load' = "filter" /\ registered' = {"filter"}
       \/ load' = "failed" /\ UNCHANGED registered
    /\ UNCHANGED <<portVars, clientVars, creating, inbox, opens>>

\* On failure the filter is unregistered.
CreateCommunicationPort ==
    /\ load = "filter"
    /\ \/ load' = "port" /\ registered' = registered \cup {"port"}
       \/ load' = "failed" /\ registered' = {}
    /\ UNCHANGED <<portVars, clientVars, creating, inbox, opens>>

\* On failure nothing is undone.
FltStartFiltering ==
    /\ load = "port"
    /\ load' \in {"loaded", "failed"}
    /\ UNCHANGED <<registered, portVars, clientVars, creating, inbox, opens>>

FilterUnload ==
    /\ load = "loaded"
    /\ load' = "closing"
    /\ registered' = registered \ {"port"}
    /\ UNCHANGED <<portVars, clientVars, creating, inbox, opens>>

\* The filter manager ends the connection, which is a disconnection for the driver
\* too, and waits for the callbacks; it drops what the driver did not close.
FltUnregisterFilter ==
    /\ load = "closing"
    /\ \/ /\ connection # NoPort /\ disconnect[connection] = "idle"
          /\ disconnect' = [disconnect EXCEPT ![connection] = "called"]
          /\ SendersReturn
          /\ UNCHANGED <<loadVars, connection>>
       \/ /\ connection # NoPort /\ disconnect[connection] = "done"
          /\ connection' = NoPort
          /\ UNCHANGED <<loadVars, disconnect, creating, inbox>>
       \/ /\ connection = NoPort
          /\ \A t \in Threads : creating[t] = "out"
          /\ \A p \in Ports : disconnect[p] \in {"idle", "done"}
          /\ load' = "unloaded"
          /\ registered' = registered \ {"filter"}
          /\ UNCHANGED <<connection, disconnect, creating, inbox>>
    /\ UNCHANGED <<gClientPort, portsUsed, clientVars, opens>>
-----------------------------------------------------------------------------
(***************************************************************************)
(* The port                                                                *)
(***************************************************************************)
\* MaxConnections is 1.  The client's TpInit and its five items are behind it.
ConnectNotifyCallback(p) ==
    /\ load \in {"port", "loaded"} /\ ~client
    /\ connection = NoPort
    /\ p \notin portsUsed
    /\ gClientPort' = p /\ connection' = p
    /\ portsUsed' = portsUsed \cup {p}
    /\ client' = TRUE /\ echo' = 0
    /\ \E rs \in SUBSET Receivers \ {{}} :
         receiver' = [t \in Receivers |-> IF t \in rs THEN "get" ELSE "off"]
    /\ UNCHANGED <<loadVars, disconnect, creating, inbox, opens>>

\* The client ends, threads and handles with it; sends of its own are given up.
ClientEnds ==
    /\ client /\ load # "failed"
    /\ client' = FALSE /\ echo' = 0
    /\ receiver' = [t \in Receivers |-> "off"]
    /\ inbox' = <<>>
    /\ creating' = [t \in Threads |-> IF t \in Receivers \/ creating[t] = "sending"
                                      THEN "out" ELSE creating[t]]
    /\ disconnect' = [p \in Ports |-> IF p = connection /\ disconnect[p] = "idle"
                                       THEN "called" ELSE disconnect[p]]
    /\ UNCHANGED <<loadVars, gClientPort, connection, portsUsed, opens>>

\* FltCloseClientPort clears the variable and lets the next connection in; when
\* the variable is NULL already, it is not called.
FltCloseClientPort(p) ==
    /\ disconnect[p] = "called"
    /\ IF gClientPort # NoPort
       THEN /\ gClientPort' = NoPort /\ connection' = NoPort
            /\ disconnect' = [disconnect EXCEPT ![p] = "closed"]
       ELSE /\ disconnect' = [disconnect EXCEPT ![p] = "done"]
            /\ UNCHANGED <<gClientPort, connection>>
    /\ UNCHANGED <<loadVars, portsUsed, clientVars, creating, inbox, opens>>

DisconnectNotifyCallback(p) ==
    /\ disconnect[p] = "closed"
    /\ gClientPort' = NoPort
    /\ disconnect' = [disconnect EXCEPT ![p] = "done"]
    /\ UNCHANGED <<loadVars, connection, portsUsed, clientVars, creating, inbox, opens>>

\* strcmp of L"process" stops at the zero byte of its first letter.
HandleUserMessage(text) ==
    registered' = IF text \in {"process", "pause"} THEN registered \cup {"process"} ELSE registered

MessageNotifyCallback ==
    /\ Reading /\ Filtering
    /\ \E text \in Texts : HandleUserMessage(text)
    /\ UNCHANGED <<load, portVars, clientVars, creating, inbox, opens>>
-----------------------------------------------------------------------------
(***************************************************************************)
(* PreCreate                                                               *)
(***************************************************************************)
\* A message for another's open is one more in the client; the message for a log
\* takes the place of the one that is being logged.
Seen(t) == echo' = IF t \in Openers THEN echo + 1 ELSE echo
Unseen(t) == echo' = IF t \in Receivers THEN echo - 1 ELSE echo

\* What the opener does next: a receiver has its handle of the log.
Opened(t) ==
    receiver' = IF t \in Receivers THEN [receiver EXCEPT ![t] = "open"] ELSE receiver

Begins(t) ==
    /\ load # "failed"
    /\ creating[t] = "out"
    /\ t \in Receivers => receiver[t] = "locked"

\* There is a client, and the name could be found.
PreCreate(t) ==
    /\ Begins(t)
    /\ Filtering /\ gClientPort # NoPort
    /\ creating' = [creating EXCEPT ![t] = "named"]
    /\ IF t \in Openers THEN opens < Opens /\ opens' = opens + 1 ELSE UNCHANGED opens
    /\ UNCHANGED <<loadVars, portVars, clientVars, inbox>>

\* Else the file is just opened, as it is when the driver is not there.
PreCreateSendsNothing(t) ==
    /\ Begins(t)
    /\ Opened(t) /\ Unseen(t)
    /\ UNCHANGED <<loadVars, portVars, client, creating, inbox, opens>>

\* gClientPort is read again, and the thread waits until the message is received.
FltSendMessage(t) ==
    /\ creating[t] = "named"
    /\ \/ /\ gClientPort # NoPort /\ Reading
          /\ creating' = [creating EXCEPT ![t] = "sending"]
          /\ inbox' = Append(inbox, t)
          /\ Opened(t) /\ Seen(t)
       \/ /\ gClientPort = NoPort \/ ~Reading
          /\ creating' = [creating EXCEPT ![t] = "out"]
          /\ Opened(t) /\ Unseen(t) /\ UNCHANGED inbox
    /\ UNCHANGED <<loadVars, portVars, client, opens>>
-----------------------------------------------------------------------------
(***************************************************************************)
(* GetWorker                                                               *)
(***************************************************************************)
FilterGetMessage(t) ==
    /\ receiver[t] = "get"
    /\ Reading /\ inbox # <<>>
    /\ creating' = [creating EXCEPT ![Head(inbox)] = "out"]
    /\ inbox' = Tail(inbox)
    /\ receiver' = [receiver EXCEPT ![t] = "received"]
    /\ UNCHANGED <<loadVars, portVars, client, echo, opens>>

\* The connection is lost: GetWorker returns.
GetMessageFails(t) ==
    /\ receiver[t] = "get"
    /\ ~Reading
    /\ receiver' = [receiver EXCEPT ![t] = "off"]
    /\ UNCHANGED <<loadVars, portVars, client, echo, creating, inbox, opens>>

LockLog(t) ==
    /\ receiver[t] = "received"
    /\ LogHolders = {}
    /\ receiver' = [receiver EXCEPT ![t] = "locked"]
    /\ UNCHANGED <<loadVars, portVars, client, echo, creating, inbox, opens>>

\* CreateFileA is back: WriteFile, CloseHandle, ReleaseSRWLockExclusive.
WriteAndUnlock(t) ==
    /\ receiver[t] = "open"
    /\ creating[t] = "out"
    /\ receiver' = [receiver EXCEPT ![t] = "get"]
    /\ UNCHANGED <<loadVars, portVars, client, echo, creating, inbox, opens>>
-----------------------------------------------------------------------------
DriverEntry == FltRegisterFilter \/ CreateCommunicationPort \/ FltStartFiltering

Create(t) == PreCreate(t) \/ PreCreateSendsNothing(t) \/ FltSendMessage(t)

GetWorker(t) ==
    \/ FilterGetMessage(t) \/ GetMessageFails(t)
    \/ LockLog(t) \/ Create(t) \/ WriteAndUnlock(t)

Next ==
    \/ DriverEntry \/ FilterUnload \/ FltUnregisterFilter
    \/ \E p \in Ports :
         ConnectNotifyCallback(p) \/ FltCloseClientPort(p) \/ DisconnectNotifyCallback(p)
    \/ ClientEnds \/ MessageNotifyCallback
    \/ \E t \in Receivers : GetWorker(t)
    \/ \E t \in Openers : Create(t)

Spec == Init /\ [][Next]_vars

\* The client's threads are scheduled.
FairSpec == Spec /\ \A t \in Receivers : WF_vars(GetWorker(t))
-----------------------------------------------------------------------------
(***************************************************************************)
(* Properties                                                              *)
(***************************************************************************)
\* The types; one receiver at most is between the two calls of fLock, and inbox
\* has each thread that waits in FltSendMessage, once.
InboxOK ==
    /\ inbox \in Seq(Threads)
    /\ \A k \in DOMAIN inbox : creating[inbox[k]] = "sending"
    /\ \A t \in Threads : creating[t] = "sending" => \E k \in DOMAIN inbox : inbox[k] = t
    /\ \A j, k \in DOMAIN inbox : inbox[j] = inbox[k] => j = k

LockOK == \A t, u \in LogHolders : t = u

TypeOK ==
    /\ load \in {"entry", "filter", "port", "loaded", "closing", "failed", "unloaded"}
    /\ registered \subseteq {"filter", "port", "process"}
    /\ gClientPort \in Ports \cup {NoPort} /\ connection \in Ports \cup {NoPort}
    /\ portsUsed \subseteq Ports
    /\ disconnect \in [Ports -> {"idle", "called", "closed", "done"}]
    /\ client \in BOOLEAN /\ echo \in Int
    /\ receiver \in [Receivers -> {"off", "get", "received", "locked", "open"}]
    /\ creating \in [Threads -> {"out", "named", "sending"}]
    /\ opens \in 0..Opens
    /\ InboxOK /\ LockOK

\* Nobody is left in FilterGetMessage: the receiver that has fLock waits in its own
\* PreCreate for one, the others have a message and wait for fLock.
Stuck ==
    /\ Reading
    /\ \E t \in LogHolders : creating[t] = "sending"
    /\ \A t \in Receivers : receiver[t] # "get"

\* A client whose receivers block each other never recovers, whatever is opened
\* or typed; its end, or the driver's, which end the connection, are the only way out.
StuckStays == [][Stuck => Stuck' \/ ~Reading']_vars

\* The driver is connected and does not know: a connection between the two halves
\* of a disconnect (main.c:99).
Muted == connection # NoPort /\ gClientPort = NoPort

\* It stays so: that client hears nothing, its own disconnect finds gClientPort
\* NULL and does not close the connection, and no other client is let in.
MutedStays == [][Muted => Muted' \/ load' \in {"closing", "unloaded"}]_vars

\* The log feeds itself: as a GetWorker opens it the message it has is replaced by
\* one more, so what was sent for the opens of others stays with the client for as
\* long as it runs, and after as many of them as it has receivers it can be Stuck.
EchoConserved ==
    Reading =>
        echo = Len(inbox) + Cardinality({t \in Receivers :
                   \/ receiver[t] = "received"
                   \/ receiver[t] = "locked"})

\* A process that opens a file gets it: the messages of the client's own opens do
\* not hold up another's for ever.  Only a client that blocks itself does.
OpenReturns ==
    \A t \in Openers : creating[t] = "sending" ~> (creating[t] = "out" \/ Stuck)

\* PreCreate never sends to a port that is closed, though it reads gClientPort twice
\* and no lock keeps connections and disconnections apart: the variable is the one
\* connection or NULL.  (NULL beside a connection is Muted.)
PortAgrees == gClientPort \in {NoPort, connection}
=============================================================================
