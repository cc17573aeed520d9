------------------------- MODULE WikddFilterProofs -------------------------
(***************************************************************************)
(* What TLAPS proves of WikddFilter, for any number of receivers, openers,  *)
(* connections and opens.                                                   *)
(***************************************************************************)
EXTENDS WikddFilter, FiniteSetTheorems, TLAPS

USE ThreadsAssumption, NoPortAssumption, OpensAssumption DEF Threads

StateOK ==
    /\ load \in {"entry", "filter", "port", "loaded", "closing", "failed", "unloaded"}
    /\ registered \subseteq {"filter", "port", "process"}
    /\ gClientPort \in Ports \cup {NoPort} /\ connection \in Ports \cup {NoPort}
    /\ portsUsed \subseteq Ports
    /\ disconnect \in [Ports -> {"idle", "called", "closed", "done"}]
    /\ opens \in 0..Opens

ClientOK ==
    /\ echo \in Int
    /\ receiver \in [Receivers -> {"off", "get", "received", "locked", "open"}]
    /\ creating \in [Threads -> {"out", "named", "sending"}]

RunsOK == client \in BOOLEAN

\* A receiver is in PreCreate only for the log, with fLock, and has a client.
PlaceOK ==
    \A t \in Receivers : /\ creating[t] = "named" => receiver[t] = "locked"
                         /\ creating[t] = "sending" => receiver[t] = "open"
                         /\ ~client => receiver[t] = "off"

\* Nobody waits for a client that is not there.
QuietOK == ~Reading => inbox = <<>>

\* A disconnection that has begun holds its connection until FltCloseClientPort lets
\* the next one in; one that left its connection open found gClientPort NULL.
CalledOK ==
    /\ PortAgrees
    /\ connection \in portsUsed \cup {NoPort}
    /\ \A p \in Ports :
         /\ disconnect[p] = "called" => connection = p
         /\ disconnect[p] = "done" /\ connection = p => gClientPort = NoPort
         /\ disconnect[p] # "idle" => p \in portsUsed

IInv ==
    /\ StateOK /\ ClientOK /\ InboxOK /\ LockOK /\ PlaceOK
    /\ QuietOK /\ CalledOK
-----------------------------------------------------------------------------
LEMMA InitIInv == Init => IInv
<1> SUFFICES ASSUME Init PROVE IInv
  OBVIOUS
<1>1. StateOK /\ ClientOK /\ PlaceOK
  BY DEF Init, StateOK, ClientOK, PlaceOK
<1>2. InboxOK /\ LockOK /\ QuietOK /\ CalledOK
  BY DEF Init, InboxOK, LockOK, LogHolders, QuietOK, CalledOK, PortAgrees
<1> QED
  BY <1>1, <1>2 DEF IInv

LEMMA LoadStep ==
    ASSUME StateOK, [Next]_vars
    PROVE  /\ load' \in {"entry", "filter", "port", "loaded", "closing", "failed", "unloaded"}
           /\ registered' \subseteq {"filter", "port", "process"}
<1> USE DEF StateOK
<1>1. CASE DriverEntry
  BY <1>1 DEF DriverEntry, FltRegisterFilter, CreateCommunicationPort, FltStartFiltering
<1>2. CASE FilterUnload \/ FltUnregisterFilter
  BY <1>2 DEF FilterUnload, FltUnregisterFilter, loadVars
<1>3. CASE MessageNotifyCallback
  BY <1>3 DEF MessageNotifyCallback, HandleUserMessage
<1>4. UNCHANGED loadVars \/ DriverEntry \/ FilterUnload \/ FltUnregisterFilter
      \/ MessageNotifyCallback
  BY DEF Next, ConnectNotifyCallback, FltCloseClientPort, DisconnectNotifyCallback,
         ClientEnds, GetWorker, FilterGetMessage, GetMessageFails, LockLog, Create,
         PreCreate, PreCreateSendsNothing, FltSendMessage, WriteAndUnlock, vars
<1> QED
  BY <1>1, <1>2, <1>3, <1>4 DEF loadVars

LEMMA PortStep ==
    ASSUME StateOK, [Next]_vars
    PROVE  /\ gClientPort' \in Ports \cup {NoPort} /\ connection' \in Ports \cup {NoPort}
           /\ portsUsed' \subseteq Ports
           /\ disconnect' \in [Ports -> {"idle", "called", "closed", "done"}]
<1> USE DEF StateOK
<1>1. ASSUME NEW p \in Ports,
             ConnectNotifyCallback(p) \/ FltCloseClientPort(p) \/ DisconnectNotifyCallback(p)
      PROVE  /\ gClientPort' \in Ports \cup {NoPort} /\ connection' \in Ports \cup {NoPort}
             /\ portsUsed' \subseteq Ports
             /\ disconnect' \in [Ports -> {"idle", "called", "closed", "done"}]
  BY <1>1 DEF ConnectNotifyCallback, FltCloseClientPort, DisconnectNotifyCallback
<1>2. CASE ClientEnds
  BY <1>2 DEF ClientEnds
<1>3. CASE FltUnregisterFilter
  BY <1>3 DEF FltUnregisterFilter
<1>4. CASE UNCHANGED portVars
  BY <1>4 DEF portVars
<1> QED
  BY <1>1, <1>2, <1>3, <1>4
  DEF Next, DriverEntry, FltRegisterFilter, CreateCommunicationPort, FltStartFiltering,
      FilterUnload, MessageNotifyCallback, GetWorker, FilterGetMessage, GetMessageFails,
      LockLog, Create, PreCreate, PreCreateSendsNothing, FltSendMessage, WriteAndUnlock, vars

LEMMA StateStep == StateOK /\ [Next]_vars => StateOK'
<1> SUFFICES ASSUME StateOK, [Next]_vars PROVE StateOK'
  OBVIOUS
<1>1. opens' \in 0..Opens
  BY DEF StateOK, Next, DriverEntry, FltRegisterFilter, CreateCommunicationPort,
         FltStartFiltering, FilterUnload, FltUnregisterFilter, ConnectNotifyCallback,
         FltCloseClientPort, DisconnectNotifyCallback, ClientEnds, MessageNotifyCallback,
         HandleUserMessage, GetWorker, FilterGetMessage, GetMessageFails, LockLog, Create,
         PreCreate, PreCreateSendsNothing, FltSendMessage, WriteAndUnlock,
         vars, loadVars, portVars, clientVars
<1> QED
  BY <1>1, LoadStep, PortStep DEF StateOK

LEMMA CalledStep == StateOK /\ CalledOK /\ [Next]_vars => CalledOK'
<1> SUFFICES ASSUME StateOK, CalledOK, [Next]_vars PROVE CalledOK'
  OBVIOUS
<1> USE DEF StateOK, CalledOK, PortAgrees
<1>1. ASSUME NEW p \in Ports,
             ConnectNotifyCallback(p) \/ FltCloseClientPort(p) \/ DisconnectNotifyCallback(p)
      PROVE  CalledOK'
  BY <1>1 DEF ConnectNotifyCallback, FltCloseClientPort, DisconnectNotifyCallback
<1>2. CASE ClientEnds
  BY <1>2 DEF ClientEnds
<1>3. CASE FltUnregisterFilter
  BY <1>3 DEF FltUnregisterFilter
<1>4. CASE UNCHANGED portVars
  BY <1>4 DEF portVars
<1> QED
  BY <1>1, <1>2, <1>3, <1>4
  DEF Next, DriverEntry, FltRegisterFilter, CreateCommunicationPort, FltStartFiltering,
      FilterUnload, MessageNotifyCallback, GetWorker, FilterGetMessage, GetMessageFails,
      LockLog, Create, PreCreate, PreCreateSendsNothing, FltSendMessage, WriteAndUnlock, vars

-----------------------------------------------------------------------------
(***************************************************************************)
(* The queue of those who wait                                              *)
(***************************************************************************)
\* The oldest message is received, and its sender returns.
LEMMA Received ==
    ASSUME InboxOK, inbox # <<>>, creating \in [Threads -> {"out", "named", "sending"}],
           creating' = [creating EXCEPT ![Head(inbox)] = "out"], inbox' = Tail(inbox)
    PROVE  InboxOK' /\ Len(inbox') = Len(inbox) - 1
<1> USE DEF InboxOK
<1>1. /\ inbox' \in Seq(Threads) /\ Len(inbox') = Len(inbox) - 1
      /\ \A k \in DOMAIN inbox' : k + 1 \in DOMAIN inbox /\ inbox'[k] = inbox[k + 1]
      /\ \A k \in DOMAIN inbox : k = 1 \/ (k - 1 \in DOMAIN inbox' /\ inbox'[k - 1] = inbox[k])
      /\ 1 \in DOMAIN inbox /\ Head(inbox) = inbox[1] /\ Head(inbox) \in Threads
      /\ DOMAIN inbox = 1..Len(inbox) /\ DOMAIN inbox' = 1..Len(inbox')
      /\ Len(inbox) \in Nat
  OBVIOUS
<1>2. \A k \in DOMAIN inbox' : inbox'[k] # Head(inbox)
  BY <1>1
<1>3. \A k \in DOMAIN inbox' : creating'[inbox'[k]] = "sending"
  BY <1>1, <1>2
<1>4. \A t \in Threads : creating'[t] = "sending" => \E k \in DOMAIN inbox' : inbox'[k] = t
  <2> SUFFICES ASSUME NEW t \in Threads, creating'[t] = "sending"
               PROVE  \E k \in DOMAIN inbox' : inbox'[k] = t
    OBVIOUS
  <2>1. t # Head(inbox) /\ creating[t] = "sending"
    BY <1>1
  <2>2. PICK k \in DOMAIN inbox : inbox[k] = t
    BY <2>1
  <2>3. k # 1
    BY <1>1, <2>1, <2>2
  <2> QED
    BY <1>1, <2>2, <2>3
<1>5. \A j, k \in DOMAIN inbox' : inbox'[j] = inbox'[k] => j = k
  BY <1>1
<1> QED
  BY <1>1, <1>3, <1>4, <1>5

\* A thread that was not waiting joins the queue.
LEMMA Joins ==
    ASSUME InboxOK, creating \in [Threads -> {"out", "named", "sending"}], NEW t \in Threads,
           creating[t] = "named",
           creating' = [creating EXCEPT ![t] = "sending"], inbox' = Append(inbox, t)
    PROVE  InboxOK' /\ Len(inbox') = Len(inbox) + 1
<1> USE DEF InboxOK
<1>1. /\ inbox' \in Seq(Threads) /\ Len(inbox') = Len(inbox) + 1
      /\ \A k \in DOMAIN inbox : k \in DOMAIN inbox' /\ inbox'[k] = inbox[k]
      /\ \A k \in DOMAIN inbox' : k = Len(inbox') \/ k \in DOMAIN inbox
      /\ Len(inbox') \in DOMAIN inbox' /\ inbox'[Len(inbox')] = t
  OBVIOUS
<1>2. \A k \in DOMAIN inbox : inbox[k] # t
  OBVIOUS
<1>3. \A k \in DOMAIN inbox' : creating'[inbox'[k]] = "sending"
  BY <1>1
<1>4. \A u \in Threads : creating'[u] = "sending" => \E k \in DOMAIN inbox' : inbox'[k] = u
  BY <1>1
<1>5. \A j, k \in DOMAIN inbox' : inbox'[j] = inbox'[k] => j = k
  BY <1>1, <1>2
<1> QED
  BY <1>1, <1>3, <1>4, <1>5

LEMMA Emptied ==
    ASSUME inbox' = <<>>, \A t \in Threads : creating'[t] # "sending"
    PROVE  InboxOK'
  BY DEF InboxOK

LEMMA InboxStep ==
    ASSUME IInv, [Next]_vars
    PROVE  InboxOK'
<1> USE DEF IInv, ClientOK
<1>1. ASSUME NEW t \in Receivers, FilterGetMessage(t)
      PROVE  InboxOK'
  BY <1>1, Received DEF FilterGetMessage
<1>2. ASSUME NEW t \in Threads, FltSendMessage(t)
      PROVE  InboxOK'
  <2>1. CASE creating' = [creating EXCEPT ![t] = "sending"] /\ inbox' = Append(inbox, t)
    BY <1>2, <2>1, Joins DEF FltSendMessage
  <2>2. CASE creating' = [creating EXCEPT ![t] = "out"] /\ UNCHANGED inbox
    BY <1>2, <2>2 DEF FltSendMessage, InboxOK
  <2> QED
    BY <1>2, <2>1, <2>2 DEF FltSendMessage
<1>3. ASSUME NEW t \in Threads, PreCreate(t)
      PROVE  InboxOK'
  BY <1>3 DEF PreCreate, Begins, InboxOK
<1>4. CASE ClientEnds
  BY <1>4, Emptied DEF ClientEnds
<1>5. CASE FltUnregisterFilter
  <2>1. CASE SendersReturn
    BY <2>1, Emptied DEF SendersReturn
  <2>2. CASE UNCHANGED <<creating, inbox>>
    BY <2>2 DEF InboxOK
  <2> QED
    BY <1>5, <2>1, <2>2 DEF FltUnregisterFilter
<1>6. CASE UNCHANGED <<creating, inbox>>
  BY <1>6 DEF InboxOK
<1> QED
  BY <1>1, <1>2, <1>3, <1>4, <1>5, <1>6
  DEF Next, DriverEntry, FltRegisterFilter, CreateCommunicationPort, FltStartFiltering,
      FilterUnload, ConnectNotifyCallback, FltCloseClientPort, DisconnectNotifyCallback,
      MessageNotifyCallback, GetWorker, GetMessageFails, LockLog, Create,
      PreCreateSendsNothing, WriteAndUnlock, vars
-----------------------------------------------------------------------------
(***************************************************************************)
(* The client's threads                                                     *)
(***************************************************************************)
LEMMA ClientStep ==
    ASSUME IInv, [Next]_vars
    PROVE  ClientOK'
<1> USE DEF IInv, ClientOK
<1>1. echo' \in Int
  BY DEF Next, DriverEntry, FltRegisterFilter, CreateCommunicationPort,
         FltStartFiltering, FilterUnload, FltUnregisterFilter, ConnectNotifyCallback,
         FltCloseClientPort, DisconnectNotifyCallback, ClientEnds, MessageNotifyCallback,
         GetWorker, FilterGetMessage, GetMessageFails, LockLog, Create,
         PreCreate, PreCreateSendsNothing, FltSendMessage, WriteAndUnlock, Seen, Unseen,
         vars, clientVars
<1>2. receiver' \in [Receivers -> {"off", "get", "received", "locked", "open"}]
  BY DEF Next, DriverEntry, FltRegisterFilter, CreateCommunicationPort,
         FltStartFiltering, FilterUnload, FltUnregisterFilter, ConnectNotifyCallback,
         FltCloseClientPort, DisconnectNotifyCallback, ClientEnds, MessageNotifyCallback,
         GetWorker, FilterGetMessage, GetMessageFails, LockLog, Create,
         PreCreate, PreCreateSendsNothing, FltSendMessage, WriteAndUnlock, Opened,
         vars, clientVars
<1>3. creating' \in [Threads -> {"out", "named", "sending"}]
  BY DEF Next, DriverEntry, FltRegisterFilter, CreateCommunicationPort,
         FltStartFiltering, FilterUnload, FltUnregisterFilter, ConnectNotifyCallback,
         FltCloseClientPort, DisconnectNotifyCallback, ClientEnds, MessageNotifyCallback,
         GetWorker, FilterGetMessage, GetMessageFails, LockLog, Create,
         PreCreate, PreCreateSendsNothing, FltSendMessage, WriteAndUnlock, SendersReturn,
         vars, clientVars
<1> QED
  BY <1>1, <1>2, <1>3

LEMMA QuietStep ==
    ASSUME IInv, [Next]_vars
    PROVE  QuietOK'
<1> USE DEF IInv, QuietOK, Reading
<1>1. ASSUME NEW p \in Ports, FltCloseClientPort(p) \/ DisconnectNotifyCallback(p)
      PROVE  QuietOK'
  BY <1>1 DEF FltCloseClientPort, DisconnectNotifyCallback, StateOK, CalledOK, clientVars
<1>2. CASE FltUnregisterFilter
  BY <1>2 DEF FltUnregisterFilter, SendersReturn, StateOK, clientVars
<1>3. ASSUME NEW t \in Receivers, FilterGetMessage(t)
      PROVE  QuietOK'
  BY <1>3 DEF FilterGetMessage, portVars
<1>4. ASSUME NEW t \in Threads, FltSendMessage(t)
      PROVE  QuietOK'
  BY <1>4 DEF FltSendMessage, portVars
<1>5. CASE ClientEnds
  BY <1>5 DEF ClientEnds
<1>6. ASSUME NEW p \in Ports, ConnectNotifyCallback(p)
      PROVE  QuietOK'
  BY <1>6 DEF ConnectNotifyCallback
<1>7. CASE UNCHANGED <<client, connection, disconnect, inbox>>
  BY <1>7
<1> QED
  BY <1>1, <1>2, <1>3, <1>4, <1>5, <1>6, <1>7
  DEF Next, DriverEntry, FltRegisterFilter, CreateCommunicationPort, FltStartFiltering,
      FilterUnload, MessageNotifyCallback, GetWorker,
      GetMessageFails, LockLog, Create, PreCreate, PreCreateSendsNothing, WriteAndUnlock,
      vars, clientVars, portVars

LEMMA PlaceStep ==
    ASSUME IInv, [Next]_vars
    PROVE  PlaceOK' /\ LockOK'
<1> USE DEF IInv, ClientOK, PlaceOK, LockOK, LogHolders
<1>1. ASSUME NEW t \in Receivers, FilterGetMessage(t)
      PROVE  PlaceOK' /\ LockOK'
  BY <1>1 DEF FilterGetMessage, InboxOK
<1>2. ASSUME NEW t \in Threads, FltSendMessage(t)
      PROVE  PlaceOK' /\ LockOK'
  BY <1>2 DEF FltSendMessage, Opened
<1>3. ASSUME NEW t \in Threads, PreCreate(t)
      PROVE  PlaceOK' /\ LockOK'
  BY <1>3 DEF PreCreate, Begins, clientVars
<1>4. ASSUME NEW t \in Threads, PreCreateSendsNothing(t)
      PROVE  PlaceOK' /\ LockOK'
  BY <1>4 DEF PreCreateSendsNothing, Begins, Opened
<1>5. ASSUME NEW t \in Receivers, GetMessageFails(t) \/ LockLog(t) \/ WriteAndUnlock(t)
      PROVE  PlaceOK' /\ LockOK'
  BY <1>5 DEF GetMessageFails, LockLog, WriteAndUnlock
<1>6. ASSUME NEW p \in Ports, ConnectNotifyCallback(p)
      PROVE  PlaceOK' /\ LockOK'
  BY <1>6 DEF ConnectNotifyCallback
<1>7. CASE ClientEnds
  BY <1>7 DEF ClientEnds
<1>8. CASE FltUnregisterFilter
  BY <1>8 DEF FltUnregisterFilter, SendersReturn, clientVars
<1>9. CASE UNCHANGED <<client, receiver, creating>>
  BY <1>9
<1> QED
  BY <1>1, <1>2, <1>3, <1>4, <1>5, <1>6, <1>7, <1>8, <1>9
  DEF Next, DriverEntry, FltRegisterFilter, CreateCommunicationPort, FltStartFiltering,
      FilterUnload, FltCloseClientPort, DisconnectNotifyCallback, MessageNotifyCallback,
      GetWorker, Create, vars, clientVars

-----------------------------------------------------------------------------
(***************************************************************************)
(* The theorems                                                            *)
(***************************************************************************)
\* The invariant holds in every reachable state.
THEOREM IInvCorrect == Spec => []IInv
<1>1. IInv /\ [Next]_vars => IInv'
  BY StateStep, CalledStep, InboxStep, ClientStep, QuietStep, PlaceStep DEF IInv
<1> QED
  BY InitIInv, <1>1, PTL DEF Spec

\* The types; one receiver at most has fLock, whoever waits in FltSendMessage is in
\* the queue once.
THEOREM TypeCorrect == Spec => []TypeOK
<1>1. Init => RunsOK
  BY Zenon DEF Init, RunsOK
<1>2. RunsOK /\ [Next]_vars => RunsOK'
  <2>1. [Next]_vars => UNCHANGED client \/ client' = TRUE \/ client' = FALSE
    BY DEF Next, DriverEntry, FltRegisterFilter, CreateCommunicationPort,
           FltStartFiltering, FilterUnload, FltUnregisterFilter, ConnectNotifyCallback,
           FltCloseClientPort, DisconnectNotifyCallback, ClientEnds, MessageNotifyCallback,
           GetWorker, FilterGetMessage, GetMessageFails, LockLog, Create,
           PreCreate, PreCreateSendsNothing, FltSendMessage, WriteAndUnlock,
           vars, clientVars
  <2> QED
    BY <2>1, Zenon DEF RunsOK
<1>3. IInv /\ RunsOK => TypeOK
  BY DEF RunsOK, IInv, StateOK, ClientOK, TypeOK
<1> QED
  BY IInvCorrect, <1>1, <1>2, <1>3, PTL DEF Spec

\* Receivers that block each other stay so until the client or the driver ends
\* (main.c:224 waits without a time-out, ConsoleApplication1.cpp:942 holds fLock).
THEOREM StuckStaysCorrect == Spec => StuckStays
<1>1. IInv /\ [Next]_vars => [Stuck => Stuck' \/ ~Reading']_vars
  <2> SUFFICES ASSUME IInv, Next, Stuck, Reading'
               PROVE  Stuck'
    BY DEF vars
  <2> USE DEF IInv, ClientOK, LockOK, LogHolders, Stuck, Reading
  <2>1. ASSUME NEW u \in Threads, FltSendMessage(u)
        PROVE  Stuck'
    BY <2>1 DEF FltSendMessage, Opened, PlaceOK, portVars
  <2>2. ASSUME NEW u \in Threads, PreCreate(u) \/ PreCreateSendsNothing(u)
        PROVE  Stuck'
    BY <2>2 DEF PreCreate, PreCreateSendsNothing, Begins, Opened, portVars, clientVars
  <2>3. ASSUME NEW u \in Receivers,
               FilterGetMessage(u) \/ GetMessageFails(u) \/ LockLog(u) \/ WriteAndUnlock(u)
        PROVE  FALSE
    BY <2>3 DEF FilterGetMessage, GetMessageFails, LockLog, WriteAndUnlock
  <2>4. CASE FltUnregisterFilter
    BY <2>4 DEF FltUnregisterFilter, StateOK, clientVars
  <2>5. ASSUME NEW p \in Ports,
               ConnectNotifyCallback(p) \/ FltCloseClientPort(p) \/ DisconnectNotifyCallback(p)
        PROVE  Stuck'
    BY <2>5 DEF ConnectNotifyCallback, FltCloseClientPort, DisconnectNotifyCallback, clientVars
  <2>6. CASE DriverEntry \/ FilterUnload \/ MessageNotifyCallback
    BY <2>6 DEF DriverEntry, FltRegisterFilter, CreateCommunicationPort, FltStartFiltering,
                FilterUnload, MessageNotifyCallback, portVars, clientVars
  <2>7. CASE ClientEnds
    BY <2>7 DEF ClientEnds
  <2> QED
    BY <2>1, <2>2, <2>3, <2>4, <2>5, <2>6, <2>7 DEF Next, GetWorker, Create
<1> QED
  BY IInvCorrect, <1>1, PTL DEF Spec, StuckStays

\* gClientPort is the open connection or NULL: FltCloseClientPort clears it with the
\* connection, so what DisconnectNotifyCallback assigns late (main.c:100) loses the next
\* client's port and never keeps the last one's.
THEOREM PortAgreesCorrect == Spec => []PortAgrees
<1>1. IInv => PortAgrees
  BY DEF IInv, CalledOK
<1> QED
  BY IInvCorrect, <1>1, PTL

-----------------------------------------------------------------------------
\* The receivers that have a message and have not opened the log for it.
Logging == {t \in Receivers : receiver[t] = "received" \/ receiver[t] = "locked"}

LEMMA LoggingFinite == IsFiniteSet(Logging) /\ Cardinality(Logging) \in Nat
  BY FS_Subset, FS_CardinalityType DEF Logging

LEMMA LoggingGains ==
    ASSUME ClientOK, NEW t \in Receivers, receiver[t] = "get",
           receiver' = [receiver EXCEPT ![t] = "received"]
    PROVE  Cardinality(Logging') = Cardinality(Logging) + 1
<1>1. Logging' = Logging \cup {t} /\ t \notin Logging
  BY DEF Logging, ClientOK
<1> QED
  BY <1>1, LoggingFinite, FS_AddElement

LEMMA LoggingLoses ==
    ASSUME ClientOK, NEW t \in Receivers, receiver[t] = "locked",
           receiver' = [receiver EXCEPT ![t] = "open"]
    PROVE  Cardinality(Logging') = Cardinality(Logging) - 1
<1>1. Logging' = Logging \ {t} /\ t \in Logging
  BY DEF Logging, ClientOK
<1> QED
  BY <1>1, LoggingFinite, FS_RemoveElement

\* While the client reads, a message logged is a message sent: the log's own open
\* (ConsoleApplication1.cpp:944) puts one in the place of each.
THEOREM EchoConservedCorrect == Spec => []EchoConserved
<1> DEFINE Balance == Reading => echo = Len(inbox) + Cardinality(Logging)
<1>1. Balance <=> EchoConserved
  BY DEF EchoConserved, Logging
<1>2. Init => EchoConserved
  BY DEF Init, EchoConserved, Reading
<1>3. IInv /\ Balance /\ [Next]_vars => Balance'
  <2> SUFFICES ASSUME IInv, Balance, [Next]_vars, Reading'
               PROVE  echo' = Len(inbox') + Cardinality(Logging')
    OBVIOUS
  <2> USE DEF IInv, Reading
  <2>0. Len(inbox) \in Nat /\ Cardinality(Logging) \in Nat /\ echo \in Int
    BY LoggingFinite DEF InboxOK, ClientOK
  <2>1. ASSUME NEW t \in Receivers, FilterGetMessage(t)
        PROVE  echo' = Len(inbox') + Cardinality(Logging')
    <3>1. Cardinality(Logging') = Cardinality(Logging) + 1
      BY <2>1, LoggingGains DEF FilterGetMessage
    <3>2. Len(inbox') = Len(inbox) - 1 /\ UNCHANGED echo /\ Reading
      BY <2>1, Received DEF FilterGetMessage, ClientOK
    <3> QED
      BY <2>0, <3>1, <3>2
  <2>2. ASSUME NEW t \in Receivers, FltSendMessage(t)
        PROVE  echo' = Len(inbox') + Cardinality(Logging')
    <3>1. Cardinality(Logging') = Cardinality(Logging) - 1
      BY <2>2, LoggingLoses DEF FltSendMessage, Opened, PlaceOK
    <3>2. CASE inbox' = Append(inbox, t)
      <4>1. Len(inbox') = Len(inbox) + 1
        BY <3>2 DEF InboxOK
      <4>2. UNCHANGED echo /\ Reading
        BY <2>2, <3>2, <4>1 DEF FltSendMessage, Seen, portVars
      <4> QED
        BY <2>0, <3>1, <4>1, <4>2
    <3>3. CASE UNCHANGED inbox
      <4>1. inbox # Append(inbox, t)
        BY DEF InboxOK
      <4>2. echo' = echo - 1 /\ Reading
        BY <2>2, <3>3, <4>1 DEF FltSendMessage, Unseen, portVars
      <4> QED
        BY <2>0, <3>1, <3>3, <4>2
    <3> QED
      BY <2>2, <3>2, <3>3 DEF FltSendMessage
  <2>3. ASSUME NEW t \in Openers, FltSendMessage(t)
        PROVE  echo' = Len(inbox') + Cardinality(Logging')
    <3>1. UNCHANGED receiver /\ Reading
      BY <2>3 DEF FltSendMessage, Opened, portVars
    <3>2. Logging' = Logging
      BY <3>1 DEF Logging
    <3>3. Len(Append(inbox, t)) = Len(inbox) + 1 /\ Append(inbox, t) # inbox
      BY DEF InboxOK
    <3>4. \/ inbox' = Append(inbox, t) /\ echo' = echo + 1
          \/ UNCHANGED inbox /\ UNCHANGED echo
      BY <2>3 DEF FltSendMessage, Seen, Unseen
    <3> QED
      BY <2>0, <3>1, <3>2, <3>3, <3>4
  <2>4. ASSUME NEW t \in Receivers, PreCreateSendsNothing(t)
        PROVE  echo' = Len(inbox') + Cardinality(Logging')
    <3>1. Cardinality(Logging') = Cardinality(Logging) - 1
      BY <2>4, LoggingLoses DEF PreCreateSendsNothing, Begins, Opened
    <3>2. echo' = echo - 1 /\ UNCHANGED inbox /\ Reading
      BY <2>4 DEF PreCreateSendsNothing, Unseen, portVars
    <3> QED
      BY <2>0, <3>1, <3>2
  <2>5. ASSUME NEW t \in Receivers, LockLog(t) \/ WriteAndUnlock(t)
        PROVE  echo' = Len(inbox') + Cardinality(Logging')
    <3>1. Logging' = Logging
      BY <2>5 DEF LockLog, WriteAndUnlock, Logging, ClientOK
    <3>2. UNCHANGED <<echo, inbox>> /\ Reading
      BY <2>5 DEF LockLog, WriteAndUnlock, portVars
    <3> QED
      BY <3>1, <3>2
  <2>6. ASSUME NEW p \in Ports, ConnectNotifyCallback(p)
        PROVE  echo' = Len(inbox') + Cardinality(Logging')
    <3>1. Logging' = {} /\ echo' = 0 /\ inbox' = <<>>
      BY <2>6 DEF ConnectNotifyCallback, Logging, QuietOK
    <3> QED
      BY <3>1, FS_EmptySet
  <2>7. CASE Reading /\ UNCHANGED <<receiver, echo, inbox>>
    <3>1. Logging' = Logging
      BY <2>7 DEF Logging
    <3> QED
      BY <2>7, <3>1
  <2>8. ASSUME \A t \in Receivers : /\ ~FilterGetMessage(t) /\ ~FltSendMessage(t)
                                    /\ ~PreCreateSendsNothing(t)
                                    /\ ~LockLog(t) /\ ~WriteAndUnlock(t),
               \A t \in Openers : ~FltSendMessage(t),
               \A p \in Ports : ~ConnectNotifyCallback(p)
        PROVE  Reading /\ UNCHANGED <<receiver, echo, inbox>>
    <3>1. ASSUME NEW p \in Ports, FltCloseClientPort(p) \/ DisconnectNotifyCallback(p)
          PROVE  Reading /\ UNCHANGED <<receiver, echo, inbox>>
      BY <3>1 DEF FltCloseClientPort, DisconnectNotifyCallback, StateOK, clientVars
    <3>2. CASE FltUnregisterFilter
      BY <3>2 DEF FltUnregisterFilter, StateOK, clientVars
    <3>3. ASSUME NEW t \in Threads, PreCreate(t) \/ PreCreateSendsNothing(t), t \in Openers
          PROVE  Reading /\ UNCHANGED <<receiver, echo, inbox>>
      BY <3>3 DEF PreCreate, PreCreateSendsNothing, Opened, Unseen, portVars, clientVars
    <3>4. ASSUME NEW t \in Receivers, PreCreate(t) \/ GetMessageFails(t)
          PROVE  Reading /\ UNCHANGED <<receiver, echo, inbox>>
      BY <3>4 DEF PreCreate, GetMessageFails, portVars, clientVars
    <3>5. CASE ClientEnds
      BY <3>5 DEF ClientEnds
    <3>6. CASE UNCHANGED <<portVars, clientVars, inbox>>
      BY <3>6 DEF portVars, clientVars
    <3> QED
      BY <2>8, <3>1, <3>2, <3>3, <3>4, <3>5, <3>6
      DEF Next, DriverEntry, FltRegisterFilter, CreateCommunicationPort, FltStartFiltering,
          FilterUnload, MessageNotifyCallback, GetWorker, Create, vars
  <2> HIDE DEF Balance
  <2> QED
    BY <2>1, <2>2, <2>3, <2>4, <2>5, <2>6, <2>7, <2>8
<1>4. IInv /\ EchoConserved /\ [Next]_vars => EchoConserved'
  BY <1>1, <1>3 DEF EchoConserved, Logging
<1> QED
  BY IInvCorrect, <1>2, <1>4, PTL DEF Spec

\* MutedStays needs no invariant: what clears the state is not enabled in it.
\* (main.c:99: the second half of a disconnect wipes the next connection's port.)
THEOREM MutedStaysCorrect == Spec => MutedStays
<1>1. [Next]_vars => [Muted => Muted' \/ load' \in {"closing", "unloaded"}]_vars
  BY DEF Muted, Next, DriverEntry, FltRegisterFilter, CreateCommunicationPort,
         FltStartFiltering, FilterUnload, FltUnregisterFilter, ConnectNotifyCallback,
         FltCloseClientPort, DisconnectNotifyCallback, ClientEnds, MessageNotifyCallback,
         HandleUserMessage, GetWorker, FilterGetMessage, GetMessageFails, LockLog, Create,
         PreCreate, PreCreateSendsNothing, FltSendMessage, WriteAndUnlock,
         vars, loadVars, portVars, clientVars
<1> QED
  BY <1>1, PTL DEF Spec, MutedStays
=============================================================================
