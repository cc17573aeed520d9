------------------------ MODULE EventPipelineProofs ------------------------
(***************************************************************************)
(* What TLAPS proves of EventPipeline, for any number of events, ports and  *)
(* senders, any mix of event kinds and any text a client may send.          *)
(*                                                                         *)
(* The inductive invariant has four parts, each preserved with the help of  *)
(* the ones before it: types, the port, the way of a message through the    *)
(* pool, and what a callback holds.                                         *)
(***************************************************************************)
EXTENDS EventPipeline, FiniteSetTheorems, TLAPS

USE SourcesAssumption, NoPortAssumption, SendersAssumption, CommandsAssumption

(***************************************************************************)
(* The steps, with the six notify routines reduced to what they share and   *)
(* the last tests of the file operations to one.                            *)
(***************************************************************************)
NotifyEffect(e) ==
    /\ NotifyOnly
    /\ \E place \in {"report", "anyClient", "returned"} : GoTo(e, place)
    /\ \/ /\ \E s \in Kinds \ FileOps : Begins(e, s)
          /\ \/ UNCHANGED scratch
             \/ Acquire(e) /\ GoTo(e, "report")
       \/ at[e] = "anyClient" /\ UNCHANGED <<source, scratch>>

LastTestOf(e) ==
    /\ at[e] \in {"pending", "safe"}
    /\ source[e] \in FileOps
    /\ LastTest(e)

FileCases(e) ==
    \/ \E op \in FileOps : PreOperation(e, op) \/ PostOperation(e, op)
    \/ LastTestOf(e)

LEMMA KindsApart ==
    /\ FileOps \cap (ProcessEvents \cup ThreadEvents \cup {"image", "registry"}) = {}
    /\ DeferredOps \subseteq FileOps /\ "create" \in FileOps
    /\ Kinds = FileOps \cup ProcessEvents \cup ThreadEvents \cup {"image", "registry"}
  BY DEF FileOps, DeferredOps, ProcessEvents, ThreadEvents, Kinds

LEMMA FileOperationCases ==
    ASSUME NEW e \in Events, FileOperation(e)
    PROVE  FileCases(e)
<1>1. {"create", "close", "cleanup", "read", "write", "attributes"} = FileOps
  BY DEF FileOps, DeferredOps
<1>2. CASE \/ PreCreate(e) \/ PreClose(e) \/ PreCleanup(e) \/ PreRead(e)
           \/ PreWrite(e) \/ PreAttributes(e)
  BY <1>1, <1>2 DEF FileCases, PreCreate, PreClose, PreCleanup, PreRead, PreWrite,
                    PreAttributes
<1>3. CASE \/ PostClose(e) \/ PostCleanup(e) \/ PostRead(e)
           \/ PostWrite(e) \/ PostAttributes(e)
  BY <1>1, <1>3 DEF FileCases, PostClose, PostCleanup, PostRead, PostWrite,
                    PostAttributes
<1>4. CASE \/ PostCreate(e) \/ SafeCloseCallback(e) \/ SafeCleanupCallback(e)
           \/ SafeReadCallback(e) \/ SafeWriteCallback(e) \/ SafeAttributesCallback(e)
  <2>1. LastTestOf(e)
    BY <1>1, <1>4 DEF LastTestOf, PostCreate, SafeCloseCallback, SafeCleanupCallback,
         SafeReadCallback, SafeWriteCallback, SafeAttributesCallback, SafeCallback
  <2> QED
    BY <2>1 DEF FileCases
<1> QED
  BY <1>2, <1>3, <1>4 DEF FileOperation

LEMMA NotifyCases ==
    ASSUME NEW e \in Events, Notify(e)
    PROVE  NotifyEffect(e)
<1> USE DEF NotifyEffect, GoTo, Return
<1>1. CASE ProcessFltNotifyRoutine(e)
  <2>1. PICK s \in ProcessEvents : Begins(e, s)
    BY <1>1 DEF ProcessFltNotifyRoutine
  <2>2. s \in Kinds \ FileOps
    BY KindsApart
  <2> QED
    BY <1>1, <2>1, <2>2 DEF ProcessFltNotifyRoutine
<1>2. CASE ProcFltSendMessageProcessTerminate(e)
  BY <1>2 DEF ProcFltSendMessageProcessTerminate
<1>3. CASE ImageFltNotifyRoutine(e)
  <2>1. "image" \in Kinds \ FileOps
    BY KindsApart
  <2> QED
    BY <1>3, <2>1 DEF ImageFltNotifyRoutine
<1>4. CASE PLoadImageNotifyRoutine(e)
  BY <1>4 DEF PLoadImageNotifyRoutine
<1>5. CASE ThreadFilterNotifyRoutine(e)
  <2>1. PICK s \in ThreadEvents :
            /\ Begins(e, s)
            /\ \/ /\ GoTo(e, "report")
                  /\ IF s = "threadCreate" THEN Acquire(e) ELSE UNCHANGED scratch
               \/ Return(e) /\ UNCHANGED scratch
            /\ NotifyOnly
    BY <1>5 DEF ThreadFilterNotifyRoutine
  <2>2. s \in Kinds \ FileOps
    BY KindsApart
  <2> QED
    BY <2>1, <2>2
<1>6. CASE CmRegistryCallback(e)
  <2>1. "registry" \in Kinds \ FileOps
    BY KindsApart
  <2> QED
    BY <1>6, <2>1 DEF CmRegistryCallback
<1> QED
  BY <1>1, <1>2, <1>3, <1>4, <1>5, <1>6 DEF Notify
-----------------------------------------------------------------------------
(***************************************************************************)
(* Types                                                                   *)
(***************************************************************************)
TypeInv == TypeOK /\ IsFiniteSet(running)

LEMMA InitTypeInv == Init => TypeInv
<1> SUFFICES ASSUME Init PROVE TypeInv
  OBVIOUS
<1> USE DEF Init
<1>1. PortOK
  BY DEF PortOK
<1>2. EventOK
  BY DEF EventOK
<1>3. MessageOK
  BY DEF MessageOK
<1>4. IsFiniteSet(running) /\ Cardinality(running) = 0
  BY FS_EmptySet
<1>5. PoolOK
  <2>1. pending \in Seq(Events)
    OBVIOUS
  <2> QED
    BY <1>4, <2>1 DEF PoolOK
<1> QED
  BY <1>1, <1>2, <1>3, <1>4, <1>5 DEF TypeInv, TypeOK

\* What the pool's operations do to the types.
LEMMA PoolTypes ==
    ASSUME TypeInv
    PROVE  /\ \A e \in Events : Pool!Submit(e) =>
                  pending' \in Seq(Events) /\ UNCHANGED <<running, done>>
           /\ Pool!StartOldest /\ Cardinality(running) < Senders =>
                  /\ PoolOK'
                  /\ IsFiniteSet(running')
           /\ \A e \in Events : Pool!Finish(e) =>
                  /\ PoolOK'
                  /\ IsFiniteSet(running')
<1> USE DEF TypeInv, TypeOK, PoolOK
<1>1. ASSUME NEW e \in Events, Pool!Submit(e)
      PROVE  pending' \in Seq(Events) /\ UNCHANGED <<running, done>>
  BY <1>1 DEF Pool!Submit
<1>2. ASSUME Pool!StartOldest, Cardinality(running) < Senders
      PROVE  PoolOK' /\ IsFiniteSet(running')
  <2>1. Head(pending) \in Events /\ Tail(pending) \in Seq(Events)
    BY <1>2 DEF Pool!StartOldest
  <2>2. Cardinality(running) \in Nat
    BY FS_CardinalityType
  <2>3. /\ IsFiniteSet(running')
        /\ Cardinality(running') \in {Cardinality(running), Cardinality(running) + 1}
    <3>1. running' = running \cup {Head(pending)}
      BY <1>2 DEF Pool!StartOldest
    <3> QED
      BY <3>1, FS_AddElement
  <2>4. pending' \in Seq(Events) /\ running' \in SUBSET Events /\ done' \in SUBSET Events
    BY <1>2, <2>1 DEF Pool!StartOldest
  <2> QED
    BY <1>2, <2>2, <2>3, <2>4
<1>3. ASSUME NEW e \in Events, Pool!Finish(e)
      PROVE  PoolOK' /\ IsFiniteSet(running')
  <2>1. running' = running \ {e} /\ done' = done \cup {e} /\ pending' = pending
    BY <1>3 DEF Pool!Finish
  <2>2. Cardinality(running) \in Nat
    BY FS_CardinalityType
  <2>3. /\ IsFiniteSet(running')
        /\ Cardinality(running') \in {Cardinality(running), Cardinality(running) - 1}
    BY <2>1, FS_RemoveElement
  <2> QED
    BY <2>1, <2>2, <2>3
<1> QED
  BY <1>1, <1>2, <1>3

\* A step changes the events' variables at one event only.
LEMMA EventTypes ==
    ASSUME TypeInv, NEW e \in Events
    PROVE  /\ \A s \in Kinds : source' = [source EXCEPT ![e] = s] =>
                  source' \in [Events -> Kinds \cup {"unknown"}]
           /\ \A p \in {"idle", "pending", "safe", "anyClient", "report", "returned"} :
                  GoTo(e, p) =>
                  at' \in [Events -> {"idle", "pending", "safe", "anyClient",
                                      "report", "returned"}]
           /\ Acquire(e) \/ Release(e) \/ UNCHANGED scratch =>
                  scratch' \in [Events -> {"none", "held", "released"}]
           /\ \A w \in {"none", "noMemory", "refused", "tooLong", "notDeferred"} :
                  Mishap(e, w) =>
                  mishap' \in [Events -> {"none", "noMemory", "refused", "tooLong",
                                          "notDeferred"}]
           /\ msg' = [msg EXCEPT ![e] = "allocated"] =>
                  msg' \in [Events -> {"none", "allocated", "freed"}]
  BY DEF TypeInv, TypeOK, EventOK, MessageOK, GoTo, Acquire, Release, Mishap

LEMMA TypeStep == TypeInv /\ [Next]_vars => TypeInv'
<1> SUFFICES ASSUME TypeInv, [Next]_vars PROVE TypeInv'
  OBVIOUS
<1> USE DEF portVars, eventVars, poolVars
<1>1. PortOK /\ EventOK /\ MessageOK /\ PoolOK /\ IsFiniteSet(running)
  BY DEF TypeInv, TypeOK
<1>2. UNCHANGED <<portVars, monitored>> => PortOK'
  BY <1>1 DEF PortOK
<1>3. UNCHANGED <<eventVars, interrupted>> => EventOK'
  BY <1>1 DEF EventOK
<1>4. UNCHANGED <<msg, snapshot>> => MessageOK'
  BY <1>1 DEF MessageOK
<1>5. UNCHANGED poolVars => PoolOK' /\ IsFiniteSet(running)'
  BY <1>1 DEF PoolOK
<1>6. Interrupt => interrupted' \in SUBSET Events
  BY <1>1 DEF Interrupt, InFlight, EventOK
<1>10. ASSUME NEW e \in Events, FileCases(e) PROVE TypeInv'
  <2>1. EventOK'
    <3>1. CASE \E op \in FileOps : PreOperation(e, op)
      BY <3>1, <1>1, EventTypes DEF PreOperation, Begins, Return, EventOK
    <3>2. CASE \E op \in FileOps : PostOperation(e, op)
      BY <3>2, <1>1, EventTypes DEF PostOperation, Return, EventOK
    <3>3. CASE LastTestOf(e)
      BY <3>3, <1>1, EventTypes DEF LastTestOf, LastTest, EventOK
    <3> QED
      BY <1>10, <3>1, <3>2, <3>3 DEF FileCases
  <2>2. UNCHANGED <<portVars, monitored, msg, snapshot, poolVars>>
    BY <1>10 DEF FileCases, PreOperation, PostOperation, LastTestOf, LastTest
  <2> QED
    BY <1>2, <1>4, <1>5, <2>1, <2>2 DEF TypeInv, TypeOK
<1>11. ASSUME NEW e \in Events, NotifyEffect(e) PROVE TypeInv'
  <2>1. EventOK'
    BY <1>1, <1>11, EventTypes DEF NotifyEffect, NotifyOnly, Begins, EventOK
  <2>2. UNCHANGED <<portVars, monitored, msg, snapshot, poolVars>>
    BY <1>11 DEF NotifyEffect, NotifyOnly
  <2> QED
    BY <1>2, <1>4, <1>5, <2>1, <2>2 DEF TypeInv, TypeOK
<1>12. ASSUME NEW e \in Events, Report(e) \/ RegistryReport(e) PROVE TypeInv'
  <2>1. EventOK'
    BY <1>1, <1>12, EventTypes
    DEF Report, RegistryReport, TpEnqueueWorkItem, Return, EventOK
  <2>2. MessageOK'
    BY <1>1, <1>12, EventTypes DEF Report, RegistryReport, MessageOK
  <2>3. PoolOK' /\ IsFiniteSet(running)'
    <3>1. Pool!Submit(e) \/ UNCHANGED poolVars
      BY <1>12 DEF Report, RegistryReport, TpEnqueueWorkItem
    <3> QED
      BY <1>1, <3>1, PoolTypes DEF PoolOK
  <2> QED
    BY <1>2, <1>12, <2>1, <2>2, <2>3 DEF Report, RegistryReport, TypeInv, TypeOK
<1>13. ASSUME NEW p \in Ports, ConnectNotifyCallback(p) PROVE TypeInv'
  <2>1. PortOK'
    BY <1>1, <1>13 DEF ConnectNotifyCallback, PortOK
  <2> QED
    BY <1>3, <1>4, <1>5, <1>13, <2>1 DEF ConnectNotifyCallback, TypeInv, TypeOK
<1>14. CASE FltCloseClientPort
  <2>1. PortOK'
    BY <1>1, <1>14 DEF FltCloseClientPort, PortOK
  <2>2. EventOK'
    BY <1>1, <1>6, <1>14 DEF FltCloseClientPort, EventOK
  <2>3. MessageOK'
    BY <1>1, <1>14 DEF FltCloseClientPort, MessageOK, PoolOK
  <2> QED
    BY <1>5, <1>14, <2>1, <2>2, <2>3 DEF FltCloseClientPort, TypeInv, TypeOK
<1>15. CASE DisconnectNotifyCallback
  <2>1. PortOK'
    BY <1>1, <1>15 DEF DisconnectNotifyCallback, PortOK
  <2>2. EventOK'
    BY <1>1, <1>6, <1>15 DEF DisconnectNotifyCallback, EventOK
  <2> QED
    BY <1>4, <1>5, <1>15, <2>1, <2>2 DEF DisconnectNotifyCallback, TypeInv, TypeOK
<1>16. CASE MessageNotifyCallback
  <2>1. PortOK'
    BY <1>1, <1>16 DEF MessageNotifyCallback, HandleUserMessage, PortOK
  <2>2. EventOK'
    BY <1>1, <1>6, <1>16 DEF MessageNotifyCallback, EventOK
  <2> QED
    BY <1>4, <1>5, <1>16, <2>1, <2>2 DEF MessageNotifyCallback, TypeInv, TypeOK
<1>17. ASSUME NEW m \in Events, SendWorker(m) PROVE TypeInv'
  <2>1. MessageOK'
    BY <1>1, <1>17 DEF SendWorker, MessageOK, PortOK
  <2>2. PoolOK' /\ IsFiniteSet(running)'
    BY <1>17, PoolTypes DEF SendWorker
  <2> QED
    BY <1>2, <1>3, <1>17, <2>1, <2>2 DEF SendWorker, TypeInv, TypeOK
<1>18. ASSUME NEW m \in Events, FltSendMessage(m) PROVE TypeInv'
  <2>1. MessageOK'
    BY <1>1, <1>18 DEF FltSendMessage, MessageOK
  <2>2. PoolOK' /\ IsFiniteSet(running)'
    BY <1>18, PoolTypes DEF FltSendMessage
  <2> QED
    BY <1>2, <1>3, <1>18, <2>1, <2>2 DEF FltSendMessage, TypeInv, TypeOK
<1>19. CASE UNCHANGED vars
  BY <1>2, <1>3, <1>4, <1>5, <1>19 DEF vars, TypeInv, TypeOK
<1> QED
  BY <1>10, <1>11, <1>12, <1>13, <1>14, <1>15, <1>16, <1>17, <1>18, <1>19,
     FileOperationCases, NotifyCases DEF Next, Port, Worker

\* Every variable keeps its type, and never more messages are being sent than
\* the pool has threads (InitThreadPool, TpWorkerThread).
THEOREM TypeCorrect == Spec => []TypeOK
<1>1. TypeInv => TypeOK
  BY DEF TypeInv
<1> QED
  BY <1>1, InitTypeInv, TypeStep, PTL DEF Spec
-----------------------------------------------------------------------------
(***************************************************************************)
(* The port                                                                *)
(***************************************************************************)
LEMMA PortStep == PortAgrees /\ [Next]_vars => PortAgrees'
<1> SUFFICES ASSUME PortAgrees, [Next]_vars PROVE PortAgrees'
  OBVIOUS
<1> USE DEF portVars
<1>1. CASE UNCHANGED portVars
  BY <1>1 DEF PortAgrees
<1>2. ASSUME NEW e \in Events,
             FileCases(e) \/ NotifyEffect(e) \/ Report(e) \/ RegistryReport(e)
      PROVE  UNCHANGED portVars
  BY <1>2 DEF FileCases, PreOperation, PostOperation, LastTestOf, LastTest,
              NotifyEffect, NotifyOnly, Report, RegistryReport
<1>3. ASSUME NEW p \in Ports, ConnectNotifyCallback(p) PROVE PortAgrees'
  BY <1>3 DEF ConnectNotifyCallback, PortAgrees
<1>4. CASE FltCloseClientPort
  BY <1>4 DEF FltCloseClientPort, PortAgrees
<1>5. CASE DisconnectNotifyCallback
  BY <1>5 DEF DisconnectNotifyCallback, PortAgrees
<1>6. CASE MessageNotifyCallback
  BY <1>1, <1>6 DEF MessageNotifyCallback
<1>7. ASSUME NEW m \in Events, SendWorker(m) \/ FltSendMessage(m) PROVE PortAgrees'
  BY <1>1, <1>7 DEF SendWorker, FltSendMessage
<1>8. CASE UNCHANGED vars
  BY <1>1, <1>8 DEF vars
<1> QED
  BY <1>1, <1>2, <1>3, <1>4, <1>5, <1>6, <1>7, <1>8,
     FileOperationCases, NotifyCases DEF Next, Port, Worker

\* gClientPort is the open connection, but for a connection made between
\* FltCloseClientPort and the assignment after it (DisconnectNotifyCallback).
THEOREM PortAgreesCorrect == Spec => []PortAgrees
<1>1. Init => PortAgrees
  BY DEF Init, PortAgrees
<1> QED
  BY <1>1, PortStep, PTL DEF Spec
-----------------------------------------------------------------------------
(***************************************************************************)
(* The way of a message                                                    *)
(***************************************************************************)
\* The queue is duplicate-free and apart from what is being sent; a callback
\* that has not returned has neither made a message nor met a failure.
Distinct == \A i, j \in DOMAIN pending : pending[i] = pending[j] => i = j

Apart == Pool!Pending \cap running = {}

Unwritten ==
    \A e \in Events : at[e] # "returned" => msg[e] = "none" /\ mishap[e] = "none"

MessageInv == Distinct /\ Apart /\ Unwritten /\ NoUseAfterFree /\ MessageReturned

\* How the pool's operations move messages.
LEMMA PoolMoves ==
    ASSUME TypeInv, Distinct, Apart
    PROVE  /\ \A e \in Events : Pool!Submit(e) =>
                  /\ Distinct' /\ Apart'
                  /\ InPool' = InPool \cup {e}
           /\ Pool!StartOldest => Distinct' /\ Apart' /\ InPool' = InPool
           /\ \A e \in Events : Pool!Finish(e) =>
                  /\ Distinct' /\ Apart'
                  /\ e \in InPool
                  /\ InPool' = InPool \ {e}
<1>1. pending \in Seq(Events) /\ running \in SUBSET Events
  BY DEF TypeInv, TypeOK, PoolOK
<1>2. ASSUME NEW e \in Events, Pool!Submit(e)
      PROVE  Distinct' /\ Apart' /\ InPool' = InPool \cup {e}
  <2>1. /\ pending' = Append(pending, e)
        /\ running' = running
        /\ e \notin running /\ e \notin Pool!Pending
    BY <1>2 DEF Pool!Submit
  <2>2. /\ DOMAIN pending = 1..Len(pending) /\ Len(pending) \in Nat
        /\ DOMAIN pending' = 1..(Len(pending) + 1)
        /\ \A k \in DOMAIN pending : pending'[k] = pending[k]
        /\ pending'[Len(pending) + 1] = e
    BY <1>1, <2>1
  <2>3. Pool!Pending' = Pool!Pending \cup {e}
    BY <2>2 DEF Pool!Pending
  <2>4. Distinct'
    BY <2>1, <2>2 DEF Distinct, Pool!Pending
  <2> QED
    BY <2>1, <2>3, <2>4 DEF Apart, InPool
<1>3. ASSUME Pool!StartOldest
      PROVE  Distinct' /\ Apart' /\ InPool' = InPool
  <2>1. /\ pending # <<>>
        /\ pending' = Tail(pending)
        /\ running' = running \cup {Head(pending)}
    BY <1>3 DEF Pool!StartOldest
  <2>2. /\ DOMAIN pending = 1..Len(pending) /\ Len(pending) \in Nat /\ Len(pending) > 0
        /\ DOMAIN pending' = 1..(Len(pending) - 1)
        /\ \A k \in DOMAIN pending' : pending'[k] = pending[k + 1] /\ k + 1 \in DOMAIN pending
        /\ Head(pending) = pending[1]
    BY <1>1, <2>1
  <2>3. Distinct'
    BY <2>2 DEF Distinct
  <2>4. Head(pending) \notin Pool!Pending'
    BY <2>2 DEF Distinct, Pool!Pending
  <2>5. Pool!Pending = Pool!Pending' \cup {Head(pending)}
    <3>1. ASSUME NEW k \in DOMAIN pending
          PROVE  pending[k] \in Pool!Pending' \cup {Head(pending)}
      <4>1. CASE k = 1
        BY <2>2, <4>1
      <4>2. CASE k # 1
        <5>1. k - 1 \in DOMAIN pending' /\ pending'[k - 1] = pending[k]
          BY <2>2, <4>2
        <5> QED
          BY <5>1 DEF Pool!Pending
      <4> QED
        BY <4>1, <4>2
    <3>2. Head(pending) \in Pool!Pending
      BY <2>2 DEF Pool!Pending
    <3>3. Pool!Pending' \subseteq Pool!Pending
      BY <2>2 DEF Pool!Pending
    <3>4. Pool!Pending \subseteq Pool!Pending' \cup {Head(pending)}
      BY <3>1 DEF Pool!Pending
    <3> QED
      BY <3>2, <3>3, <3>4
  <2> QED
    BY <2>1, <2>3, <2>4, <2>5 DEF Apart, InPool
<1>4. ASSUME NEW e \in Events, Pool!Finish(e)
      PROVE  Distinct' /\ Apart' /\ e \in InPool /\ InPool' = InPool \ {e}
  <2>1. /\ pending' = pending /\ running' = running \ {e} /\ e \in running
        /\ Pool!Pending' = Pool!Pending
    BY <1>4 DEF Pool!Finish, Pool!Pending
  <2>2. Distinct'
    BY <2>1 DEF Distinct
  <2> QED
    BY <2>1, <2>2 DEF Apart, InPool
<1> QED
  BY <1>2, <1>3, <1>4

LEMMA MessageStep == TypeInv /\ MessageInv /\ [Next]_vars => MessageInv'
<1> SUFFICES ASSUME TypeInv, MessageInv, [Next]_vars PROVE MessageInv'
  OBVIOUS
<1> USE DEF portVars, eventVars, poolVars, GoTo, Return, Mishap
<1>1. /\ at \in [Events -> {"idle", "pending", "safe", "anyClient", "report",
                            "returned"}]
      /\ mishap \in [Events -> {"none", "noMemory", "refused", "tooLong",
                                "notDeferred"}]
      /\ msg \in [Events -> {"none", "allocated", "freed"}]
      /\ InPool \subseteq Events
  BY DEF TypeInv, TypeOK, EventOK, MessageOK, PoolOK, InPool, Pool!Pending
<1>2. Distinct /\ Apart /\ Unwritten /\ NoUseAfterFree /\ MessageReturned
  BY DEF MessageInv
<1>3. UNCHANGED poolVars => Distinct' /\ Apart' /\ InPool' = InPool
  BY <1>2 DEF Distinct, Apart, InPool, Pool!Pending
<1>4. UNCHANGED <<poolVars, at, mishap, msg>> => MessageInv'
  BY <1>2, <1>3 DEF MessageInv, Unwritten, NoUseAfterFree, MessageReturned
\* Before its report a callback has no message: only at and mishap change.
<1>5. ASSUME NEW e \in Events, FileCases(e) \/ NotifyEffect(e) PROVE MessageInv'
  <2>1. /\ UNCHANGED <<poolVars, msg>>
        /\ at[e] # "returned"
        /\ \E p \in {"pending", "safe", "anyClient", "report", "returned"} :
              at' = [at EXCEPT ![e] = p]
    BY <1>5 DEF FileCases, PreOperation, PostOperation, LastTestOf, LastTest,
                NotifyEffect, NotifyOnly, Begins
  <2>2. \/ UNCHANGED mishap
        \/ /\ \E w \in {"noMemory", "notDeferred"} : mishap' = [mishap EXCEPT ![e] = w]
           /\ at' = [at EXCEPT ![e] = "returned"]
    BY <1>5 DEF FileCases, PreOperation, PostOperation, LastTestOf, LastTest,
                NotifyEffect, NotifyOnly
  <2>3. msg[e] = "none"
    BY <1>2, <2>1 DEF Unwritten
  <2>4. Unwritten'
    BY <1>1, <1>2, <2>1, <2>2 DEF Unwritten
  <2>5. MessageReturned'
    BY <1>1, <1>2, <1>3, <2>1, <2>2, <2>3 DEF MessageReturned
  <2> QED
    BY <1>2, <1>3, <2>1, <2>4, <2>5 DEF MessageInv, NoUseAfterFree
<1>6. ASSUME NEW e \in Events, Report(e) \/ RegistryReport(e) PROVE MessageInv'
  <2>1. at[e] # "returned" /\ at' = [at EXCEPT ![e] = "returned"]
    BY <1>6 DEF Report, RegistryReport
  <2>2. msg[e] = "none" /\ mishap[e] = "none" /\ e \notin InPool
    BY <1>2, <2>1 DEF Unwritten, NoUseAfterFree
  <2>3. CASE /\ msg' = [msg EXCEPT ![e] = "allocated"]
             /\ Pool!Submit(e) /\ UNCHANGED mishap
    <3>1. Distinct' /\ Apart' /\ InPool' = InPool \cup {e}
      BY <1>2, <2>3, PoolMoves
    <3> QED
      BY <1>1, <1>2, <2>1, <2>3, <3>1
      DEF MessageInv, Unwritten, NoUseAfterFree, MessageReturned
  <2>4. CASE /\ msg' = [msg EXCEPT ![e] = "allocated"]
             /\ \E w \in {"refused", "tooLong"} : mishap' = [mishap EXCEPT ![e] = w]
             /\ UNCHANGED poolVars
    BY <1>1, <1>2, <1>3, <2>1, <2>4
    DEF MessageInv, Unwritten, NoUseAfterFree, MessageReturned
  <2>5. CASE /\ UNCHANGED <<msg, poolVars>>
             /\ mishap' = [mishap EXCEPT ![e] = "noMemory"]
    BY <1>1, <1>2, <1>3, <2>1, <2>2, <2>5
    DEF MessageInv, Unwritten, NoUseAfterFree, MessageReturned
  <2> QED
    BY <1>6, <2>3, <2>4, <2>5 DEF Report, RegistryReport, TpEnqueueWorkItem
<1>7. CASE Port
  BY <1>4, <1>7 DEF Port, ConnectNotifyCallback, FltCloseClientPort,
                    DisconnectNotifyCallback, MessageNotifyCallback
<1>8. ASSUME NEW m \in Events, SendWorker(m) PROVE MessageInv'
  <2>1. Distinct' /\ Apart' /\ InPool' = InPool
    BY <1>2, <1>8, PoolMoves DEF SendWorker
  <2>2. UNCHANGED <<at, mishap, msg>>
    BY <1>8 DEF SendWorker
  <2> QED
    BY <1>2, <2>1, <2>2 DEF MessageInv, Unwritten, NoUseAfterFree, MessageReturned
<1>9. ASSUME NEW m \in Events, FltSendMessage(m) PROVE MessageInv'
  <2>1. Distinct' /\ Apart' /\ m \in InPool /\ InPool' = InPool \ {m}
    BY <1>2, <1>9, PoolMoves DEF FltSendMessage
  <2>2. UNCHANGED <<at, mishap>> /\ msg' = [msg EXCEPT ![m] = "freed"]
    BY <1>9 DEF FltSendMessage
  <2>3. at[m] = "returned"
    BY <1>1, <1>2, <2>1 DEF Unwritten, NoUseAfterFree
  <2> QED
    BY <1>1, <1>2, <2>1, <2>2, <2>3
    DEF MessageInv, Unwritten, NoUseAfterFree, MessageReturned
<1>10. CASE UNCHANGED vars
  BY <1>4, <1>10 DEF vars
<1> QED
  BY <1>5, <1>6, <1>7, <1>8, <1>9, <1>10, FileOperationCases, NotifyCases
  DEF Next, Worker

LEMMA MessageInvariant == Spec => []MessageInv
<1>1. Init => MessageInv
  BY DEF Init, MessageInv, Distinct, Apart, Unwritten, NoUseAfterFree,
         MessageReturned, InPool, Pool!Pending
<1> QED
  BY <1>1, InitTypeInv, TypeStep, MessageStep, PTL DEF Spec

\* A message that is queued or being sent is in memory (SendWorker frees it
\* when it has been sent, and nobody else does).
THEOREM NoUseAfterFreeCorrect == Spec => []NoUseAfterFree
<1>1. MessageInv => NoUseAfterFree
  BY DEF MessageInv
<1> QED
  BY <1>1, MessageInvariant, PTL

\* A message that is in memory is on its way, unless TpEnqueueWorkItem refused
\* it or the registry callback dropped it.
THEOREM MessageReturnedCorrect == Spec => []MessageReturned
<1>1. MessageInv => MessageReturned
  BY DEF MessageInv
<1> QED
  BY <1>1, MessageInvariant, PTL

\* Both: a message is in memory exactly as long as it has an owner.
THEOREM MessageOwnedCorrect == Spec => []MessageOwned
<1>1. NoUseAfterFree /\ MessageReturned => MessageOwned
  BY DEF MessageOwned
<1> QED
  BY <1>1, NoUseAfterFreeCorrect, MessageReturnedCorrect, PTL
-----------------------------------------------------------------------------
(***************************************************************************)
(* What a callback holds                                                   *)
(***************************************************************************)
\* A file operation in flight was interrupted, or monitoring still goes on.
Undisturbed ==
    \A e \in Events :
        at[e] \in {"pending", "safe"} =>
            source[e] \in FileOps /\ (Watching \/ e \in interrupted)

EmptyHanded ==
    \A e \in Events : at[e] \in {"idle", "anyClient"} => scratch[e] # "held"

ScratchInv == Undisturbed /\ EmptyHanded /\ ScratchReturned

LEMMA ScratchStep == TypeInv /\ ScratchInv /\ [Next]_vars => ScratchInv'
<1> SUFFICES ASSUME TypeInv, ScratchInv, [Next]_vars PROVE ScratchInv'
  OBVIOUS
<1> USE DEF portVars, eventVars, GoTo, Return, Mishap, Acquire, Release,
            Begins
<1>1. /\ at \in [Events -> {"idle", "pending", "safe", "anyClient", "report",
                            "returned"}]
      /\ scratch \in [Events -> {"none", "held", "released"}]
      /\ source \in [Events -> Kinds \cup {"unknown"}]
      /\ mishap \in [Events -> {"none", "noMemory", "refused", "tooLong",
                                "notDeferred"}]
  BY DEF TypeInv, TypeOK, EventOK
<1>2. Undisturbed /\ EmptyHanded /\ ScratchReturned
  BY DEF ScratchInv
<1>3. UNCHANGED <<gClientPort, monitored>> => Watching' = Watching
  BY DEF Watching
<1>4. UNCHANGED <<gClientPort, monitored, eventVars, interrupted>> => ScratchInv'
  BY <1>2, <1>3 DEF ScratchInv, Undisturbed, EmptyHanded, ScratchReturned
\* Whatever stops the monitoring records the operations in flight.
<1>5. ASSUME UNCHANGED eventVars, Interrupt PROVE ScratchInv'
  <2>1. Watching' \/ interrupted' = interrupted \cup InFlight
    BY <1>5 DEF Interrupt, Watching
  <2>2. interrupted \subseteq interrupted'
    BY <1>5 DEF Interrupt
  <2>3. Undisturbed'
    BY <1>2, <1>5, <2>1, <2>2 DEF Undisturbed, InFlight
  <2> QED
    BY <1>2, <1>5, <2>2, <2>3 DEF ScratchInv, EmptyHanded, ScratchReturned
<1>6. ASSUME NEW e \in Events, NEW op \in FileOps, PreOperation(e, op)
      PROVE  ScratchInv'
  <2>1. UNCHANGED <<gClientPort, monitored, interrupted>> /\ op \in Kinds
    BY <1>6 DEF PreOperation
  <2>2. /\ source' = [source EXCEPT ![e] = op]
        /\ at[e] = "idle" /\ scratch[e] # "held"
    BY <1>2, <1>6 DEF PreOperation, EmptyHanded
  <2>3. \/ Watching /\ at' = [at EXCEPT ![e] = "pending"]
           /\ scratch' = [scratch EXCEPT ![e] = "held"] /\ UNCHANGED mishap
        \/ at' = [at EXCEPT ![e] = "returned"] /\ UNCHANGED scratch
           /\ (UNCHANGED mishap \/ mishap' = [mishap EXCEPT ![e] = "noMemory"])
    BY <1>6 DEF PreOperation
  <2>4. Undisturbed'
    BY <1>1, <1>2, <1>3, <2>1, <2>2, <2>3 DEF Undisturbed
  <2>5. EmptyHanded'
    BY <1>1, <1>2, <2>2, <2>3 DEF EmptyHanded
  <2>6. ScratchReturned'
    BY <1>1, <1>2, <2>1, <2>2, <2>3 DEF ScratchReturned
  <2> QED
    BY <2>4, <2>5, <2>6 DEF ScratchInv
<1>7. ASSUME NEW e \in Events, NEW op \in FileOps, PostOperation(e, op)
      PROVE  ScratchInv'
  <2>1. UNCHANGED <<gClientPort, monitored, interrupted, source, scratch>>
        /\ at[e] = "pending"
    BY <1>7 DEF PostOperation
  <2>2. source[e] \in FileOps /\ (Watching \/ e \in interrupted)
    BY <1>2, <2>1 DEF Undisturbed
  <2>3. \/ at' = [at EXCEPT ![e] = "safe"] /\ UNCHANGED mishap
        \/ at' = [at EXCEPT ![e] = "returned"]
           /\ mishap' = [mishap EXCEPT ![e] = "notDeferred"]
        \/ ~Watching /\ at' = [at EXCEPT ![e] = "returned"] /\ UNCHANGED mishap
    BY <1>7 DEF PostOperation
  <2>4. Undisturbed' /\ EmptyHanded'
    BY <1>1, <1>2, <1>3, <2>1, <2>2, <2>3 DEF Undisturbed, EmptyHanded
  <2>5. ScratchReturned'
    BY <1>1, <1>2, <2>1, <2>2, <2>3 DEF ScratchReturned
  <2> QED
    BY <2>4, <2>5 DEF ScratchInv
<1>8. ASSUME NEW e \in Events, LastTestOf(e) PROVE ScratchInv'
  <2>1. UNCHANGED <<gClientPort, monitored, interrupted, source, scratch, mishap>>
        /\ at[e] \in {"pending", "safe"}
    BY <1>8 DEF LastTestOf, LastTest
  <2>2. source[e] \in FileOps /\ (Watching \/ e \in interrupted)
    BY <1>2, <2>1 DEF Undisturbed
  <2>3. \/ at' = [at EXCEPT ![e] = "report"]
        \/ ~Watching /\ at' = [at EXCEPT ![e] = "returned"]
    BY <1>8 DEF LastTestOf, LastTest
  <2>4. Undisturbed' /\ EmptyHanded'
    BY <1>1, <1>2, <1>3, <2>1, <2>3 DEF Undisturbed, EmptyHanded
  <2>5. ScratchReturned'
    BY <1>1, <1>2, <2>1, <2>2, <2>3 DEF ScratchReturned
  <2> QED
    BY <2>4, <2>5 DEF ScratchInv
<1>9. ASSUME NEW e \in Events, NotifyEffect(e) PROVE ScratchInv'
  <2>1. UNCHANGED <<gClientPort, monitored, interrupted, mishap>>
    BY <1>9 DEF NotifyEffect, NotifyOnly
  <2>2. PICK p \in {"report", "anyClient", "returned"} : at' = [at EXCEPT ![e] = p]
    BY <1>9 DEF NotifyEffect
  <2>3. /\ at[e] \in {"idle", "anyClient"} /\ scratch[e] # "held"
        /\ source' = source \/ \E s \in Kinds : source' = [source EXCEPT ![e] = s]
    BY <1>2, <1>9 DEF NotifyEffect, EmptyHanded
  <2>4. \/ UNCHANGED scratch
        \/ scratch' = [scratch EXCEPT ![e] = "held"] /\ at' = [at EXCEPT ![e] = "report"]
    BY <1>9 DEF NotifyEffect
  <2>5. Undisturbed'
    BY <1>1, <1>2, <1>3, <2>1, <2>2, <2>3 DEF Undisturbed
  <2>6. EmptyHanded'
    BY <1>1, <1>2, <2>2, <2>3, <2>4 DEF EmptyHanded
  <2>7. ScratchReturned'
    BY <1>1, <1>2, <2>1, <2>2, <2>3, <2>4 DEF ScratchReturned
  <2> QED
    BY <2>5, <2>6, <2>7 DEF ScratchInv
<1>10. ASSUME NEW e \in Events, Report(e) \/ RegistryReport(e) PROVE ScratchInv'
  <2>1. UNCHANGED <<gClientPort, monitored, interrupted, source>>
        /\ at' = [at EXCEPT ![e] = "returned"]
    BY <1>10 DEF Report, RegistryReport
  <2>2. \/ scratch' = [scratch EXCEPT ![e] = IF @ = "held" THEN "released" ELSE @]
        \/ /\ UNCHANGED scratch /\ source[e] = "registry"
           /\ \E w \in {"noMemory", "tooLong"} : mishap' = [mishap EXCEPT ![e] = w]
    BY <1>10 DEF Report, RegistryReport
  <2>3. \A f \in Events \ {e} : mishap'[f] = mishap[f]
    BY <1>1, <1>10 DEF Report, RegistryReport, TpEnqueueWorkItem
  <2>4. mishap' \in [Events -> {"none", "noMemory", "refused", "tooLong",
                                "notDeferred"}]
    BY <1>1, <1>10 DEF Report, RegistryReport, TpEnqueueWorkItem
  <2>5. Undisturbed'
    BY <1>1, <1>2, <1>3, <2>1 DEF Undisturbed
  <2>6. EmptyHanded'
    BY <1>1, <1>2, <2>1, <2>2 DEF EmptyHanded
  <2>7. ScratchReturned'
    BY <1>1, <1>2, <2>1, <2>2, <2>3, <2>4 DEF ScratchReturned
  <2> QED
    BY <2>5, <2>6, <2>7 DEF ScratchInv
\* A connection is made when there is none: nothing is being watched.
<1>11. ASSUME NEW p \in Ports, ConnectNotifyCallback(p) PROVE ScratchInv'
  <2>1. UNCHANGED <<monitored, eventVars, interrupted>> /\ gClientPort' = p
    BY <1>11 DEF ConnectNotifyCallback
  <2>2. Watching => Watching'
    BY <2>1 DEF Watching
  <2> QED
    BY <1>2, <2>1, <2>2 DEF ScratchInv, Undisturbed, EmptyHanded, ScratchReturned
<1>12. CASE FltCloseClientPort \/ DisconnectNotifyCallback \/ MessageNotifyCallback
  BY <1>5, <1>12 DEF FltCloseClientPort, DisconnectNotifyCallback, MessageNotifyCallback
<1>13. ASSUME NEW m \in Events, SendWorker(m) \/ FltSendMessage(m) PROVE ScratchInv'
  BY <1>4, <1>13 DEF SendWorker, FltSendMessage
<1>14. CASE UNCHANGED vars
  BY <1>4, <1>14 DEF vars
<1> QED
  BY <1>6, <1>7, <1>8, <1>9, <1>10, <1>11, <1>12, <1>13, <1>14,
     FileOperationCases, NotifyCases DEF Next, Port, Worker, FileCases

\* Contexts, image paths and key names are given back, but for the file
\* operations that monitoring left behind and the registry callback's failures.
THEOREM ScratchReturnedCorrect == Spec => []ScratchReturned
<1>1. Init => ScratchInv
  BY DEF Init, ScratchInv, Undisturbed, EmptyHanded, ScratchReturned
<1>2. ScratchInv => ScratchReturned
  BY DEF ScratchInv
<1> QED
  BY <1>1, <1>2, InitTypeInv, TypeStep, ScratchStep, PTL DEF Spec
=============================================================================
