------------------------ MODULE ConsoleClientProofs ------------------------
(***************************************************************************)
(* What TLAPS proves of ConsoleClient, for any number of threads, messages, *)
(* senders and starts.                                                      *)
(***************************************************************************)
EXTENDS ConsoleClient, SequenceTheorems, TLAPS

USE MaxThreadsAssumption, MessagesAssumption DEF Threads, Pool!Threads, MessageIds

Alive == {"waiting", "draining", "running"}

\* How far the pool is, as main sees it.  TpUninit runs only after a failed TpInit.
PoolOK ==
    /\ main \in {"off", "init", "enqueue", "wait"}
    /\ worker \in [Threads -> {"none", "waiting", "draining", "running", "exited"}]
    /\ after \in {"dead", "failed"}
    /\ main \in {"enqueue", "wait"} => owner = "ready"
    /\ main = "off" => owner = "idle"

StartOK ==
    /\ owner = "idle" => \A t \in Threads : worker[t] = "none"
    /\ owner = "create" =>
         /\ stopEvent = "reset" /\ wanted = MaxThreads
         /\ threadHandles \in Nat /\ threadHandles < MaxThreads
         /\ \A t \in Threads : worker[t] \in IF t <= threadHandles THEN Alive ELSE {"none"}
    /\ owner = "ready" => stopEvent = "reset" /\ \A t \in Threads : worker[t] \in Alive

PInv == PoolOK /\ StartOK

LEMMA InitPInv == Init => PInv
  BY DEF Init, Pool!Init, PInv, PoolOK, StartOK

\* The steps outside the pool leave it alone.
LEMMA PoolUnchanged ==
    ASSUME PInv, UNCHANGED <<poolVars, main>>
    PROVE  PInv'
  BY DEF PInv, PoolOK, StartOK, poolVars

LEMMA InitSteps ==
    ASSUME PInv, TpInit
    PROVE  PInv'
<1> USE DEF PInv, PoolOK, StartOK, TpInit, clientVars
<1>1. CASE owner = "idle" /\ Pool!TpInit(MaxThreads)
  BY <1>1 DEF Pool!TpInit
<1>2. CASE owner = "idle" /\ Pool!TpInitFails
  BY <1>2 DEF Pool!TpInitFails, Pool!BeginUninit
<1>3. CASE Pool!CreateThread
  BY <1>3 DEF Pool!CreateThread, Pool!queueVars, Pool!eventVars, Alive
<1>4. CASE Pool!CreateThreadFails
  BY <1>4 DEF Pool!CreateThreadFails, Pool!BeginUninit, Pool!threadVars
<1>5. CASE Pool!UninitStep
  BY <1>5 DEF Pool!UninitStep, Pool!JoinThread, Pool!FreeHandles, Pool!DrainIsListEmpty,
              Pool!DrainRemoveTail, Pool!DrainCallRoutine, Pool!CloseEvents, Pool!threadVars
<1> QED
  BY <1>1, <1>2, <1>3, <1>4, <1>5

LEMMA WorkerSteps ==
    ASSUME PInv, NEW t \in Threads, PoolStep(t) \/ ListRemoveTail(t) \/ GetMessageFails(t)
    PROVE  PInv'
<1> USE DEF PInv, PoolOK, StartOK, Alive
<1>1. CASE PoolStep(t)
  BY <1>1 DEF PoolStep, Pool!WaitStop, Pool!WaitWork, clientVars, Pool!eventVars, Pool!ownerVars
<1>2. CASE ListRemoveTail(t)
  BY <1>2 DEF ListRemoveTail, Pool!ListRemoveTail, Pool!eventVars, Pool!ownerVars
<1>3. CASE GetMessageFails(t)
  BY <1>3 DEF GetMessageFails, Pool!RunItem, Pool!eventVars, Pool!ownerVars
<1> QED
  BY <1>1, <1>2, <1>3

LEMMA PStep == PInv /\ [Next]_vars => PInv'
<1> SUFFICES ASSUME PInv, [Next]_vars PROVE PInv'
  OBVIOUS
<1>1. CASE Connect \/ TpInitSucceeds \/ EnqueueLoopEnds
  BY <1>1 DEF PInv, PoolOK, StartOK, Connect, TpInitSucceeds, EnqueueLoopEnds, poolVars
<1>2. CASE TpInit
  BY <1>2, InitSteps
<1>3. CASE ProcessEnds
  BY <1>3 DEF PInv, PoolOK, StartOK, ProcessEnds
<1>4. ASSUME NEW i \in Items, AllocateItem(i) \/ EnqueueStep(i)
      PROVE  PInv'
  BY <1>4 DEF PInv, PoolOK, StartOK, AllocateItem, EnqueueStep, Pool!AllocateItem,
              Pool!CallStep, Pool!ListInsertHead, Pool!SetWorkScheduled,
              clientVars, Pool!eventVars, Pool!threadVars, Pool!ownerVars
<1>5. ASSUME NEW t \in Threads, PoolStep(t) \/ ListRemoveTail(t) \/ GetMessageFails(t)
      PROVE  PInv'
  BY <1>5, WorkerSteps
<1>6. CASE UNCHANGED <<poolVars, main>>
  BY <1>6, PoolUnchanged
<1>7. \/ \E t \in Threads : GetWorker(t) /\ ~ListRemoveTail(t) /\ ~GetMessageFails(t)
      \/ SendCustomMessageToDriver \/ FltSendMessage \/ DriverUnloads
      \/ \E m \in MessageIds : SendTimesOut(m)
      => UNCHANGED <<poolVars, main>>
  BY DEF GetWorker, FilterGetMessage, LockLog, CreateFileA, Unwritten, WriteLog, WriteFails,
         UnlockLog, SendCustomMessageToDriver, FltSendMessage, DriverUnloads, SendTimesOut
<1> QED
  BY <1>1, <1>2, <1>3, <1>4, <1>5, <1>6, <1>7
  DEF Next, MainStep, TpInitFails, Kill, GetWorker, vars, clientVars

\* main, once it waits for its threads, waits for ever: none of them leaves, as the
\* stop event is set only by the TpUninit behind the wait
\* (ConsoleApplication1.cpp:1032).
THEOREM WaitsForEverCorrect == Spec => []WaitsForEver
<1>1. PInv => WaitsForEver
  BY DEF PInv, PoolOK, StartOK, WaitsForEver, Alive
<1> QED
  BY InitPInv, PStep, <1>1, PTL DEF Spec
-----------------------------------------------------------------------------
(***************************************************************************)
(* Where a message is                                                       *)
(***************************************************************************)
ReceiverOK ==
    /\ receiver \in [Threads -> {"none", "get", "received", "locked", "open", "written"}]
    /\ hand \in [Threads -> MessageIds \cup {NoMessage}]
    /\ \A t \in Threads : receiver[t] # "none" => worker[t] = "running"
    /\ \A t \in Threads : hand[t] # NoMessage <=> receiver[t] \in {"received", "locked", "open"}

\* fLock is held by one.
LockOK == \A t, u \in Threads : HasLock(t) /\ HasLock(u) => t = u

OutcomeOK ==
    outcome \in [MessageIds -> {"unsent", "offered", "undelivered", "received",
                                "logged", "unwritten", "shared", "lost"}]

\* Only offered messages wait to be received, each once.
OfferOK ==
    /\ inbox \in Seq(MessageIds)
    /\ \A k \in DOMAIN inbox : outcome[inbox[k]] = "offered"
    /\ \A j, k \in DOMAIN inbox : inbox[j] = inbox[k] => j = k

HandOK ==
    /\ \A m \in MessageIds : outcome[m] = "received" <=> \E t \in Threads : hand[t] = m
    /\ \A t, u \in Threads : hand[t] = hand[u] /\ hand[t] # NoMessage => t = u

LogOK ==
    /\ log \in Seq(MessageIds)
    /\ \A m \in MessageIds : outcome[m] = "logged" <=> \E k \in DOMAIN log : log[k] = m
    /\ \A j, k \in DOMAIN log : log[j] = log[k] => j = k
    /\ \A m \in MessageIds : outcome[m] # "shared"

IInv == PInv /\ ReceiverOK /\ LockOK /\ OutcomeOK /\ OfferOK /\ HandOK /\ LogOK

LEMMA InitIInv == Init => IInv
<1> SUFFICES ASSUME Init PROVE IInv
  OBVIOUS
<1>1. PInv
  BY InitPInv
<1>2. ReceiverOK /\ LockOK /\ OutcomeOK /\ OfferOK
  BY DEF Init, ReceiverOK, LockOK, HasLock, OutcomeOK, OfferOK, NoMessage
<1>3. HandOK /\ LogOK
  BY DEF Init, HandOK, LogOK, NoMessage
<1> QED
  BY <1>1, <1>2, <1>3 DEF IInv

\* What all steps but a few do not touch.
messageVars == <<inbox, outcome, receiver, hand, log>>

LEMMA MessagesUnchanged ==
    ASSUME IInv, UNCHANGED messageVars,
           \A t \in Threads : worker[t] = "running" => worker'[t] = "running"
    PROVE  ReceiverOK' /\ LockOK' /\ OutcomeOK' /\ OfferOK' /\ HandOK' /\ LogOK'
  BY DEF IInv, messageVars, ReceiverOK, LockOK, HasLock, OutcomeOK, OfferOK, HandOK, LogOK

\* main's own steps, and those of a pool thread that waits.
LEMMA MainSteps ==
    ASSUME IInv, \/ Connect \/ TpInit \/ TpInitSucceeds \/ EnqueueLoopEnds
                 \/ \E i \in Items : AllocateItem(i) \/ EnqueueStep(i)
                 \/ \E t \in Threads : PoolStep(t)
                 \/ SendCustomMessageToDriver
    PROVE  UNCHANGED messageVars
           /\ \A t \in Threads : worker[t] = "running" => worker'[t] = "running"
<1> USE DEF messageVars
<1>1. CASE Connect \/ TpInitSucceeds \/ EnqueueLoopEnds \/ SendCustomMessageToDriver
  BY <1>1 DEF Connect, TpInitSucceeds, EnqueueLoopEnds, SendCustomMessageToDriver, poolVars
<1>2. CASE TpInit
  <2>1. CASE Pool!CreateThread
    BY <1>2, <2>1 DEF TpInit, Pool!CreateThread, clientVars, IInv, PInv, PoolOK, StartOK
  <2>2. CASE ~Pool!CreateThread
    BY <1>2, <2>2
    DEF TpInit, clientVars, Pool!TpInit, Pool!TpInitFails, Pool!CreateThreadFails,
        Pool!UninitStep, Pool!JoinThread, Pool!FreeHandles, Pool!DrainIsListEmpty,
        Pool!DrainRemoveTail, Pool!DrainCallRoutine, Pool!CloseEvents, Pool!threadVars
  <2> QED
    BY <2>1, <2>2
<1>3. ASSUME NEW i \in Items, AllocateItem(i) \/ EnqueueStep(i)
      PROVE  UNCHANGED <<messageVars, worker>>
  BY <1>3 DEF AllocateItem, EnqueueStep, Pool!AllocateItem, Pool!CallStep,
              Pool!ListInsertHead, Pool!SetWorkScheduled, clientVars, Pool!threadVars
<1>4. ASSUME NEW t \in Threads, PoolStep(t)
      PROVE  UNCHANGED messageVars
             /\ \A u \in Threads : worker[u] = "running" => worker'[u] = "running"
  BY <1>4 DEF PoolStep, Pool!WaitStop, Pool!WaitWork, clientVars, IInv, PInv, PoolOK
<1> QED
  BY <1>1, <1>2, <1>3, <1>4

\* A pool thread enters GetWorker, goes back to wait, or returns from it.
LEMMA EnterLeave ==
    ASSUME IInv, NEW t \in Threads, ListRemoveTail(t) \/ GetMessageFails(t)
    PROVE  ReceiverOK' /\ LockOK' /\ OutcomeOK' /\ OfferOK' /\ HandOK' /\ LogOK'
<1> USE DEF IInv, PInv, PoolOK, ReceiverOK
<1>1. UNCHANGED <<inbox, outcome, hand, log>>
  BY DEF ListRemoveTail, GetMessageFails
<1>2. ReceiverOK' /\ LockOK'
  <2>1. CASE ListRemoveTail(t)
    BY <2>1 DEF ListRemoveTail, Pool!ListRemoveTail, LockOK, HasLock
  <2>2. CASE GetMessageFails(t)
    BY <2>2 DEF GetMessageFails, Pool!RunItem, LockOK, HasLock
  <2> QED
    BY <2>1, <2>2
<1>3. OutcomeOK' /\ OfferOK' /\ HandOK' /\ LogOK'
  BY <1>1 DEF OutcomeOK, OfferOK, HandOK, LogOK
<1> QED
  BY <1>2, <1>3
-----------------------------------------------------------------------------
LEMMA Receive ==
    ASSUME IInv, NEW t \in Threads, FilterGetMessage(t)
    PROVE  ReceiverOK' /\ LockOK' /\ OutcomeOK' /\ OfferOK' /\ HandOK' /\ LogOK'
<1> DEFINE m == Head(inbox)
<1> USE DEF IInv
<1>0. /\ inbox # <<>> /\ inbox \in Seq(MessageIds) /\ inbox' = Tail(inbox)
      /\ 1 \in DOMAIN inbox /\ m = inbox[1] /\ m \in MessageIds
      /\ inbox' \in Seq(MessageIds)
      /\ \A k \in DOMAIN inbox' :
           k + 1 \in DOMAIN inbox /\ inbox'[k] = inbox[k + 1] /\ k \in Nat \ {0}
  BY DEF FilterGetMessage, OfferOK
<1>1. /\ m \in MessageIds /\ outcome[m] = "offered" /\ hand[t] = NoMessage
      /\ \A k \in DOMAIN inbox' : inbox'[k] # m
  <2>1. hand[t] = NoMessage
    BY DEF FilterGetMessage, ReceiverOK
  <2>2. outcome[m] = "offered"
    BY <1>0 DEF OfferOK
  <2>3. \A k \in DOMAIN inbox' : k + 1 # 1 /\ inbox'[k] = inbox[k + 1]
    BY <1>0
  <2>4. \A k \in DOMAIN inbox' : inbox[k + 1] # inbox[1]
    BY <1>0, <2>3 DEF OfferOK
  <2> QED
    BY <1>0, <2>1, <2>2, <2>3, <2>4
<1>2. /\ hand' = [hand EXCEPT ![t] = m] /\ outcome' = [outcome EXCEPT ![m] = "received"]
      /\ receiver' = [receiver EXCEPT ![t] = "received"] /\ receiver[t] = "get"
      /\ UNCHANGED <<worker, log>>
  BY DEF FilterGetMessage, poolVars
<1> HIDE DEF m
<1>3. ReceiverOK' /\ LockOK'
  BY <1>1, <1>2 DEF ReceiverOK, LockOK, HasLock, NoMessage
<1>4. OutcomeOK'
  BY <1>2 DEF OutcomeOK
<1>5. OfferOK'
  <2>1. \A k \in DOMAIN inbox' : inbox'[k] \in MessageIds /\ outcome'[inbox'[k]] = "offered"
    BY <1>0, <1>1, <1>2 DEF OfferOK, OutcomeOK
  <2>2. \A j, k \in DOMAIN inbox' : inbox'[j] = inbox'[k] => j = k
    BY <1>0 DEF OfferOK
  <2> QED
    BY <1>0, <2>1, <2>2 DEF OfferOK
<1>6. HandOK'
  <2>1. \A u \in Threads : hand[u] # m
    BY <1>1 DEF HandOK
  <2> QED
    BY <1>1, <1>2, <2>1 DEF HandOK, OutcomeOK, ReceiverOK, NoMessage
<1>7. LogOK'
  BY <1>1, <1>2 DEF LogOK, OutcomeOK
<1> QED
  BY <1>3, <1>4, <1>5, <1>6, <1>7

\* fLock is taken, output.log opened, and both are given back.
LEMMA LockSteps ==
    ASSUME IInv, NEW t \in Threads,
           NEW from \in {"received", "locked", "written"}, NEW to \in {"locked", "open", "get"},
           receiver[t] = from, receiver' = [receiver EXCEPT ![t] = to],
           UNCHANGED <<poolVars, inbox, outcome, hand, log>>,
           from = "received" => \A u \in Threads : ~HasLock(u),
           from = "written" <=> to = "get"
    PROVE  ReceiverOK' /\ LockOK' /\ OutcomeOK' /\ OfferOK' /\ HandOK' /\ LogOK'
<1> USE DEF IInv
<1>1. ReceiverOK'
  BY DEF ReceiverOK, poolVars
<1>2. LockOK'
  BY DEF ReceiverOK, LockOK, HasLock
<1> QED
  BY <1>1, <1>2 DEF OutcomeOK, OfferOK, HandOK, LogOK

\* A message leaves a hand: to the log, or for want of it.
LEMMA Released ==
    ASSUME IInv, NEW t \in Threads, receiver[t] \in {"locked", "open"},
           NEW result \in {"logged", "unwritten"},
           outcome' = [outcome EXCEPT ![hand[t]] = result],
           hand' = [hand EXCEPT ![t] = NoMessage],
           receiver' = [receiver EXCEPT ![t] = "written"],
           log' = IF result = "logged" THEN Append(log, hand[t]) ELSE log,
           UNCHANGED <<poolVars, inbox>>
    PROVE  ReceiverOK' /\ LockOK' /\ OutcomeOK' /\ OfferOK' /\ HandOK' /\ LogOK'
<1> DEFINE m == hand[t]
<1> USE DEF IInv, NoMessage
<1>1. m \in MessageIds /\ outcome[m] = "received" /\ \A u \in Threads : hand[u] = m => u = t
  BY DEF ReceiverOK, HandOK
<1>2. outcome' = [outcome EXCEPT ![m] = result]
  OBVIOUS
<1>3. log' = IF result = "logged" THEN Append(log, m) ELSE log
  OBVIOUS
<1>4. ReceiverOK'
  BY DEF ReceiverOK, poolVars
<1>5. LockOK'
  BY DEF ReceiverOK, LockOK, HasLock
<1>6. HandOK'
  BY <1>1, <1>2 DEF HandOK, ReceiverOK, OutcomeOK
<1> HIDE DEF m
<1>7. OutcomeOK' /\ OfferOK'
  BY <1>1, <1>2 DEF OutcomeOK, OfferOK
<1>8. LogOK'
  <2>1. CASE result = "unwritten"
    BY <1>1, <1>2, <1>3, <2>1 DEF LogOK, OutcomeOK
  <2>2. CASE result = "logged"
    <3>1. /\ log' \in Seq(MessageIds)
          /\ \A k \in DOMAIN log : k \in DOMAIN log' /\ log'[k] = log[k]
          /\ \A k \in DOMAIN log' : k = Len(log) + 1 \/ k \in DOMAIN log
          /\ Len(log) + 1 \in DOMAIN log' /\ log'[Len(log) + 1] = m
      BY <1>1, <1>3, <2>2 DEF LogOK
    <3>2. \A k \in DOMAIN log : log[k] # m
      BY <1>1 DEF LogOK
    <3>3. \A n \in MessageIds : outcome'[n] = "logged" <=> \E k \in DOMAIN log' : log'[k] = n
      BY <1>1, <1>2, <2>2, <3>1, <3>2 DEF LogOK, OutcomeOK
    <3>4. \A j, k \in DOMAIN log' : log'[j] = log'[k] => j = k
      BY <3>1, <3>2 DEF LogOK
    <3>5. \A n \in MessageIds : outcome'[n] # "shared"
      BY <1>1, <1>2, <2>2 DEF LogOK, OutcomeOK
    <3> QED
      BY <3>1, <3>3, <3>4, <3>5 DEF LogOK
  <2> QED
    BY <2>1, <2>2
<1> QED
  BY <1>4, <1>5, <1>6, <1>7, <1>8

\* What GetWorker does with fLock and output.log.  As fLock is held by one,
\* CreateFileA never finds the log open.
LEMMA LogSteps ==
    ASSUME IInv, NEW t \in Threads,
           \/ LockLog(t) \/ CreateFileA(t) \/ WriteLog(t) \/ WriteFails(t) \/ UnlockLog(t)
    PROVE  ReceiverOK' /\ LockOK' /\ OutcomeOK' /\ OfferOK' /\ HandOK' /\ LogOK'
<1>1. CASE LockLog(t)
  BY <1>1, LockSteps DEF LockLog
<1>2. CASE UnlockLog(t)
  BY <1>2, LockSteps DEF UnlockLog
<1>3. CASE WriteLog(t)
  BY <1>3, Released DEF WriteLog
<1>4. CASE WriteFails(t)
  BY <1>4, Released DEF WriteFails, Unwritten
<1>5. CASE CreateFileA(t)
  <2>1. ~\E u \in Threads : HasLogOpen(u)
    BY <1>5 DEF CreateFileA, IInv, LockOK, HasLock, HasLogOpen
  <2>2. CASE Unwritten(t, "unwritten")
    BY <1>5, <2>2, Released DEF CreateFileA, Unwritten
  <2>3. CASE receiver' = [receiver EXCEPT ![t] = "open"]
             /\ UNCHANGED <<poolVars, inbox, outcome, hand, log>>
    BY <1>5, <2>3, LockSteps DEF CreateFileA
  <2> QED
    BY <1>5, <2>1, <2>2, <2>3 DEF CreateFileA
<1> QED
  BY <1>1, <1>2, <1>3, <1>4, <1>5
-----------------------------------------------------------------------------
(***************************************************************************)
(* The driver's end, and the end of the process                             *)
(***************************************************************************)
LEMMA Offer ==
    ASSUME IInv, FltSendMessage
    PROVE  ReceiverOK' /\ LockOK' /\ OutcomeOK' /\ OfferOK' /\ HandOK' /\ LogOK'
<1> USE DEF IInv
<1>1. PICK m \in MessageIds : /\ outcome[m] = "unsent" /\ inbox' = Append(inbox, m)
                             /\ outcome' = [outcome EXCEPT ![m] = "offered"]
  BY DEF FltSendMessage, Sent
<1>2. UNCHANGED <<worker, receiver, hand, log>>
  BY DEF FltSendMessage, poolVars
<1>3. ReceiverOK' /\ LockOK' /\ OutcomeOK'
  BY <1>1, <1>2 DEF ReceiverOK, LockOK, HasLock, OutcomeOK
<1>4. /\ inbox' \in Seq(MessageIds)
      /\ \A k \in DOMAIN inbox : inbox'[k] = inbox[k]
      /\ \A k \in DOMAIN inbox' : k = Len(inbox) + 1 \/ k \in DOMAIN inbox
      /\ inbox'[Len(inbox) + 1] = m
  BY <1>1 DEF OfferOK
<1>5. \A k \in DOMAIN inbox : inbox[k] # m
  BY <1>1 DEF OfferOK
<1>6. \A k \in DOMAIN inbox' : outcome'[inbox'[k]] = "offered"
  BY <1>1, <1>4, <1>5 DEF OfferOK, OutcomeOK
<1>7. \A j, k \in DOMAIN inbox' : inbox'[j] = inbox'[k] => j = k
  BY <1>4, <1>5 DEF OfferOK
<1>8. HandOK' /\ LogOK'
  BY <1>1, <1>2 DEF HandOK, LogOK, OutcomeOK
<1> QED
  BY <1>3, <1>4, <1>6, <1>7, <1>8 DEF OfferOK

\* What is left of a list when its k-th entry is taken out.
LEMMA RemoveAtProperties ==
    ASSUME NEW S, NEW s \in Seq(S), NEW k \in 1..Len(s)
    PROVE  /\ RemoveAt(s, k) \in Seq(S) /\ DOMAIN RemoveAt(s, k) = 1..(Len(s) - 1)
           /\ \A j \in 1..(Len(s) - 1) :
                RemoveAt(s, k)[j] = IF j < k THEN s[j] ELSE s[j + 1]
<1> DEFINE a == SubSeq(s, 1, k - 1)
           b == SubSeq(s, k + 1, Len(s))
<1>1. Len(s) \in Nat /\ k \in Nat \ {0} /\ k <= Len(s) /\ \A j \in 1..Len(s) : s[j] \in S
  OBVIOUS
<1>2. \A j \in 1..(k - 1) : s[j] \in S
  BY <1>1
<1>3. /\ a \in Seq(S) /\ Len(a) = (IF 1 <= k - 1 THEN (k - 1) - 1 + 1 ELSE 0)
      /\ \A j \in 1..((k - 1) - 1 + 1) : a[j] = s[1 + j - 1]
  <2>1. 1 \in Int /\ k - 1 \in Int
    BY <1>1
  <2> QED
    BY <1>2, <2>1, SubSeqProperties
<1>4. \A j \in (k + 1)..Len(s) : s[j] \in S
  BY <1>1
<1>5. /\ b \in Seq(S) /\ Len(b) = (IF k + 1 <= Len(s) THEN Len(s) - (k + 1) + 1 ELSE 0)
      /\ \A j \in 1..(Len(s) - (k + 1) + 1) : b[j] = s[(k + 1) + j - 1]
  <2>1. k + 1 \in Int /\ Len(s) \in Int
    BY <1>1
  <2> QED
    BY <1>4, <2>1, SubSeqProperties
<1> HIDE DEF a, b
<1>6. Len(a) = k - 1 /\ \A j \in 1..(k - 1) : a[j] = s[j]
  BY <1>1, <1>3
<1>7. Len(b) = Len(s) - k /\ \A j \in 1..(Len(s) - k) : b[j] = s[k + j]
  BY <1>1, <1>5
<1>8. RemoveAt(s, k) = a \o b
  BY DEF RemoveAt, a, b
<1>9. /\ a \o b \in Seq(S) /\ Len(a \o b) = Len(a) + Len(b)
      /\ \A j \in 1..(Len(a) + Len(b)) :
           (a \o b)[j] = IF j <= Len(a) THEN a[j] ELSE b[j - Len(a)]
  BY <1>3, <1>5, ConcatProperties, Zenon
<1>10. Len(a) + Len(b) = Len(s) - 1
  BY <1>1, <1>6, <1>7
<1>11. DOMAIN (a \o b) = 1..(Len(s) - 1)
  BY <1>9, <1>10
<1>12. ASSUME NEW j \in 1..(Len(s) - 1)
       PROVE  (a \o b)[j] = IF j < k THEN s[j] ELSE s[j + 1]
  <2>1. (a \o b)[j] = IF j <= k - 1 THEN a[j] ELSE b[j - (k - 1)]
    BY <1>6, <1>9, <1>10
  <2>2. CASE j < k
    BY <1>1, <1>6, <2>1, <2>2
  <2>3. CASE ~(j < k)
    <3>1. j - (k - 1) \in 1..(Len(s) - k) /\ k + (j - (k - 1)) = j + 1 /\ ~(j <= k - 1)
      BY <1>1, <2>3
    <3>2. b[j - (k - 1)] = s[k + (j - (k - 1))]
      BY <1>7, <3>1, Zenon
    <3> QED
      BY <2>1, <2>3, <3>1, <3>2
  <2> QED
    BY <2>2, <2>3
<1> QED
  BY <1>8, <1>9, <1>11, <1>12

LEMMA TimesOut ==
    ASSUME IInv, NEW m \in MessageIds, SendTimesOut(m)
    PROVE  ReceiverOK' /\ LockOK' /\ OutcomeOK' /\ OfferOK' /\ HandOK' /\ LogOK'
<1> USE DEF IInv
<1>1. PICK k \in DOMAIN inbox : inbox[k] = m /\ inbox' = RemoveAt(inbox, k)
  BY DEF SendTimesOut
<1>2. /\ outcome[m] = "offered" /\ outcome' = [outcome EXCEPT ![m] = "undelivered"]
      /\ UNCHANGED <<worker, receiver, hand, log>>
  BY <1>1 DEF SendTimesOut, poolVars, OfferOK
<1>3. ReceiverOK' /\ LockOK' /\ OutcomeOK' /\ HandOK' /\ LogOK'
  BY <1>2 DEF ReceiverOK, LockOK, HasLock, OutcomeOK, HandOK, LogOK
<1>4. inbox \in Seq(MessageIds) /\ k \in 1..Len(inbox) /\ Len(inbox) \in Nat
  BY DEF OfferOK
<1>5. /\ inbox' \in Seq(MessageIds) /\ DOMAIN inbox' = 1..(Len(inbox) - 1)
      /\ \A j \in 1..(Len(inbox) - 1) :
           inbox'[j] = IF j < k THEN inbox[j] ELSE inbox[j + 1]
  BY <1>1, <1>4, RemoveAtProperties
<1> DEFINE place(j) == IF j < k THEN j ELSE j + 1
<1>6. \A j \in 1..(Len(inbox) - 1) : place(j) \in DOMAIN inbox /\ place(j) # k
  BY <1>4
<1>7. \A i, j \in 1..(Len(inbox) - 1) : place(i) = place(j) => i = j
  BY <1>4
<1>a. \A j \in 1..(Len(inbox) - 1) : inbox'[j] = inbox[place(j)]
  BY <1>5
<1> HIDE DEF place
<1>b. \A i \in DOMAIN inbox : outcome[inbox[i]] = "offered" /\ inbox[i] \in MessageIds
  BY DEF OfferOK
<1>c. \A i, j \in DOMAIN inbox : inbox[i] = inbox[j] => i = j
  BY DEF OfferOK
<1>8. \A j \in DOMAIN inbox' : outcome'[inbox'[j]] = "offered"
  <2> SUFFICES ASSUME NEW j \in 1..(Len(inbox) - 1)
               PROVE  outcome'[inbox[place(j)]] = "offered"
    BY <1>5, <1>a
  <2>1. inbox[place(j)] # m
    BY <1>1, <1>6, <1>c
  <2> QED
    BY <1>2, <1>6, <1>b, <2>1 DEF OutcomeOK
<1>9. \A i, j \in DOMAIN inbox' : inbox'[i] = inbox'[j] => i = j
  <2>1. \A i, j \in 1..(Len(inbox) - 1) : inbox[place(i)] = inbox[place(j)] => i = j
    BY <1>6, <1>7, <1>c
  <2>2. \A i, j \in 1..(Len(inbox) - 1) : inbox'[i] = inbox'[j] => i = j
    BY <1>a, <2>1
  <2> QED
    BY <1>5, <2>2
<1> QED
  BY <1>3, <1>5, <1>8, <1>9 DEF OfferOK

LEMMA Unloads ==
    ASSUME IInv, DriverUnloads
    PROVE  ReceiverOK' /\ LockOK' /\ OutcomeOK' /\ OfferOK' /\ HandOK' /\ LogOK'
<1> USE DEF IInv
<1>1. /\ inbox' = <<>> /\ UNCHANGED <<worker, receiver, hand, log>>
      /\ outcome' = [m \in MessageIds |-> IF outcome[m] = "offered" THEN "undelivered"
                                          ELSE outcome[m]]
  BY DEF DriverUnloads, poolVars
<1>2. ReceiverOK' /\ LockOK' /\ OutcomeOK' /\ OfferOK'
  BY <1>1 DEF ReceiverOK, LockOK, HasLock, OutcomeOK, OfferOK
<1>3. HandOK' /\ LogOK'
  BY <1>1 DEF HandOK, LogOK, OutcomeOK
<1> QED
  BY <1>2, <1>3

LEMMA Ends ==
    ASSUME IInv, ProcessEnds
    PROVE  ReceiverOK' /\ LockOK' /\ OutcomeOK' /\ OfferOK' /\ HandOK' /\ LogOK'
<1> USE DEF IInv, NoMessage
<1>1. /\ inbox' = <<>> /\ UNCHANGED log
      /\ receiver' = [t \in Threads |-> "none"] /\ hand' = [t \in Threads |-> NoMessage]
      /\ outcome' = [m \in MessageIds |-> CASE m \in InHand -> "lost"
                                            [] outcome[m] = "offered" -> "undelivered"
                                            [] OTHER -> outcome[m]]
  BY DEF ProcessEnds
<1>2. \A m \in MessageIds : outcome[m] = "received" <=> m \in InHand
  BY DEF HandOK, InHand
<1>3. \A m \in MessageIds :
        outcome'[m] = IF outcome[m] = "received" THEN "lost"
                      ELSE IF outcome[m] = "offered" THEN "undelivered" ELSE outcome[m]
  BY <1>1, <1>2
<1>4. outcome' \in [MessageIds -> {"unsent", "offered", "undelivered", "received",
                                   "logged", "unwritten", "shared", "lost"}]
  <2>1. DOMAIN outcome' = MessageIds /\ outcome' = [m \in MessageIds |-> outcome'[m]]
    BY <1>1
  <2> QED
    BY <1>3, <2>1 DEF OutcomeOK
<1>5. ReceiverOK' /\ LockOK' /\ OfferOK'
  BY <1>1 DEF ReceiverOK, LockOK, HasLock, OfferOK
<1>6. HandOK'
  BY <1>1, <1>3 DEF HandOK
<1>7. LogOK'
  BY <1>1, <1>3 DEF LogOK
<1> QED
  BY <1>4, <1>5, <1>6, <1>7 DEF OutcomeOK

LEMMA IStep == IInv /\ [Next]_vars => IInv'
<1> SUFFICES ASSUME IInv, [Next]_vars PROVE IInv'
  OBVIOUS
<1>1. PInv'
  BY PStep DEF IInv
<1>2. ReceiverOK' /\ LockOK' /\ OutcomeOK' /\ OfferOK' /\ HandOK' /\ LogOK'
  <2>1. CASE \/ Connect \/ TpInit \/ TpInitSucceeds \/ EnqueueLoopEnds
             \/ \E i \in Items : AllocateItem(i) \/ EnqueueStep(i)
             \/ \E t \in Threads : PoolStep(t)
             \/ SendCustomMessageToDriver
    BY <2>1, MainSteps, MessagesUnchanged
  <2>2. ASSUME NEW t \in Threads, GetWorker(t)
        PROVE  ReceiverOK' /\ LockOK' /\ OutcomeOK' /\ OfferOK' /\ HandOK' /\ LogOK'
    BY <2>2, EnterLeave, Receive, LogSteps DEF GetWorker
  <2>3. CASE FltSendMessage \/ DriverUnloads \/ \E m \in MessageIds : SendTimesOut(m)
    BY <2>3, Offer, Unloads, TimesOut
  <2>4. CASE ProcessEnds
    BY <2>4, Ends
  <2>5. CASE UNCHANGED vars
    BY <2>5, MessagesUnchanged DEF vars, poolVars, clientVars, messageVars
  <2> QED
    BY <2>1, <2>2, <2>3, <2>4, <2>5 DEF Next, MainStep, TpInitFails, Kill
<1> QED
  BY <1>1, <1>2 DEF IInv

\* Every message FltSendMessage reported delivered is logged once, in one hand, or
\* given up; and no GetWorker finds output.log open (ConsoleApplication1.cpp:942).
THEOREM AccountedCorrect == Spec => []Accounted
<1>1. IInv => Accounted
  BY DEF IInv, HandOK, LogOK, Accounted, Logged, InHand, NoMessage
<1> QED
  BY InitIInv, IStep, <1>1, PTL DEF Spec
-----------------------------------------------------------------------------
(***************************************************************************)
(* The types                                                               *)
(***************************************************************************)
ConsoleOK == console \in BOOLEAN

ConnectionOK ==
    /\ starts \in 0..Clients
    /\ driver \in {"quiet", "monitoring", "unloaded"}
    /\ PortOK

SendersOK == Len(inbox) <= Senders

LEMMA ConsoleStep == ConsoleOK /\ [Next]_vars => ConsoleOK'
  BY Zenon
  DEF ConsoleOK, Next, MainStep, Connect, TpInit, TpInitSucceeds, TpInitFails, Kill,
      ProcessEnds, EnqueueLoopEnds, AllocateItem, EnqueueStep, PoolStep, GetWorker,
      ListRemoveTail, GetMessageFails, FilterGetMessage, LockLog, CreateFileA, Unwritten,
      WriteLog, WriteFails, UnlockLog, SendCustomMessageToDriver, FltSendMessage,
      SendTimesOut, DriverUnloads, vars, clientVars

LEMMA ConnectionStep == PInv /\ ConnectionOK /\ [Next]_vars => ConnectionOK'
<1> SUFFICES ASSUME PInv, ConnectionOK, [Next]_vars PROVE ConnectionOK'
  OBVIOUS
<1> USE ClientsAssumption DEF ConnectionOK, PortOK
<1>1. CASE Connect \/ ProcessEnds
  BY <1>1 DEF Connect, ProcessEnds
<1>2. CASE TpInitSucceeds \/ EnqueueLoopEnds
  BY <1>2 DEF TpInitSucceeds, EnqueueLoopEnds
<1>3. CASE SendCustomMessageToDriver \/ DriverUnloads
  BY <1>3 DEF SendCustomMessageToDriver, DriverUnloads
<1>4. CASE UNCHANGED <<starts, driver, port, main>>
  BY <1>4
<1> QED
  BY <1>1, <1>2, <1>3, <1>4
  DEF Next, MainStep, TpInit, TpInitFails, Kill, AllocateItem, EnqueueStep, PoolStep,
      GetWorker, ListRemoveTail, GetMessageFails, FilterGetMessage, LockLog, CreateFileA,
      Unwritten, WriteLog, WriteFails, UnlockLog, FltSendMessage, SendTimesOut, vars, clientVars

LEMMA SendersStep == IInv /\ SendersOK /\ [Next]_vars => SendersOK'
<1> SUFFICES ASSUME IInv, SendersOK, [Next]_vars PROVE SendersOK'
  OBVIOUS
<1> USE SendersAssumption DEF SendersOK
<1>1. inbox \in Seq(MessageIds) /\ Len(inbox) \in Nat
  BY DEF IInv, OfferOK
<1>2. CASE FltSendMessage
  BY <1>1, <1>2 DEF FltSendMessage
<1>3. ASSUME NEW t \in Threads, FilterGetMessage(t)
      PROVE  SendersOK'
  BY <1>1, <1>3 DEF FilterGetMessage
<1>4. ASSUME NEW m \in MessageIds, SendTimesOut(m)
      PROVE  SendersOK'
  <2>1. PICK k \in 1..Len(inbox) : inbox' = RemoveAt(inbox, k)
    BY <1>1, <1>4 DEF SendTimesOut
  <2>2. inbox' \in Seq(MessageIds) /\ DOMAIN inbox' = 1..(Len(inbox) - 1)
    BY <1>1, <2>1, RemoveAtProperties
  <2>3. Len(inbox') = Len(inbox) - 1
    <3>1. DOMAIN inbox' = 1..Len(inbox') /\ Len(inbox') \in Nat
      BY <2>2
    <3> QED
      BY <1>1, <2>1, <2>2, <3>1
  <2> QED
    BY <1>1, <2>3
<1>5. CASE inbox' = <<>> \/ UNCHANGED inbox
  BY <1>5
<1>6. CASE TpInit \/ \E i \in Items : AllocateItem(i) \/ EnqueueStep(i)
  BY <1>5, <1>6, MainSteps DEF messageVars
<1> QED
  BY <1>2, <1>3, <1>4, <1>5, <1>6
  DEF Next, MainStep, Connect, TpInitSucceeds, TpInitFails, Kill, ProcessEnds,
      EnqueueLoopEnds, PoolStep, GetWorker, ListRemoveTail, GetMessageFails, LockLog,
      CreateFileA, Unwritten, WriteLog, WriteFails, UnlockLog, SendCustomMessageToDriver,
      DriverUnloads, vars, clientVars

\* The client's state is well typed; a thread has a message exactly between
\* FilterGetMessage and WriteFile, and at most Senders messages wait.
THEOREM TypeCorrect == Spec => []TypeOK
<1>1. Init => ConsoleOK
  BY Zenon DEF Init, ConsoleOK
<1>2. Init => ConnectionOK /\ SendersOK
  BY ClientsAssumption, SendersAssumption DEF Init, ConnectionOK, PortOK, SendersOK
<1>3. IInv => PInv
  BY DEF IInv
<1>4. IInv /\ ConsoleOK /\ ConnectionOK /\ SendersOK => TypeOK
  BY DEF IInv, PInv, PoolOK, ConsoleOK, ConnectionOK, SendersOK, OutcomeOK, OfferOK, LogOK,
         ReceiverOK, ReceiversOK, TypeOK
<1> QED
  BY InitIInv, IStep, ConsoleStep, ConnectionStep, SendersStep, <1>1, <1>2, <1>3, <1>4, PTL
  DEF Spec
=============================================================================
