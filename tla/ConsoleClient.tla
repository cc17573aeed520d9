--------------------------- MODULE ConsoleClient ---------------------------
(***************************************************************************)
(* The console client of FilterDriver: main, GetWorker and                   *)
(* CommunicationWithDriver of ConsoleApplication1.cpp, over its thread pool  *)
(* (UserThreadPool, whose actions are taken as they are).                   *)
(*                                                                         *)
(* main connects, starts the pool, queues as many GetWorker items as there  *)
(* are threads and waits for the threads.  Each GetWorker takes messages    *)
(* from the port and appends them to output.log until the port is lost.     *)
(* Around the client: the driver (its SendWorker threads, the command it    *)
(* obeys, its unload), the user who may end the process at any time and     *)
(* start it again, and other programs that may hold output.log.             *)
(***************************************************************************)
EXTENDS Integers, Sequences, FiniteSets, SequencesExt

CONSTANTS
    MaxThreads,     \* threads and GetWorker items: 5 in main
    Messages,       \* bound: how many messages the driver sends, one after another
    Senders,        \* calls of FltSendMessage in progress at once
    Clients         \* bound: how often the client is started

ASSUME MaxThreadsAssumption == MaxThreads \in Nat \ {0}
ASSUME MessagesAssumption == Messages \in Nat
ASSUME SendersAssumption == Senders \in Nat \ {0}
ASSUME ClientsAssumption == Clients \in Nat

NoMessage == 0
Items == 1..MaxThreads
NoItem == 0

VARIABLES stopEvent, workEvent, queue, queueLock, wanted, threadHandles, worker,
          holds, call, owner, index, after, executed    \* of UserThreadPool

VARIABLES
    main,           \* main: "off" (no process), "init", "enqueue" or "wait"
    starts,         \* how often the client was started
    console,        \* whether the thread of CommunicationWithDriver exists
    port,           \* the client's port: "none", "open" or "lost"
    driver,         \* "quiet", "monitoring" or "unloaded"
    inbox,          \* messages FltSendMessage waits with, oldest first
    outcome,        \* message -> what became of it
    receiver,       \* thread -> where it is in GetWorker
    hand,           \* thread -> the message in its msg, or NoMessage
    log             \* output.log

Pool == INSTANCE UserThreadPool

poolVars == <<stopEvent, workEvent, queue, queueLock, wanted, threadHandles, worker,
              holds, call, owner, index, after, executed>>
clientVars == <<main, starts, console, port, driver, inbox, outcome, receiver, hand, log>>
vars == <<poolVars, clientVars>>

Threads == Pool!Threads
MessageIds == 1..Messages
Sent == {m \in MessageIds : outcome[m] # "unsent"}
Logged == {log[k] : k \in DOMAIN log}
InHand == {hand[t] : t \in Threads} \ {NoMessage}
HasLock(t) == receiver[t] \in {"locked", "open", "written"}
HasLogOpen(t) == receiver[t] \in {"open", "written"}
SettledCalls == {i \in Items : call[i] \in {"returned", "refused"}}

Init ==
    /\ Pool!Init
    /\ main = "off"
    /\ starts = 0
    /\ console = FALSE
    /\ port = "none"
    /\ driver = "quiet"
    /\ inbox = <<>>
    /\ outcome = [m \in MessageIds |-> "unsent"]
    /\ receiver = [t \in Threads |-> "none"]
    /\ hand = [t \in Threads |-> NoMessage]
    /\ log = <<>>
-----------------------------------------------------------------------------
(***************************************************************************)
(* Slips a change of this code could make; none is a step of the client.    *)
(***************************************************************************)
\* main does not wait for the threads before TpUninit.
EnqueueLoopEndsNoWait ==
    /\ main = "enqueue"
    /\ SettledCalls = Items
    /\ main' = "wait"
    /\ Pool!TpUninit
    /\ UNCHANGED <<starts, console, port, driver, inbox, outcome, receiver, hand, log>>

\* TpEnqueueWorkItem sets the event before it inserts the item.
EnqueueStepSignalsFirst(i) ==
    /\ \/ /\ call[i] = "allocated"
          /\ workEvent' = "set"
          /\ call' = [call EXCEPT ![i] = "inserted"]
          /\ UNCHANGED queue
       \/ /\ call[i] = "inserted"
          /\ ~queueLock
          /\ queue' = Append(queue, i)
          /\ call' = [call EXCEPT ![i] = "returned"]
          /\ UNCHANGED workEvent
    /\ UNCHANGED <<stopEvent, queueLock, wanted, threadHandles, worker, holds, owner,
                   index, after, executed, clientVars>>

\* One static msg for all GetWorkers.
FilterGetMessageShared(t) ==
    /\ receiver[t] = "get"
    /\ port = "open"
    /\ inbox # <<>>
    /\ hand' = [u \in Threads |-> IF u = t \/ hand[u] # NoMessage THEN Head(inbox) ELSE NoMessage]
    /\ inbox' = Tail(inbox)
    /\ outcome' = [outcome EXCEPT ![Head(inbox)] = "received"]
    /\ receiver' = [receiver EXCEPT ![t] = "received"]
    /\ UNCHANGED <<poolVars, main, starts, console, port, driver, log>>

\* GetWorker tries again when FilterGetMessage fails.
GetMessageFailsAndRetries(t) ==
    /\ receiver[t] = "get"
    /\ port = "lost"
    /\ UNCHANGED vars

\* No ReleaseSRWLockExclusive: the thread stays where it has the lock.
UnlockLogForgotten(t) ==
    /\ receiver[t] = "written"
    /\ UNCHANGED vars
-----------------------------------------------------------------------------
(***************************************************************************)
(* main                                                                    *)
(***************************************************************************)
\* Connected; the result of CreateThread is not looked at.
Connect ==
    /\ main = "off"
    /\ starts < Clients
    /\ driver # "unloaded"
    /\ main' = "init"
    /\ starts' = starts + 1
    /\ port' = "open"
    /\ console' \in BOOLEAN
    /\ UNCHANGED <<poolVars, driver, inbox, outcome, receiver, hand, log>>

TpInit ==
    /\ main = "init"
    /\ \/ owner = "idle" /\ (Pool!TpInit(MaxThreads) \/ Pool!TpInitFails)
       \/ Pool!CreateThread
       \/ Pool!CreateThreadFails
       \/ Pool!UninitStep
    /\ UNCHANGED clientVars

TpInitSucceeds ==
    /\ main = "init"
    /\ owner = "ready"
    /\ main' = "enqueue"
    /\ UNCHANGED <<poolVars, starts, console, port, driver, inbox, outcome, receiver, hand, log>>

\* The loop over TpEnqueueWorkItem, one call after the other.
AllocateItem(i) ==
    /\ main = "enqueue"
    /\ 1..(i - 1) \subseteq SettledCalls
    /\ Pool!AllocateItem(i)
    /\ UNCHANGED clientVars

EnqueueStep(i) ==
    /\ Pool!CallStep(i)
    /\ UNCHANGED clientVars

\* WaitForMultipleObjects on every thread, without a time-out.
EnqueueLoopEnds ==
    /\ main = "enqueue"
    /\ SettledCalls = Items
    /\ main' = "wait"
    /\ UNCHANGED <<poolVars, starts, console, port, driver, inbox, outcome, receiver, hand, log>>

\* The process is gone with its threads and what they had in hand; its port
\* is closed, so FltSendMessage fails for the messages it waits with.
ProcessEnds ==
    /\ main' = "off"
    /\ port' = "none"
    /\ console' = FALSE
    /\ inbox' = <<>>
    /\ outcome' = [m \in MessageIds |->
                     CASE m \in InHand -> "lost"
                       [] outcome[m] = "offered" -> "undelivered"
                       [] OTHER -> outcome[m]]
    /\ receiver' = [t \in Threads |-> "none"]
    /\ hand' = [t \in Threads |-> NoMessage]
    /\ stopEvent' = "null" /\ workEvent' = "null"
    /\ queue' = <<>> /\ queueLock' = FALSE
    /\ executed' = [i \in Items |-> 0]
    /\ wanted' = 0 /\ threadHandles' = 0
    /\ worker' = [t \in Threads |-> "none"]
    /\ holds' = [t \in Threads |-> NoItem]
    /\ call' = [i \in Items |-> "idle"]
    /\ owner' = "idle" /\ index' = 1 /\ after' = "dead"
    /\ UNCHANGED <<starts, driver, log>>

TpInitFails == main = "init" /\ owner = "failed" /\ ProcessEnds

\* The user closes the console, or kills the process, at any time.
Kill == main # "off" /\ ProcessEnds
-----------------------------------------------------------------------------
(***************************************************************************)
(* The pool's threads, and GetWorker                                       *)
(***************************************************************************)
PoolStep(t) ==
    /\ Pool!WaitStop(t) \/ Pool!WaitWork(t)
    /\ UNCHANGED clientVars

\* The thread finds an item and enters GetWorker, or goes back to wait.
ListRemoveTail(t) ==
    /\ Pool!ListRemoveTail(t)
    /\ receiver' = [receiver EXCEPT ![t] = IF queue = <<>> THEN "none" ELSE "get"]
    /\ UNCHANGED <<main, starts, console, port, driver, inbox, outcome, hand, log>>

FilterGetMessage(t) ==
    /\ receiver[t] = "get"
    /\ port = "open"
    /\ inbox # <<>>
    /\ hand' = [hand EXCEPT ![t] = Head(inbox)]
    /\ inbox' = Tail(inbox)
    /\ outcome' = [outcome EXCEPT ![Head(inbox)] = "received"]
    /\ receiver' = [receiver EXCEPT ![t] = "received"]
    /\ UNCHANGED <<poolVars, main, starts, console, port, driver, log>>

\* FilterGetMessage fails, GetWorker returns and the item is freed.
GetMessageFails(t) ==
    /\ receiver[t] = "get"
    /\ port = "lost"
    /\ receiver' = [receiver EXCEPT ![t] = "none"]
    /\ Pool!RunItem(t)
    /\ UNCHANGED <<main, starts, console, port, driver, inbox, outcome, hand, log>>

LockLog(t) ==
    /\ receiver[t] = "received"
    /\ \A u \in Threads : ~HasLock(u)
    /\ receiver' = [receiver EXCEPT ![t] = "locked"]
    /\ UNCHANGED <<poolVars, main, starts, console, port, driver, inbox, outcome, hand, log>>

\* WriteFile to a handle that could not be had, or that fails, prints an error.
Unwritten(t, why) ==
    /\ outcome' = [outcome EXCEPT ![hand[t]] = why]
    /\ hand' = [hand EXCEPT ![t] = NoMessage]
    /\ receiver' = [receiver EXCEPT ![t] = "written"]
    /\ UNCHANGED <<poolVars, main, starts, console, port, driver, inbox, log>>

\* CreateFileA lets no one else write: it fails while another GetWorker has
\* output.log open, and may fail for a reason outside the client.
CreateFileA(t) ==
    /\ receiver[t] = "locked"
    /\ IF \E u \in Threads : HasLogOpen(u)
       THEN Unwritten(t, "shared")
       ELSE \/ Unwritten(t, "unwritten")
            \/ /\ receiver' = [receiver EXCEPT ![t] = "open"]
               /\ UNCHANGED <<poolVars, main, starts, console, port, driver, inbox,
                              outcome, hand, log>>

\* SetFilePointer to the end, and WriteFile.
WriteLog(t) ==
    /\ receiver[t] = "open"
    /\ log' = Append(log, hand[t])
    /\ outcome' = [outcome EXCEPT ![hand[t]] = "logged"]
    /\ hand' = [hand EXCEPT ![t] = NoMessage]
    /\ receiver' = [receiver EXCEPT ![t] = "written"]
    /\ UNCHANGED <<poolVars, main, starts, console, port, driver, inbox>>

WriteFails(t) == receiver[t] = "open" /\ Unwritten(t, "unwritten")

\* CloseHandle, ReleaseSRWLockExclusive, and FilterGetMessage again.
UnlockLog(t) ==
    /\ receiver[t] = "written"
    /\ receiver' = [receiver EXCEPT ![t] = "get"]
    /\ UNCHANGED <<poolVars, main, starts, console, port, driver, inbox, outcome, hand, log>>
-----------------------------------------------------------------------------
(***************************************************************************)
(* CommunicationWithDriver, and the driver at the other end                *)
(***************************************************************************)
\* A command the driver understands switches its monitoring on or off.
SendCustomMessageToDriver ==
    /\ console
    /\ port = "open"
    /\ driver' = IF driver = "quiet" THEN "monitoring" ELSE "quiet"
    /\ UNCHANGED <<poolVars, main, starts, console, port, inbox, outcome, receiver, hand, log>>

\* SendWorker: what the client itself does to output.log is among the events.
FltSendMessage ==
    /\ driver = "monitoring"
    /\ port = "open"
    /\ Len(inbox) < Senders
    /\ \E m \in MessageIds \ Sent :
         /\ 1..(m - 1) \subseteq Sent
         /\ inbox' = Append(inbox, m)
         /\ outcome' = [outcome EXCEPT ![m] = "offered"]
    /\ UNCHANGED <<poolVars, main, starts, console, port, driver, receiver, hand, log>>

\* FltSendMessage waits for a second.
SendTimesOut(m) ==
    /\ \E k \in DOMAIN inbox : inbox[k] = m /\ inbox' = RemoveAt(inbox, k)
    /\ outcome' = [outcome EXCEPT ![m] = "undelivered"]
    /\ UNCHANGED <<poolVars, main, starts, console, port, driver, receiver, hand, log>>

DriverUnloads ==
    /\ driver # "unloaded"
    /\ driver' = "unloaded"
    /\ port' = IF port = "open" THEN "lost" ELSE port
    /\ inbox' = <<>>
    /\ outcome' = [m \in MessageIds |-> IF outcome[m] = "offered" THEN "undelivered" ELSE outcome[m]]
    /\ UNCHANGED <<poolVars, main, starts, console, receiver, hand, log>>
-----------------------------------------------------------------------------
MainStep ==
    \/ TpInit \/ TpInitSucceeds \/ TpInitFails \/ EnqueueLoopEnds
    \/ \E i \in Items : AllocateItem(i) \/ EnqueueStep(i)

GetWorker(t) ==
    \/ ListRemoveTail(t)
    \/ FilterGetMessage(t) \/ GetMessageFails(t)
    \/ LockLog(t) \/ CreateFileA(t) \/ WriteLog(t) \/ WriteFails(t) \/ UnlockLog(t)

Next ==
    \/ Connect \/ MainStep \/ Kill
    \/ \E t \in Threads : PoolStep(t) \/ GetWorker(t)
    \/ SendCustomMessageToDriver \/ FltSendMessage \/ DriverUnloads
    \/ \E m \in MessageIds : SendTimesOut(m)

Spec == Init /\ [][Next]_vars

\* The process's threads are scheduled, and FltSendMessage's second passes.
FairSpec ==
    /\ Spec
    /\ WF_vars(MainStep)
    /\ \A t \in Threads : WF_vars(PoolStep(t) \/ GetWorker(t))
    /\ \A m \in MessageIds : WF_vars(SendTimesOut(m))
-----------------------------------------------------------------------------
(***************************************************************************)
(* Properties                                                              *)
(***************************************************************************)
PortOK == port \in {"none", "open", "lost"} /\ (main = "off" <=> port = "none")

ReceiversOK ==
    /\ receiver \in [Threads -> {"none", "get", "received", "locked", "open", "written"}]
    /\ hand \in [Threads -> MessageIds \cup {NoMessage}]
    /\ \A t \in Threads : receiver[t] # "none" => worker[t] = "running"
    /\ \A t \in Threads : hand[t] # NoMessage <=> receiver[t] \in {"received", "locked", "open"}

\* The types; a thread is in GetWorker only while it runs an item of the pool,
\* and has a message exactly between FilterGetMessage and WriteFile.
TypeOK ==
    /\ main \in {"off", "init", "enqueue", "wait"}
    /\ starts \in 0..Clients
    /\ console \in BOOLEAN
    /\ driver \in {"quiet", "monitoring", "unloaded"}
    /\ inbox \in Seq(MessageIds) /\ Len(inbox) <= Senders
    /\ outcome \in [MessageIds -> {"unsent", "offered", "undelivered", "received",
                                   "logged", "unwritten", "shared", "lost"}]
    /\ log \in Seq(MessageIds)
    /\ PortOK
    /\ ReceiversOK

\* A message that FltSendMessage reported delivered is in the log once, or in the
\* hand of exactly one GetWorker, or was given up with an error or a dead process.
\* Never because two GetWorkers had output.log open: fLock is held from before
\* CreateFileA (ConsoleApplication1.cpp:942) until after CloseHandle.
Accounted ==
    /\ \A m \in MessageIds :
         /\ outcome[m] = "logged" <=> m \in Logged
         /\ outcome[m] = "received" <=> m \in InHand
    /\ \A m \in MessageIds : outcome[m] # "shared"
    /\ \A j, k \in DOMAIN log : log[j] = log[k] => j = k
    /\ \A t, u \in Threads : hand[t] = hand[u] /\ hand[t] # NoMessage => t = u

\* main never gets past WaitForMultipleObjects (ConsoleApplication1.cpp:1032): the
\* threads leave on the stop event, which only the TpUninit behind the wait sets.
\* TpUninit and CloseHandle(port) are never called; only the end of the process ends it.
WaitsForEver ==
    main = "wait" =>
        /\ stopEvent = "reset" /\ owner = "ready"
        /\ \A t \in Threads : worker[t] \in {"waiting", "draining", "running"}

\* With one accepted item or more some thread comes to receive.  One, not five:
\* items whose signals coalesced stay in the queue behind a GetWorker.
SomeoneReceives ==
    (main = "wait" /\ Pool!Accepted # {}) ~>
        (main = "off" \/ port = "lost" \/ \E t \in Threads : receiver[t] # "none")

\* What a GetWorker has taken is logged or given up: fLock is passed on by each.
HandedIsSettled ==
    \A m \in MessageIds : outcome[m] = "received" ~> outcome[m] \in {"logged", "unwritten", "shared", "lost"}

\* When the driver is gone every GetWorker returns, those still queued too, and all
\* threads go back to sleep, with main still waiting for them.
LostPortEndsReceivers ==
    (main = "wait" /\ port = "lost") ~>
        (main = "off" \/ (queue = <<>> /\ \A t \in Threads : worker[t] = "waiting"))
=============================================================================
