------------------------ MODULE UserThreadPoolProofs ------------------------
(***************************************************************************)
(* What TLAPS proves of UserThreadPool, for any number of threads and items, *)
(* restarts and creation failures.                                         *)
(*                                                                         *)
(* Layers of the inductive invariant: types (TypeInv), who is alive and what *)
(* exists while the owner is where (ThreadsInv), where each item is          *)
(* (ItemsInv).  The third holds until TpUninit takes an item from the list:  *)
(* from there it does not return.                                          *)
(***************************************************************************)
EXTENDS UserThreadPool, TLAPS
-----------------------------------------------------------------------------
(***************************************************************************)
(* The queue as a set: what removing the oldest item and inserting one do   *)
(* to its elements.                                                        *)
(***************************************************************************)
Elements(s) == {s[k] : k \in DOMAIN s}
NoRepeat(s) == \A j, k \in DOMAIN s : s[j] = s[k] => j = k

\* Removing the oldest takes one element and, without repetitions, every copy of it.
LEMMA TailElements ==
    ASSUME NEW S, NEW s \in Seq(S), s # <<>>, NoRepeat(s)
    PROVE  /\ Elements(s) = {Head(s)} \cup Elements(Tail(s))
           /\ Head(s) \notin Elements(Tail(s))
           /\ NoRepeat(Tail(s))
<1>1. Len(s) \in Nat \ {0} /\ DOMAIN s = 1..Len(s)
  OBVIOUS
<1>2. DOMAIN Tail(s) = 1..(Len(s) - 1) /\ Head(s) = s[1]
  OBVIOUS
<1>3. \A k \in 1..(Len(s) - 1) : Tail(s)[k] = s[k + 1]
  OBVIOUS
<1>4. Elements(Tail(s)) \subseteq Elements(s)
  BY <1>1, <1>2, <1>3 DEF Elements
<1>5. Elements(s) \subseteq {Head(s)} \cup Elements(Tail(s))
  <2> SUFFICES ASSUME NEW k \in 1..Len(s), s[k] # Head(s)
               PROVE  s[k] \in Elements(Tail(s))
    BY <1>1, Zenon DEF Elements
  <2>1. k - 1 \in 1..(Len(s) - 1) /\ (k - 1) + 1 = k
    BY <1>1, <1>2
  <2>2. s[k] = Tail(s)[k - 1]
    BY <2>1, <1>3
  <2> QED
    BY <2>1, <2>2, <1>2, Zenon DEF Elements
<1>6. Head(s) \in Elements(s)
  BY <1>1, <1>2 DEF Elements
<1>7. Head(s) \notin Elements(Tail(s))
  <2> SUFFICES ASSUME NEW k \in 1..(Len(s) - 1), s[k + 1] = s[1] PROVE FALSE
    BY <1>2, <1>3 DEF Elements
  <2> QED
    BY <1>1 DEF NoRepeat
<1>8. NoRepeat(Tail(s))
  <2> SUFFICES ASSUME NEW j \in 1..(Len(s) - 1), NEW k \in 1..(Len(s) - 1),
                      s[j + 1] = s[k + 1]
               PROVE  j = k
    BY <1>2, <1>3 DEF NoRepeat
  <2> QED
    BY <1>1 DEF NoRepeat
<1> QED
  BY <1>4, <1>5, <1>6, <1>7, <1>8

\* Inserting an item that is not in the list.
LEMMA AppendElements ==
    ASSUME NEW S, NEW s \in Seq(S), NoRepeat(s), NEW e \in S, e \notin Elements(s)
    PROVE  /\ Elements(Append(s, e)) = Elements(s) \cup {e}
           /\ NoRepeat(Append(s, e))
<1> DEFINE t == Append(s, e)
<1>1. Len(s) \in Nat /\ DOMAIN s = 1..Len(s) /\ DOMAIN t = 1..(Len(s) + 1)
  OBVIOUS
<1>2. t[Len(s) + 1] = e /\ \A k \in 1..Len(s) : t[k] = s[k]
  OBVIOUS
<1>3. \A k \in 1..(Len(s) + 1) : k = Len(s) + 1 \/ k \in 1..Len(s)
  BY <1>1
<1>4. Len(s) + 1 \in 1..(Len(s) + 1) /\ \A k \in 1..Len(s) : k \in 1..(Len(s) + 1)
  BY <1>1
<1> HIDE DEF t
<1>5. Elements(t) = Elements(s) \cup {e}
  BY <1>1, <1>2, <1>3, <1>4 DEF Elements
<1>6. NoRepeat(t)
  BY <1>1, <1>2, <1>3 DEF NoRepeat, Elements
<1> QED
  BY <1>5, <1>6 DEF t

-----------------------------------------------------------------------------

USE MaxThreadsAssumption, NoItemAssumption

Alive(t) == worker[t] \in {"waiting", "draining", "running"}
Closed == owner \in {"idle", "failed", "dead"}
TookItem == owner \in {"call", "crashed", "waitsForItself"}
Executed == {i \in Items : executed[i] > 0}
InPool == Queued \cup Held

TypeInv ==
    /\ TypeOK
    /\ owner = "create" => threadHandles < wanted

LiveHasHandle ==
    \A t \in Threads : Alive(t) =>
        /\ owner \in {"create", "ready", "join"}
        /\ t <= threadHandles
        /\ owner = "join" => index <= t
        /\ stopEvent # "null" /\ workEvent # "null"

RunningHolds == \A t \in Threads : worker[t] = "running" <=> holds[t] # NoItem

OwnerPlace ==
    /\ owner \in {"create", "ready"} => stopEvent # "null" /\ workEvent # "null"
    /\ Closed => stopEvent = "null" /\ workEvent = "null"
    /\ queueLock => TookItem
    /\ owner = "acquire" => queue # <<>>
    /\ owner # "ready" => \A i \in Items : call[i] \notin {"allocated", "inserted"}

ThreadsInv == LiveHasHandle /\ RunningHolds /\ OwnerPlace

LEMMA InitTypeInv == Init => TypeInv
<1> SUFFICES ASSUME Init PROVE TypeInv
  OBVIOUS
<1> USE DEF Init
<1>1. EventsOK /\ CallsOK /\ WorkersOK
  BY DEF EventsOK, CallsOK, WorkersOK
<1>2. queue \in Seq(Items) /\ executed \in [Items -> Nat]
  OBVIOUS
<1>3. HandlesOK /\ OwnerOK
  BY DEF HandlesOK, OwnerOK
<1>4. QueueOK
  BY <1>2, Zenon DEF QueueOK
<1> QED
  BY <1>1, <1>3, <1>4 DEF TypeInv, TypeOK

LEMMA InitThreadsInv == Init => ThreadsInv
  BY DEF Init, ThreadsInv, LiveHasHandle, RunningHolds, OwnerPlace, Alive, Closed,
         TookItem

\* Each step keeps the types; DrainRemoveTail because the list is not empty.
LEMMA TypeStep == TypeInv /\ ThreadsInv /\ [Next]_vars => TypeInv'
<1> SUFFICES ASSUME TypeInv, ThreadsInv, [Next]_vars PROVE TypeInv'
  OBVIOUS
<1> USE DEF eventVars, queueVars, threadVars, ownerVars
<1>a. EventsOK /\ QueueOK /\ HandlesOK /\ WorkersOK /\ CallsOK /\ OwnerOK
  BY DEF TypeInv, TypeOK
<1>b. UNCHANGED eventVars => EventsOK'
  BY <1>a DEF EventsOK
<1>c. UNCHANGED queueVars => QueueOK'
  BY <1>a DEF QueueOK
<1>d. UNCHANGED <<wanted, threadHandles>> => HandlesOK'
  BY <1>a DEF HandlesOK
<1>e. UNCHANGED <<worker, holds>> => WorkersOK'
  BY <1>a DEF WorkersOK
<1>f. UNCHANGED call => CallsOK'
  BY <1>a DEF CallsOK
<1>g. UNCHANGED ownerVars => OwnerOK'
  BY <1>a DEF OwnerOK
<1>h. UNCHANGED <<owner, wanted, threadHandles>> =>
      (owner = "create" => threadHandles < wanted)'
  BY DEF TypeInv
<1> USE <1>a, <1>b, <1>c, <1>d, <1>e, <1>f, <1>g, <1>h DEF TypeInv, TypeOK
<1>1. ASSUME NEW t \in Threads, WaitStop(t) \/ WaitWork(t) PROVE TypeInv'
  <2>1. EventsOK' /\ WorkersOK'
    BY <1>1 DEF WaitStop, WaitWork, EventsOK, WorkersOK
  <2> QED
    BY <1>1, <2>1 DEF WaitStop, WaitWork
<1>2. ASSUME NEW t \in Threads, ListRemoveTail(t) PROVE TypeInv'
  <2>1. queue # <<>> => Head(queue) \in Items /\ Tail(queue) \in Seq(Items)
    BY DEF QueueOK
  <2>2. QueueOK' /\ WorkersOK'
    BY <1>2, <2>1 DEF ListRemoveTail, QueueOK, WorkersOK
  <2> QED
    BY <1>2, <2>2 DEF ListRemoveTail
<1>3. ASSUME NEW t \in Threads, RunItem(t) PROVE TypeInv'
  <2>1. QueueOK' /\ WorkersOK'
    BY <1>3 DEF RunItem, QueueOK, WorkersOK
  <2> QED
    BY <1>3, <2>1 DEF RunItem
<1>4. ASSUME NEW i \in Items, AllocateItem(i) \/ ListInsertHead(i) \/ SetWorkScheduled(i)
      PROVE  TypeInv'
  <2>1. EventsOK' /\ CallsOK'
    BY <1>4 DEF AllocateItem, ListInsertHead, SetWorkScheduled, EventsOK, CallsOK
  <2>2. CASE ListInsertHead(i)
    <3>1. QueueOK'
      BY <2>2 DEF ListInsertHead, QueueOK
    <3> QED
      BY <2>1, <2>2, <3>1 DEF ListInsertHead
  <2> QED
    BY <1>4, <2>1, <2>2 DEF AllocateItem, SetWorkScheduled
<1>5. CASE TpInitNoThreads
  <2>1. OwnerOK'
    BY <1>5 DEF TpInitNoThreads, OwnerOK
  <2> QED
    BY <1>5, <2>1 DEF TpInitNoThreads
<1>6. CASE TpInitFails
  <2>1. EventsOK'
    BY <1>6 DEF TpInitFails, EventsOK
  <2>2. QueueOK'
    <3>1. queue' \in Seq(Items) /\ executed' \in [Items -> Nat]
      BY <1>6 DEF TpInitFails, QueueOK
    <3> QED
      BY <1>6, <3>1, Zenon DEF TpInitFails, QueueOK
  <2>3. HandlesOK' /\ OwnerOK' /\ owner' = "join"
    BY <1>6 DEF TpInitFails, BeginUninit, HandlesOK, OwnerOK
  <2> QED
    BY <1>6, <2>1, <2>2, <2>3 DEF TpInitFails
<1>7. ASSUME NEW n \in Threads, TpInit(n) PROVE TypeInv'
  <2>1. EventsOK'
    BY <1>7 DEF TpInit, EventsOK
  <2>2. QueueOK'
    <3>1. queue' \in Seq(Items) /\ executed' \in [Items -> Nat]
      BY <1>7 DEF TpInit, QueueOK
    <3> QED
      BY <1>7, <3>1, Zenon DEF TpInit, QueueOK
  <2>3. HandlesOK' /\ OwnerOK' /\ (owner = "create" => threadHandles < wanted)'
    BY <1>7 DEF TpInit, HandlesOK, OwnerOK, Threads
  <2> QED
    BY <1>7, <2>1, <2>2, <2>3 DEF TpInit
<1>8. CASE CreateThread
  <2>1. threadHandles' = threadHandles + 1 /\ wanted' = wanted /\ threadHandles < wanted
    BY <1>8 DEF CreateThread
  <2>2. HandlesOK'
    BY <2>1 DEF HandlesOK
  <2>3. WorkersOK' /\ OwnerOK'
    BY <1>8 DEF CreateThread, WorkersOK, OwnerOK
  <2>4. (owner = "create" => threadHandles < wanted)'
    BY <1>8, <2>1, <2>2 DEF CreateThread, HandlesOK
  <2> QED
    BY <1>8, <2>2, <2>3, <2>4 DEF CreateThread
<1>9. CASE CreateThreadFails \/ TpUninit
  <2>1. EventsOK' /\ OwnerOK' /\ owner' = "join"
    BY <1>9 DEF CreateThreadFails, TpUninit, BeginUninit, EventsOK, OwnerOK
  <2> QED
    BY <1>9, <2>1 DEF CreateThreadFails, TpUninit
<1>10. CASE JoinThread
  <2>1. OwnerOK' /\ owner' = owner
    BY <1>10 DEF JoinThread, OwnerOK, HandlesOK
  <2> QED
    BY <1>10, <2>1 DEF JoinThread
<1>11. CASE FreeHandles
  <2>1. HandlesOK' /\ OwnerOK' /\ owner' = "drain"
    BY <1>11 DEF FreeHandles, HandlesOK, OwnerOK
  <2> QED
    BY <1>11, <2>1 DEF FreeHandles
<1>12. CASE DrainRemoveTail
  <2>1. Tail(queue) \in Seq(Items)
    BY <1>12 DEF DrainRemoveTail, ThreadsInv, OwnerPlace, QueueOK
  <2>2. QueueOK' /\ OwnerOK' /\ owner' = "call"
    BY <1>12, <2>1 DEF DrainRemoveTail, QueueOK, OwnerOK
  <2> QED
    BY <1>12, <2>2 DEF DrainRemoveTail
<1>13. CASE DrainIsListEmpty \/ DrainCallRoutine
  <2>1. OwnerOK' /\ owner' # "create"
    BY <1>13 DEF DrainIsListEmpty, DrainCallRoutine, OwnerOK
  <2> QED
    BY <1>13, <2>1 DEF DrainIsListEmpty, DrainCallRoutine
<1>14. CASE CloseEvents
  <2>1. EventsOK' /\ OwnerOK' /\ owner' # "create"
    BY <1>14 DEF CloseEvents, EventsOK, OwnerOK
  <2> QED
    BY <1>14, <2>1 DEF CloseEvents
<1>15. CASE UNCHANGED vars
  BY <1>15 DEF vars
<1> QED
  BY <1>1, <1>2, <1>3, <1>4, <1>5, <1>6, <1>7, <1>8, <1>9, <1>10, <1>11, <1>12,
     <1>13, <1>14, <1>15 DEF Next, WorkerStep, CallStep, UninitStep

\* Each step keeps threads, handles and events together.
LEMMA ThreadsStep == TypeInv /\ ThreadsInv /\ [Next]_vars => ThreadsInv'
<1> SUFFICES ASSUME TypeInv, ThreadsInv, [Next]_vars PROVE ThreadsInv'
  OBVIOUS
<1> USE DEF TypeInv, TypeOK, EventsOK, QueueOK, HandlesOK, WorkersOK, CallsOK, OwnerOK,
            ThreadsInv, LiveHasHandle, RunningHolds, OwnerPlace,
            Alive, Closed, TookItem, InFlight, eventVars, queueVars, threadVars, ownerVars
<1>1. ASSUME NEW t \in Threads, WaitStop(t) \/ WaitWork(t) PROVE ThreadsInv'
  BY <1>1 DEF WaitStop, WaitWork
<1>2. ASSUME NEW t \in Threads, ListRemoveTail(t) PROVE ThreadsInv'
  <2>1. CASE queue # <<>>
    <3>1. Head(queue) # NoItem /\ Head(queue) \in Items
      BY <2>1
    <3> QED
      BY <1>2, <2>1, <3>1 DEF ListRemoveTail
  <2>2. CASE queue = <<>>
    BY <1>2, <2>2 DEF ListRemoveTail
  <2> QED
    BY <2>1, <2>2
<1>3. ASSUME NEW t \in Threads, RunItem(t) PROVE ThreadsInv'
  BY <1>3 DEF RunItem
<1>4. ASSUME NEW i \in Items, AllocateItem(i) \/ SetWorkScheduled(i) PROVE ThreadsInv'
  <2>1. CASE AllocateItem(i)
    BY <2>1 DEF AllocateItem
  <2>2. CASE SetWorkScheduled(i)
    BY <2>2 DEF SetWorkScheduled
  <2> QED
    BY <1>4, <2>1, <2>2
<1>5. ASSUME NEW i \in Items, ListInsertHead(i) PROVE ThreadsInv'
  BY <1>5 DEF ListInsertHead
<1>6. CASE TpInitNoThreads \/ TpInitFails
  <2>1. Closed
    BY <1>6 DEF TpInitNoThreads, TpInitFails, MayInit
  <2>2. CASE TpInitNoThreads
    BY <2>1, <2>2 DEF TpInitNoThreads
  <2>3. CASE TpInitFails
    BY <2>1, <2>3 DEF TpInitFails, BeginUninit
  <2> QED
    BY <1>6, <2>2, <2>3
<1>7. ASSUME NEW n \in Threads, TpInit(n) PROVE ThreadsInv'
  BY <1>7 DEF TpInit, MayInit
<1>8. CASE CreateThread
  BY <1>8 DEF CreateThread, Threads
<1>9. CASE CreateThreadFails \/ TpUninit
  BY <1>9 DEF CreateThreadFails, TpUninit, BeginUninit, Threads
<1>10. CASE JoinThread
  BY <1>10 DEF JoinThread, Threads
<1>11. CASE FreeHandles
  BY <1>11 DEF FreeHandles, Threads
<1>12. CASE DrainRemoveTail
  BY <1>12 DEF DrainRemoveTail
<1>13. CASE DrainIsListEmpty \/ DrainCallRoutine \/ CloseEvents
  BY <1>13 DEF DrainIsListEmpty, DrainCallRoutine, CloseEvents
<1>14. CASE UNCHANGED vars
  BY <1>14 DEF vars
<1> QED
  BY <1>1, <1>2, <1>3, <1>4, <1>5, <1>6, <1>7, <1>8, <1>9, <1>10, <1>11, <1>12,
     <1>13, <1>14 DEF Next, WorkerStep, CallStep, UninitStep

LEMMA SpecInv == Spec => [](TypeInv /\ ThreadsInv)
  BY InitTypeInv, InitThreadsInv, TypeStep, ThreadsStep, PTL DEF Spec

\* The pool's state is well typed, with a handle for at most every thread asked for.
THEOREM TypeCorrect == Spec => []TypeOK
<1>1. TypeInv => TypeOK
  BY DEF TypeInv
<1> QED
  BY SpecInv, <1>1, PTL

\* No thread outlives its handle or the events it waits on.
THEOREM OutliveThreadsCorrect == Spec => []OutliveThreads
<1>1. ThreadsInv => OutliveThreads
  BY DEF ThreadsInv, LiveHasHandle, Alive, OutliveThreads
<1> QED
  BY SpecInv, <1>1, PTL
-----------------------------------------------------------------------------
(***************************************************************************)
(* Where each item is: in the list once, or held by one thread, or executed  *)
(* once, and unless TpUninit took one, every accepted item is in one of     *)
(* these.                                                                  *)
(***************************************************************************)
HeldOnce == \A s, t \in Threads : holds[s] = holds[t] /\ holds[s] # NoItem => s = t

OnePlace == NoRepeat(queue) /\ HeldOnce /\ Queued \cap Held = {}

Accounting ==
    /\ \A i \in Items : executed[i] \in {0, 1}
    /\ InPool \cap Executed = {}
    /\ InPool \cup Executed \subseteq Accepted
    /\ ~TookItem => Accepted \subseteq InPool \cup Executed
    /\ Closed \/ owner \in {"create", "close"} => queue = <<>>

ItemsInv == OnePlace /\ Accounting

LEMMA InitItemsInv == Init => ItemsInv
<1> SUFFICES ASSUME Init PROVE ItemsInv
  OBVIOUS
<1>1. Queued = {} /\ Held = {} /\ Executed = {} /\ Accepted = {}
  BY DEF Init, Queued, Held, Executed, Accepted
<1>2. NoRepeat(queue) /\ HeldOnce
  BY DEF Init, NoRepeat, HeldOnce
<1> QED
  BY <1>1, <1>2 DEF ItemsInv, OnePlace, Accounting, InPool, Init

\* Once the threads are joined nobody holds an item.
LEMMA NothingHeld ==
    TypeInv /\ ThreadsInv /\ owner \notin {"create", "ready", "join"} => Held = {}
  BY DEF TypeInv, TypeOK, WorkersOK, ThreadsInv, RunningHolds, LiveHasHandle,
         Alive, Held

\* A step that moves no item, for which the owner's place is right.
LEMMA ItemsUnchanged ==
    ASSUME ItemsInv, UNCHANGED <<queue, executed, holds>>, Accepted' = Accepted,
           TookItem => TookItem',
           (Closed \/ owner \in {"create", "close"})' =>
               queue = <<>>
    PROVE  ItemsInv'
<1>1. InPool' = InPool /\ Executed' = Executed
  BY DEF InPool, Queued, Held, Executed
<1>2. OnePlace'
  BY DEF ItemsInv, OnePlace, NoRepeat, HeldOnce, Queued, Held
<1> QED
  BY <1>1, <1>2 DEF ItemsInv, Accounting

\* A worker takes the oldest item: it moves within the pool.
LEMMA RemoveTailStep ==
    ASSUME TypeInv, ThreadsInv, ItemsInv, NEW t \in Threads, ListRemoveTail(t),
           queue # <<>>
    PROVE  ItemsInv'
<1> DEFINE h == Head(queue)
<1>1. queue \in Seq(Items) /\ holds \in [Threads -> Items \cup {NoItem}]
  BY DEF TypeInv, TypeOK, QueueOK, WorkersOK
<1>2. h \in Items /\ h # NoItem
  BY <1>1
<1>3. holds[t] = NoItem
  BY DEF ListRemoveTail, ThreadsInv, RunningHolds
<1>4. /\ holds' = [holds EXCEPT ![t] = h] /\ queue' = Tail(queue)
      /\ executed' = executed /\ call' = call /\ owner' = owner
  BY DEF ListRemoveTail, ownerVars
<1>5. Queued = {h} \cup Queued' /\ h \notin Queued' /\ NoRepeat(queue)'
  <2>1. Queued = Elements(queue) /\ Queued' = Elements(Tail(queue))
    BY <1>4 DEF Queued, Elements
  <2>2. NoRepeat(queue)
    BY DEF ItemsInv, OnePlace
  <2>3. /\ Elements(queue) = {h} \cup Elements(Tail(queue))
        /\ h \notin Elements(Tail(queue)) /\ NoRepeat(Tail(queue))
    BY <1>1, <2>2, TailElements
  <2> QED
    BY <1>4, <2>1, <2>3
<1> HIDE DEF h
<1>6. Held' = Held \cup {h}
  BY <1>1, <1>2, <1>3, <1>4 DEF Held
<1>7. h \notin Held
  BY <1>5 DEF ItemsInv, OnePlace
<1>8. HeldOnce'
  BY <1>1, <1>2, <1>4, <1>7 DEF HeldOnce, Held, ItemsInv, OnePlace
<1>9. InPool' = InPool /\ Executed' = Executed /\ Accepted' = Accepted
  BY <1>4, <1>5, <1>6 DEF InPool, Executed, Accepted
<1>10. owner' \notin {"idle", "failed", "dead", "create", "close"}
  BY <1>4 DEF ItemsInv, Accounting, Closed
<1>11. OnePlace'
  BY <1>5, <1>6, <1>7, <1>8 DEF OnePlace, ItemsInv
<1> QED
  BY <1>4, <1>9, <1>10, <1>11 DEF ItemsInv, Accounting, Closed, TookItem

\* A worker finishes its item: it leaves the pool, executed once.
LEMMA RunItemStep ==
    ASSUME TypeInv, ThreadsInv, ItemsInv, NEW t \in Threads, RunItem(t)
    PROVE  ItemsInv'
<1> DEFINE h == holds[t]
<1>1. holds \in [Threads -> Items \cup {NoItem}] /\ executed \in [Items -> Nat]
  BY DEF TypeInv, TypeOK, QueueOK, WorkersOK
<1>2. h \in Items /\ h # NoItem /\ h \in Held
  BY <1>1 DEF RunItem, ThreadsInv, RunningHolds, Held
<1>3. executed[h] = 0
  BY <1>2 DEF ItemsInv, Accounting, InPool, Executed
<1>4. executed' = [executed EXCEPT ![h] = 1] /\ holds' = [holds EXCEPT ![t] = NoItem]
  BY <1>1, <1>3 DEF RunItem
<1>5. HeldOnce /\ \A s \in Threads : holds[s] = h => s = t
  BY <1>2 DEF ItemsInv, OnePlace, HeldOnce
<1>6. holds[t] = h
  OBVIOUS
<1> HIDE DEF h
<1>7. Held' = Held \ {h}
  <2>1. \A s \in Threads : holds'[s] = IF s = t THEN NoItem ELSE holds[s]
    BY <1>1, <1>4
  <2> QED
    BY <1>2, <1>5, <1>6, <2>1 DEF Held
<1>8. Executed' = Executed \cup {h} /\ \A i \in Items : executed'[i] \in {0, 1}
  BY <1>1, <1>2, <1>4 DEF Executed, ItemsInv, Accounting
<1>9. HeldOnce'
  BY <1>1, <1>4, <1>5 DEF HeldOnce
<1>10. Queued' = Queued /\ Accepted' = Accepted /\ owner' = owner /\ queue' = queue
  BY DEF RunItem, Queued, Accepted, ownerVars
<1>11. InPool' = InPool \ {h} /\ h \in InPool
  BY <1>2, <1>7, <1>10 DEF InPool, ItemsInv, OnePlace
<1>12. OnePlace'
  BY <1>7, <1>9, <1>10 DEF OnePlace, ItemsInv, NoRepeat
<1> QED
  BY <1>8, <1>10, <1>11, <1>12 DEF ItemsInv, Accounting, Closed, TookItem

\* A call links its item into the list: it enters the pool.
LEMMA InsertStep ==
    ASSUME TypeInv, ThreadsInv, ItemsInv, NEW i \in Items, ListInsertHead(i)
    PROVE  ItemsInv'
<1>1. queue \in Seq(Items) /\ call[i] = "allocated" /\ owner = "ready"
      /\ call \in [Items -> {"idle", "allocated", "inserted", "returned", "refused"}]
  BY DEF ListInsertHead, TypeInv, TypeOK, QueueOK, CallsOK, ThreadsInv, OwnerPlace
<1>2. i \notin InPool /\ i \notin Executed
  BY <1>1 DEF ItemsInv, Accounting, Accepted
<1>3. /\ queue' = Append(queue, i) /\ UNCHANGED <<holds, executed, owner>>
      /\ call' = [call EXCEPT ![i] = "inserted"]
  BY DEF ListInsertHead, threadVars, ownerVars
<1>4. Queued' = Queued \cup {i} /\ NoRepeat(queue)'
  BY <1>1, <1>2, <1>3, AppendElements DEF Queued, Elements, ItemsInv, OnePlace, InPool
<1>5. Accepted' = Accepted \cup {i} /\ Held' = Held /\ Executed' = Executed
  BY <1>1, <1>3 DEF Accepted, Held, Executed
<1>6. InPool' = InPool \cup {i}
  BY <1>4, <1>5 DEF InPool
<1>7. OnePlace'
  BY <1>2, <1>3, <1>4, <1>5 DEF OnePlace, ItemsInv, HeldOnce, InPool
<1> QED
  BY <1>1, <1>2, <1>3, <1>5, <1>6, <1>7 DEF ItemsInv, Accounting, Closed, TookItem

\* TpUninit takes the oldest item, and is not going to return.
LEMMA DrainRemoveStep ==
    ASSUME TypeInv, ThreadsInv, ItemsInv, DrainRemoveTail
    PROVE  ItemsInv'
<1>1. queue \in Seq(Items) /\ queue # <<>> /\ NoRepeat(queue)
  BY DEF DrainRemoveTail, TypeInv, TypeOK, QueueOK, ThreadsInv, OwnerPlace, ItemsInv,
         OnePlace
<1>2. queue' = Tail(queue) /\ owner' = "call" /\ UNCHANGED <<holds, executed, call>>
  BY DEF DrainRemoveTail, threadVars
<1>3. Queued' \subseteq Queued /\ NoRepeat(queue)'
  BY <1>1, <1>2, TailElements DEF Queued, Elements
<1>4. Held' = Held /\ Executed' = Executed /\ Accepted' = Accepted
  BY <1>2 DEF Held, Executed, Accepted
<1>5. OnePlace'
  BY <1>2, <1>3, <1>4 DEF OnePlace, ItemsInv, HeldOnce
<1> QED
  BY <1>2, <1>3, <1>4, <1>5 DEF ItemsInv, Accounting, InPool, Closed, TookItem

\* A pool that may be started has an empty list, which TpInit makes anew.
LEMMA TpInitStep ==
    ASSUME ItemsInv, TpInitFails \/ \E n \in Threads : TpInit(n)
    PROVE  ItemsInv'
<1>1. Closed /\ queue' = <<>> /\ UNCHANGED <<executed, holds, call>>
      /\ owner' \in {"create", "join"}
  BY DEF TpInitFails, TpInit, BeginUninit, MayInit, Closed
<1>2. queue' = queue
  BY <1>1 DEF ItemsInv, Accounting
<1>3. Accepted' = Accepted /\ ~TookItem
  BY <1>1 DEF Accepted, Closed, TookItem
<1> QED
  BY <1>1, <1>2, <1>3, ItemsUnchanged

\* Each step keeps the account of the items.
LEMMA ItemsStep == TypeInv /\ ThreadsInv /\ ItemsInv /\ [Next]_vars => ItemsInv'
<1> SUFFICES ASSUME TypeInv, ThreadsInv, ItemsInv, [Next]_vars PROVE ItemsInv'
  OBVIOUS
<1> USE DEF eventVars, queueVars, threadVars, ownerVars
<1>1. ASSUME UNCHANGED <<queue, executed, holds, call, owner>> PROVE ItemsInv'
  BY <1>1, ItemsUnchanged DEF Accepted, TookItem, Closed, ItemsInv, Accounting
<1>2. ASSUME NEW t \in Threads, WaitStop(t) \/ WaitWork(t) PROVE ItemsInv'
  BY <1>1, <1>2 DEF WaitStop, WaitWork
<1>3. ASSUME NEW t \in Threads, ListRemoveTail(t) PROVE ItemsInv'
  BY <1>1, <1>3, RemoveTailStep DEF ListRemoveTail
<1>4. ASSUME NEW i \in Items, AllocateItem(i) \/ SetWorkScheduled(i) PROVE ItemsInv'
  <2>1. UNCHANGED <<queue, executed, holds, owner>>
    BY <1>4 DEF AllocateItem, SetWorkScheduled
  <2>2. Accepted' = Accepted
    BY <1>4 DEF AllocateItem, SetWorkScheduled, Accepted, TypeInv, TypeOK, CallsOK
  <2> QED
    BY <2>1, <2>2, ItemsUnchanged DEF TookItem, Closed, ItemsInv, Accounting
<1>5. CASE TpInitFails \/ \E n \in Threads : TpInit(n)
  BY <1>5, TpInitStep
<1>6. ASSUME TpInitNoThreads \/ CreateThread \/ CreateThreadFails \/ TpUninit
      PROVE  ItemsInv'
  <2>1. UNCHANGED <<queue, executed, holds, call>> /\ ~TookItem
    BY <1>6 DEF TpInitNoThreads, MayInit, CreateThread, CreateThreadFails, TpUninit,
                TookItem
  <2>2. owner' \in {"failed", "create"} => queue = <<>>
    BY <1>6 DEF TpInitNoThreads, MayInit, CreateThread, CreateThreadFails, TpUninit,
                BeginUninit, ItemsInv, Accounting, Closed
  <2>3. owner' \in {"failed", "create", "ready", "join"}
    BY <1>6 DEF TpInitNoThreads, CreateThread, CreateThreadFails, TpUninit, BeginUninit
  <2> QED
    BY <2>1, <2>2, <2>3, ItemsUnchanged DEF Closed, Accepted
<1>7. ASSUME JoinThread \/ FreeHandles \/ DrainIsListEmpty PROVE ItemsInv'
  <2>1. UNCHANGED <<queue, executed, holds, call>> /\ ~TookItem
    BY <1>7 DEF JoinThread, FreeHandles, DrainIsListEmpty, TookItem
  <2>2. owner' \in {"join", "drain", "acquire", "close"}
        /\ (owner' = "close" => queue = <<>>)
    BY <1>7 DEF JoinThread, FreeHandles, DrainIsListEmpty
  <2> QED
    BY <2>1, <2>2, ItemsUnchanged DEF Closed, Accepted
<1>8. CASE DrainCallRoutine
  BY <1>8, ItemsUnchanged DEF DrainCallRoutine, TookItem, Closed, Accepted
<1>9. CASE CloseEvents
  BY <1>9, ItemsUnchanged DEF CloseEvents, TookItem, Closed, Accepted, ItemsInv,
                              Accounting
<1>10. CASE UNCHANGED vars
  BY <1>1, <1>10 DEF vars
<1>11. ASSUME NEW t \in Threads, RunItem(t) PROVE ItemsInv'
  BY <1>11, RunItemStep
<1>12. ASSUME NEW i \in Items, ListInsertHead(i) PROVE ItemsInv'
  BY <1>12, InsertStep
<1>13. CASE DrainRemoveTail
  BY <1>13, DrainRemoveStep
<1> QED
  BY <1>2, <1>3, <1>4, <1>5, <1>6, <1>7, <1>8, <1>9, <1>10, <1>11, <1>12, <1>13 DEF Next, WorkerStep, CallStep, UninitStep

\* When TpUninit returns nothing is left: every accepted item was executed once.
THEOREM ReturnMeansDoneCorrect == Spec => []ReturnMeansDone
<1>1. TypeInv /\ ThreadsInv /\ ItemsInv => ReturnMeansDone
  <2> SUFFICES ASSUME TypeInv, ThreadsInv, ItemsInv, owner \in {"dead", "failed"}
               PROVE  /\ \A i \in Accepted : executed[i] = 1
                      /\ Held = {} /\ Queued = {} /\ ~queueLock
                      /\ stopEvent = "null" /\ workEvent = "null"
    BY Zenon DEF ReturnMeansDone
  <2>1. Held = {} /\ Queued = {}
    BY NothingHeld DEF ItemsInv, Accounting, Closed, Queued
  <2>2. Accepted \subseteq Executed
    BY <2>1 DEF ItemsInv, Accounting, TookItem, InPool
  <2>3. \A i \in Accepted : executed[i] = 1
    BY <2>2 DEF ItemsInv, Accounting, Executed
  <2>4. ~queueLock
    BY Zenon DEF ThreadsInv, OwnerPlace, TookItem
  <2>5. stopEvent = "null" /\ workEvent = "null"
    BY DEF ThreadsInv, OwnerPlace, Closed
  <2> QED
    BY <2>1, <2>3, <2>4, <2>5, Zenon
<1> QED
  BY SpecInv, InitItemsInv, ItemsStep, <1>1, PTL DEF Spec
=============================================================================
