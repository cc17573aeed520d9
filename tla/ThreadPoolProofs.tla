-------------------------- MODULE ThreadPoolProofs --------------------------
(***************************************************************************)
(* What TLAPS proves of ThreadPool, for any number of threads and items and *)
(* for callers that overlap TpUninit as well as for those that do not.      *)
(*                                                                         *)
(* The inductive invariant has three layers, each preserved with the help   *)
(* of the ones before it: the types (TypeInv), who is alive while the owner *)
(* is where (ThreadsInv), and where each item is (ItemsInv).                *)
(***************************************************************************)
EXTENDS ThreadPool, TLAPS
-----------------------------------------------------------------------------
(***************************************************************************)
(* The list as a set: what removing an item, at either end, and inserting  *)
(* one do to its elements.                                                 *)
(***************************************************************************)
Elements(s) == {s[k] : k \in DOMAIN s}
NoRepeat(s) == \A j, k \in DOMAIN s : s[j] = s[k] => j = k

\* Removing the oldest takes one element and, without repetitions, every copy of it.
LEMMA TailElements ==
    ASSUME NEW S, NEW s \in Seq(S), s # <<>>, NoRepeat(s)
    PROVE  /\ Elements(s) = {Head(s)} \cup Elements(Tail(s))
           /\ Head(s) \notin Elements(Tail(s))
           /\ NoRepeat(Tail(s))
<1>1. Len(s) \in Nat \ {0} /\ DOMAIN s = 1..Len(s)
  OBVIOUS
<1>2. DOMAIN Tail(s) = 1..(Len(s) - 1) /\ Head(s) = s[1]
  OBVIOUS
<1>3. \A k \in 1..(Len(s) - 1) : Tail(s)[k] = s[k + 1]
  OBVIOUS
<1>4. Elements(Tail(s)) \subseteq Elements(s)
  BY <1>1, <1>2, <1>3 DEF Elements
<1>5. Elements(s) \subseteq {Head(s)} \cup Elements(Tail(s))
  <2> SUFFICES ASSUME NEW k \in 1..Len(s), s[k] # Head(s)
               PROVE  s[k] \in Elements(Tail(s))
    BY <1>1, Zenon DEF Elements
  <2>1. k - 1 \in 1..(Len(s) - 1) /\ (k - 1) + 1 = k
    BY <1>1, <1>2
  <2>2. s[k] = Tail(s)[k - 1]
    BY <2>1, <1>3
  <2> QED
    BY <2>1, <2>2, <1>2, Zenon DEF Elements
<1>6. Head(s) \in Elements(s)
  BY <1>1, <1>2 DEF Elements
<1>7. Head(s) \notin Elements(Tail(s))
  <2> SUFFICES ASSUME NEW k \in 1..(Len(s) - 1), s[k + 1] = s[1] PROVE FALSE
    BY <1>2, <1>3 DEF Elements
  <2> QED
    BY <1>1 DEF NoRepeat
<1>8. NoRepeat(Tail(s))
  <2> SUFFICES ASSUME NEW j \in 1..(Len(s) - 1), NEW k \in 1..(Len(s) - 1),
                      s[j + 1] = s[k + 1]
               PROVE  j = k
    BY <1>2, <1>3 DEF NoRepeat
  <2> QED
    BY <1>1 DEF NoRepeat
<1> QED
  BY <1>4, <1>5, <1>6, <1>7, <1>8

\* Removing the newest.
LEMMA FrontElements ==
    ASSUME NEW S, NEW s \in Seq(S), s # <<>>, NoRepeat(s)
    PROVE  LET front == SubSeq(s, 1, Len(s) - 1) IN
           /\ Elements(s) = {s[Len(s)]} \cup Elements(front)
           /\ s[Len(s)] \notin Elements(front)
           /\ NoRepeat(front)
<1> DEFINE front == SubSeq(s, 1, Len(s) - 1)
<1>1. Len(s) \in Nat \ {0} /\ DOMAIN s = 1..Len(s)
  OBVIOUS
<1>2. DOMAIN front = 1..(Len(s) - 1)
  BY <1>1
<1>3. \A k \in 1..(Len(s) - 1) : front[k] = s[k]
  BY <1>1
<1> HIDE DEF front
<1>4. Elements(s) = {s[Len(s)]} \cup Elements(front)
  <2>1. ASSUME NEW k \in 1..Len(s), k # Len(s) PROVE k \in 1..(Len(s) - 1)
    <3>1. \A n \in Nat : \A m \in 1..n : m # n => m \in 1..(n - 1)
      OBVIOUS
    <3> QED
      BY <1>1, <2>1, <3>1
  <2>2. \A k \in 1..(Len(s) - 1) : k \in 1..Len(s)
    BY <1>1
  <2>3. Elements(s) \subseteq {s[Len(s)]} \cup Elements(front)
    BY <1>1, <1>2, <1>3, <2>1 DEF Elements
  <2>4. Elements(front) \subseteq Elements(s)
    BY <1>1, <1>2, <1>3, <2>2 DEF Elements
  <2>5. s[Len(s)] \in Elements(s)
    BY <1>1 DEF Elements
  <2> QED
    BY <2>3, <2>4, <2>5
<1>5. s[Len(s)] \notin Elements(front)
  <2> SUFFICES ASSUME NEW k \in 1..(Len(s) - 1), s[k] = s[Len(s)] PROVE FALSE
    BY <1>2, <1>3 DEF Elements
  <2> QED
    BY <1>1 DEF NoRepeat
<1>6. NoRepeat(front)
  BY <1>1, <1>2, <1>3 DEF NoRepeat
<1> QED
  BY <1>4, <1>5, <1>6 DEF front

\* Inserting an item that is not in the list.
LEMMA AppendElements ==
    ASSUME NEW S, NEW s \in Seq(S), NoRepeat(s), NEW e \in S, e \notin Elements(s)
    PROVE  /\ Elements(Append(s, e)) = Elements(s) \cup {e}
           /\ NoRepeat(Append(s, e))
<1> DEFINE t == Append(s, e)
<1>1. Len(s) \in Nat /\ DOMAIN s = 1..Len(s) /\ DOMAIN t = 1..(Len(s) + 1)
  OBVIOUS
<1>2. t[Len(s) + 1] = e /\ \A k \in 1..Len(s) : t[k] = s[k]
  OBVIOUS
<1>3. \A k \in 1..(Len(s) + 1) : k = Len(s) + 1 \/ k \in 1..Len(s)
  BY <1>1
<1>4. Len(s) + 1 \in 1..(Len(s) + 1) /\ \A k \in 1..Len(s) : k \in 1..(Len(s) + 1)
  BY <1>1
<1> HIDE DEF t
<1>5. Elements(t) = Elements(s) \cup {e}
  BY <1>1, <1>2, <1>3, <1>4 DEF Elements
<1>6. NoRepeat(t)
  BY <1>1, <1>2, <1>3 DEF NoRepeat, Elements
<1> QED
  BY <1>5, <1>6 DEF t

-----------------------------------------------------------------------------

USE MaxThreadsAssumption, NoItemAssumption, LateCallsAssumption

NoArrayLeft ==
    owner \in {"idle", "drain", "pop", "drained", "failed", "dead"} => ~handleArray

\* A TpUninit of a pool that is not up finds no array, at its first handle.
AgainStops ==
    after = "again" =>
        /\ owner \in {"join", "bugcheck"}
        /\ owner = "join" => ~handleArray /\ index <= numberOfThreads

TypeInv ==
    /\ TypeOK
    /\ owner = "create" => index <= numberOfThreads
    /\ NoArrayLeft
    /\ AgainStops

LEMMA InitTypeInv == Init => TypeInv
<1> SUFFICES ASSUME Init PROVE TypeInv
  OBVIOUS
<1> USE DEF Init
<1>1. EventsOK /\ CallsOK
  BY DEF EventsOK, CallsOK
<1>2. ItemsOK
  BY DEF ItemsOK
<1>3. ArrayOK
  <2>1. numberOfThreads \in 0..MaxThreads
    OBVIOUS
  <2> QED
    BY <2>1 DEF ArrayOK
<1>4. OwnerOK
  BY DEF OwnerOK, Slots
<1>5. WorkersOK
  BY DEF WorkersOK
<1>6. NoArrayLeft /\ AgainStops
  BY DEF NoArrayLeft, AgainStops
<1> QED
  BY <1>1, <1>2, <1>3, <1>4, <1>5, <1>6 DEF TypeInv, TypeOK

\* Each step keeps the types.
LEMMA TypeStep == TypeInv /\ [Next]_vars => TypeInv'
<1> SUFFICES ASSUME TypeInv, [Next]_vars PROVE TypeInv'
  OBVIOUS
<1> USE DEF eventVars, listVars, arrayVars, workerVars, ownerVars
<1>1. EventsOK /\ ItemsOK /\ CallsOK /\ ArrayOK /\ WorkersOK /\ OwnerOK
  BY DEF TypeInv, TypeOK
<1>2. UNCHANGED eventVars => EventsOK'
  BY <1>1 DEF EventsOK
<1>3. UNCHANGED <<listVars, owed, drains>> => ItemsOK'
  BY <1>1 DEF ItemsOK
<1>4. UNCHANGED call => CallsOK'
  BY <1>1 DEF CallsOK
<1>5. UNCHANGED arrayVars => ArrayOK'
  BY <1>1 DEF ArrayOK
<1>6. UNCHANGED workerVars => WorkersOK'
  BY <1>1 DEF WorkersOK
<1>7. UNCHANGED <<owner, index, after>> => OwnerOK'
  BY <1>1 DEF OwnerOK
<1>8. UNCHANGED <<owner, index, numberOfThreads>> =>
      (owner = "create" => index <= numberOfThreads)'
  BY DEF TypeInv
<1>9. NoArrayLeft /\ AgainStops
  BY DEF TypeInv
<1>10. UNCHANGED <<owner, index, after, numberOfThreads, handleArray>> =>
       NoArrayLeft' /\ AgainStops'
  BY <1>9 DEF NoArrayLeft, AgainStops
<1> USE <1>1, <1>2, <1>3, <1>4, <1>5, <1>6, <1>7, <1>8, <1>9, <1>10
        DEF TypeInv, TypeOK
<1>11. ASSUME NEW t \in Slots, WaitStop(t) \/ WaitWork(t) \/ FoundEmpty(t)
       PROVE  TypeInv'
  <2>1. EventsOK'
    BY <1>11 DEF WaitStop, WaitWork, FoundEmpty, EventsOK
  <2>2. WorkersOK'
    BY <1>11 DEF WaitStop, WaitWork, FoundEmpty, WorkersOK
  <2> QED
    BY <1>11, <2>1, <2>2 DEF WaitStop, WaitWork, FoundEmpty
<1>12. ASSUME NEW t \in Slots, RemoveTailList(t) PROVE TypeInv'
  <2>1. Head(listHead) \in Items /\ Tail(listHead) \in Seq(Items)
    BY <1>12 DEF RemoveTailList, ItemsOK
  <2>2. ItemsOK'
    BY <1>12, <2>1 DEF RemoveTailList, ItemsOK
  <2>3. WorkersOK'
    BY <1>12, <2>1 DEF RemoveTailList, WorkersOK
  <2> QED
    BY <1>12, <2>2, <2>3 DEF RemoveTailList
<1>13. ASSUME NEW t \in Slots, RunItem(t) PROVE TypeInv'
  <2>1. ItemsOK'
    BY <1>13 DEF RunItem, ItemsOK
  <2>2. WorkersOK'
    BY <1>13 DEF RunItem, WorkersOK
  <2> QED
    BY <1>13, <2>1, <2>2 DEF RunItem
<1>14. ASSUME NEW i \in Items, AllocateItem(i) PROVE TypeInv'
  <2>1. CallsOK'
    BY <1>14 DEF AllocateItem, CallsOK
  <2> QED
    BY <1>14, <2>1 DEF AllocateItem
<1>15. ASSUME NEW i \in Items, InsertHeadList(i) PROVE TypeInv'
  <2>1. CallsOK'
    BY <1>15 DEF InsertHeadList, CallsOK
  <2>2. ItemsOK'
    BY <1>15 DEF InsertHeadList, ItemsOK
  <2> QED
    BY <1>15, <2>1, <2>2 DEF InsertHeadList
<1>16. ASSUME NEW i \in Items, SetWorkScheduled(i) PROVE TypeInv'
  <2>1. CallsOK'
    BY <1>16 DEF SetWorkScheduled, CallsOK
  <2>2. EventsOK'
    BY <1>16 DEF SetWorkScheduled, EventsOK
  <2> QED
    BY <1>16, <2>1, <2>2 DEF SetWorkScheduled
<1>17. CASE TpInitNoThreads
  <2>1. OwnerOK'
    BY <1>17 DEF TpInitNoThreads, OwnerOK
  <2>9. NoArrayLeft' /\ AgainStops'
    BY <1>17 DEF TpInitNoThreads, NoArrayLeft, AgainStops
  <2> QED
    BY <1>17, <2>9, <2>1 DEF TpInitNoThreads
<1>18. ASSUME NEW n \in Slots, TpInit(n) PROVE TypeInv'
  <2>1. EventsOK'
    BY <1>18 DEF TpInit, EventsOK
  <2>2. ItemsOK'
    BY <1>18 DEF TpInit, ItemsOK
  <2>3. ArrayOK'
    <3>1. n \in 0..MaxThreads
      BY DEF Slots
    <3> QED
      BY <1>18, <3>1 DEF TpInit, ArrayOK
  <2>4. OwnerOK'
    BY <1>18 DEF TpInit, OwnerOK
  <2>5. index' <= numberOfThreads'
    BY <1>18 DEF TpInit, Slots
  <2>9. NoArrayLeft' /\ AgainStops'
    BY <1>18 DEF TpInit, NoArrayLeft, AgainStops
  <2> QED
    BY <1>18, <2>9, <2>1, <2>2, <2>3, <2>4, <2>5 DEF TpInit
<1>19. CASE PsCreateSystemThread
  <2>1. index \in Slots /\ index \in Nat /\ numberOfThreads \in 0..MaxThreads
    BY <1>19 DEF PsCreateSystemThread, OwnerOK, ArrayOK, Slots
  <2>2. ArrayOK'
    BY <1>19, <2>1 DEF PsCreateSystemThread, ArrayOK
  <2>3. WorkersOK'
    BY <1>19 DEF PsCreateSystemThread, WorkersOK
  <2>4. OwnerOK'
    BY <1>19, <2>1 DEF PsCreateSystemThread, OwnerOK, Slots
  <2>5. owner' = "create" => index' <= numberOfThreads'
    BY <1>19, <2>1 DEF PsCreateSystemThread, ArrayOK, Slots
  <2>9. NoArrayLeft' /\ AgainStops'
    BY <1>19 DEF PsCreateSystemThread, NoArrayLeft, AgainStops
  <2> QED
    BY <1>19, <2>9, <2>2, <2>3, <2>4, <2>5 DEF PsCreateSystemThread
<1>20. ASSUME NEW r \in {"dead", "failed"}, BeginUninit(r) PROVE TypeInv'
  <2>1. EventsOK'
    BY <1>20 DEF BeginUninit, EventsOK
  <2>2. owed' \in SUBSET Items
    BY <1>20 DEF BeginUninit, Queued, Held, ItemsOK, WorkersOK
  <2>3. ItemsOK'
    BY <1>20, <2>2 DEF BeginUninit, ItemsOK
  <2>4. OwnerOK'
    BY <1>20 DEF BeginUninit, OwnerOK
  <2>9. NoArrayLeft' /\ AgainStops'
    BY <1>20 DEF BeginUninit, NoArrayLeft, AgainStops
  <2> QED
    BY <1>20, <2>9, <2>1, <2>3, <2>4 DEF BeginUninit
<1>21. CASE TpUninitAgain
  <2>1. EventsOK'
    BY <1>21 DEF TpUninitAgain, EventsOK
  <2>2. OwnerOK'
    BY <1>21 DEF TpUninitAgain, OwnerOK
  <2>9. NoArrayLeft' /\ AgainStops'
    BY <1>21 DEF TpUninitAgain, NoArrayLeft, AgainStops, ArrayOK
  <2> QED
    BY <1>21, <2>9, <2>1, <2>2 DEF TpUninitAgain
<1>22. CASE JoinThread
  <2>1. ArrayOK'
    BY <1>22 DEF JoinThread, ArrayOK
  <2>2. OwnerOK'
    BY <1>22 DEF JoinThread, OwnerOK, ArrayOK
  <2>9. NoArrayLeft' /\ AgainStops'
    BY <1>22 DEF JoinThread, NoArrayLeft, AgainStops, ArrayOK, OwnerOK
  <2> QED
    BY <1>22, <2>9, <2>1, <2>2 DEF JoinThread
<1>23. CASE FreeHandles
  <2>1. ArrayOK'
    BY <1>23 DEF FreeHandles, ArrayOK
  <2>2. OwnerOK'
    BY <1>23 DEF FreeHandles, OwnerOK
  <2>9. NoArrayLeft' /\ AgainStops'
    BY <1>23 DEF FreeHandles, NoArrayLeft, AgainStops, OwnerOK, ArrayOK
  <2> QED
    BY <1>23, <2>9, <2>1, <2>2 DEF FreeHandles
<1>24. CASE DrainIsListEmpty
  <2>1. OwnerOK'
    BY <1>24 DEF DrainIsListEmpty, OwnerOK, AgainStops
  <2>9. NoArrayLeft' /\ AgainStops'
    BY <1>24 DEF DrainIsListEmpty, NoArrayLeft, AgainStops, OwnerOK
  <2> QED
    BY <1>24, <2>9, <2>1 DEF DrainIsListEmpty, OwnerOK
<1>25. CASE DrainRemoveHeadList
  <2>1. ItemsOK'
    <3>1. CASE listHead = <<>>
      BY <1>25, <3>1 DEF DrainRemoveHeadList, ItemsOK
    <3>2. CASE listHead # <<>>
      <4>1. Len(listHead) \in Nat \ {0}
        BY <3>2 DEF ItemsOK
      <4>2. listHead[Len(listHead)] \in Items
        BY <4>1 DEF ItemsOK
      <4>3. SubSeq(listHead, 1, Len(listHead) - 1) \in Seq(Items)
        BY <4>1 DEF ItemsOK
      <4> QED
        BY <1>25, <3>2, <4>2, <4>3 DEF DrainRemoveHeadList, ItemsOK
    <3> QED
      BY <3>1, <3>2
  <2>2. OwnerOK'
    BY <1>25 DEF DrainRemoveHeadList, OwnerOK
  <2>9. NoArrayLeft' /\ AgainStops'
    BY <1>25 DEF DrainRemoveHeadList, NoArrayLeft, AgainStops
  <2> QED
    BY <1>25, <2>9, <2>1, <2>2 DEF DrainRemoveHeadList
<1>26. CASE DrainRunItem
  <2>1. ItemsOK'
    BY <1>26 DEF DrainRunItem, ItemsOK
  <2>2. OwnerOK'
    BY <1>26 DEF DrainRunItem, OwnerOK
  <2>9. NoArrayLeft' /\ AgainStops'
    BY <1>26 DEF DrainRunItem, NoArrayLeft, AgainStops
  <2> QED
    BY <1>26, <2>9, <2>1, <2>2 DEF DrainRunItem
<1>27. CASE UNCHANGED vars
  BY <1>27 DEF vars
<1> HIDE <1>1, <1>2, <1>3, <1>4, <1>5, <1>6, <1>7, <1>8, <1>9, <1>10 DEF TypeInv, TypeOK
<1> HIDE DEF eventVars, listVars, arrayVars, workerVars, ownerVars
<1> QED
  BY <1>11, <1>12, <1>13, <1>14, <1>15, <1>16, <1>17, <1>18, <1>19, <1>20, <1>21,
     <1>22, <1>23, <1>24, <1>25, <1>26, <1>27
     DEF Next, WorkerStep, FinishCall, UninitStep, CreateFails, TpUninit

\* Every variable keeps its type, in every behaviour of the pool.
THEOREM TypeCorrect == Spec => []TypeOK
<1>1. TypeInv => TypeOK
  BY DEF TypeInv
<1> QED
  BY InitTypeInv, TypeStep, <1>1, PTL DEF Spec
-----------------------------------------------------------------------------
(***************************************************************************)
(* Who is alive.  TpUninit may free the handles, and be the only one at the *)
(* list, because a live thread always has an open handle that the join loop *)
(* has yet to reach.                                                       *)
(***************************************************************************)
Alive(t) == worker[t] \in {"waiting", "draining", "running"}

RunningHolds ==
    \A t \in Slots : (worker[t] = "running") <=> (holds[t] # NoItem)

LiveHasHandle ==
    \A t \in Slots : Alive(t) =>
        /\ owner \in {"create", "ready", "join"}
        /\ after # "again"
        /\ t \in openHandles

HandlesInRange ==
    owner \in {"create", "ready", "join"} /\ after # "again" =>
        /\ handleArray
        /\ \A t \in openHandles : t <= numberOfThreads
        /\ owner = "create" => \A t \in openHandles : t < index

JoinsTheRest == owner = "join" => \A t \in openHandles : index <= t

OwnerPlace ==
    /\ owner = "bugcheck" => after = "again"
    /\ owner = "pop" => listHead # <<>>
    /\ (owner = "drained") <=> (drains # NoItem)

ThreadsInv ==
    /\ RunningHolds /\ LiveHasHandle /\ HandlesInRange /\ JoinsTheRest
    /\ OwnerPlace

LEMMA InitThreadsInv == Init => ThreadsInv
  BY DEF Init, ThreadsInv, RunningHolds, LiveHasHandle, HandlesInRange,
         JoinsTheRest, OwnerPlace, Alive

LEMMA ThreadsStep == TypeInv /\ ThreadsInv /\ [Next]_vars => ThreadsInv'
<1> SUFFICES ASSUME TypeInv, ThreadsInv, [Next]_vars PROVE ThreadsInv'
  OBVIOUS
<1> USE DEF eventVars, listVars, arrayVars, workerVars, ownerVars, ThreadsInv,
            RunningHolds, LiveHasHandle, HandlesInRange, JoinsTheRest, OwnerPlace, Alive
<1>0. WorkersOK /\ OwnerOK /\ ArrayOK /\ ItemsOK /\ AgainStops
  BY DEF TypeInv, TypeOK
<1>1. ASSUME NEW t \in Slots, WaitStop(t) \/ WaitWork(t) \/ FoundEmpty(t)
      PROVE  ThreadsInv'
  BY <1>0, <1>1 DEF WaitStop, WaitWork, FoundEmpty, WorkersOK
<1>2. ASSUME NEW t \in Slots, RemoveTailList(t) PROVE ThreadsInv'
  <2>1. Head(listHead) # NoItem
    BY <1>0, <1>2 DEF RemoveTailList, ItemsOK
  <2>2. RunningHolds'
    BY <1>0, <1>2, <2>1 DEF RemoveTailList, WorkersOK
  <2> QED
    BY <1>0, <1>2, <2>2 DEF RemoveTailList, WorkersOK
<1>3. ASSUME NEW t \in Slots, RunItem(t) PROVE ThreadsInv'
  BY <1>0, <1>3 DEF RunItem, WorkersOK
<1>4. ASSUME NEW i \in Items, AllocateItem(i) \/ SetWorkScheduled(i)
      PROVE  ThreadsInv'
  BY <1>4 DEF AllocateItem, SetWorkScheduled
<1>5. ASSUME NEW i \in Items, InsertHeadList(i) PROVE ThreadsInv'
  BY <1>0, <1>5 DEF InsertHeadList, ItemsOK
<1>6. CASE TpInitNoThreads
  BY <1>6 DEF TpInitNoThreads
<1>7. ASSUME NEW n \in Slots, TpInit(n) PROVE ThreadsInv'
  BY <1>7 DEF TpInit
<1>8. CASE PsCreateSystemThread
  <2>1. index \in Slots /\ index <= numberOfThreads /\ ~Alive(index)
    BY <1>0, <1>8 DEF PsCreateSystemThread, TypeInv, ArrayOK, OwnerOK, Slots
  <2>2. RunningHolds'
    BY <1>0, <1>8, <2>1 DEF PsCreateSystemThread, WorkersOK
  <2>3. LiveHasHandle'
    BY <1>0, <1>8, <2>1 DEF PsCreateSystemThread, WorkersOK, AgainStops
  <2>4. HandlesInRange'
    BY <1>0, <1>8, <2>1 DEF PsCreateSystemThread, ArrayOK, Slots
  <2> QED
    BY <1>8, <2>2, <2>3, <2>4 DEF PsCreateSystemThread
<1>9. ASSUME NEW r \in {"dead", "failed"}, BeginUninit(r), owner \in {"create", "ready"}
      PROVE  ThreadsInv'
  BY <1>0, <1>9 DEF BeginUninit, ArrayOK, Slots, AgainStops
<1>10. CASE JoinThread /\ handleArray
  <2>1. owner' = "join" /\ owner = "join" /\ after' = after /\ after # "again"
    BY <1>0, <1>10 DEF JoinThread, AgainStops
  <2>2. LiveHasHandle'
    BY <1>10, <2>1 DEF JoinThread
  <2>3. JoinsTheRest'
    <3>1. index' = index + 1 /\ openHandles' = openHandles \ {index}
      BY <1>10, <2>1 DEF JoinThread
    <3>2. SUFFICES ASSUME NEW s \in openHandles, s # index PROVE index + 1 <= s
      BY <2>1, <3>1 DEF JoinsTheRest
    <3>3. s \in Nat /\ index \in Nat /\ index <= s
      BY <1>0, <2>1 DEF OwnerOK, ArrayOK, Slots
    <3> QED
      BY <3>2, <3>3
  <2> QED
    BY <1>10, <2>1, <2>2, <2>3 DEF JoinThread
<1>16. CASE JoinThread /\ ~handleArray
  <2>1. owner = "join" /\ owner' = "bugcheck" /\ after = "again" /\ after' = after
    BY <1>16 DEF JoinThread
  <2> QED
    BY <1>16, <2>1 DEF JoinThread
<1>17. CASE TpUninitAgain
  <2>1. 1 <= numberOfThreads \/ numberOfThreads = 0
    BY <1>0 DEF ArrayOK
  <2>2. \A t \in openHandles : 1 <= t
    BY <1>0 DEF ArrayOK, Slots
  <2> QED
    BY <1>17, <2>1, <2>2 DEF TpUninitAgain
<1>11. CASE FreeHandles
  BY <1>0, <1>11 DEF FreeHandles, OwnerOK, ArrayOK, Slots
<1>12. CASE DrainIsListEmpty
  BY <1>0, <1>12 DEF DrainIsListEmpty, OwnerOK
<1>13. CASE DrainRemoveHeadList
  BY <1>0, <1>13 DEF DrainRemoveHeadList, ItemsOK
<1>14. CASE DrainRunItem
  BY <1>14 DEF DrainRunItem
<1>15. CASE UNCHANGED vars
  BY <1>15 DEF vars
<1> HIDE DEF eventVars, listVars, arrayVars, workerVars, ownerVars, ThreadsInv
<1> QED
  BY <1>1, <1>2, <1>3, <1>4, <1>5, <1>6, <1>7, <1>8, <1>9, <1>10, <1>11, <1>12,
     <1>13, <1>14, <1>15, <1>16, <1>17
     DEF Next, WorkerStep, FinishCall, UninitStep, CreateFails, TpUninit

\* When TpUninit takes over the list, no worker is left to touch the pool.
THEOREM WorkersGoneCorrect == Spec => []WorkersGone
<1>1. TypeInv /\ ThreadsInv => WorkersGone
  BY DEF TypeInv, TypeOK, WorkersOK, ThreadsInv, RunningHolds, LiveHasHandle, Alive, WorkersGone
<1> QED
  BY InitTypeInv, TypeStep, InitThreadsInv, ThreadsStep, <1>1, PTL DEF Spec

\* A pool that is up never brings the system down, whenever it is stopped and
\* whoever calls it meanwhile: TpUninit finds its handles and pops no empty list.
\* A TpUninit of a pool that is not up always does.
THEOREM NoBugCheckCorrect == Spec => []NoBugCheck
<1>1. TypeInv /\ ThreadsInv => NoBugCheck
  BY DEF TypeInv, AgainStops, ThreadsInv, OwnerPlace, NoBugCheck
<1> QED
  BY InitTypeInv, TypeStep, InitThreadsInv, ThreadsStep, <1>1, PTL DEF Spec
-----------------------------------------------------------------------------
(***************************************************************************)
(* One auto-reset event is enough.  The invariant is inductive because a    *)
(* worker that consumes the event leaves the wait, and goes back only from  *)
(* an empty list; the pool becomes ready with an empty list.                *)
(***************************************************************************)
WakeInv ==
    /\ owner = "create" => listHead = <<>> /\ InFlight = {}
    /\ NoLostWakeup

LEMMA WakeStep == TypeInv /\ ThreadsInv /\ WakeInv /\ [Next]_vars => WakeInv'
<1> SUFFICES ASSUME TypeInv, ThreadsInv, WakeInv, [Next]_vars PROVE WakeInv'
  OBVIOUS
<1> USE DEF eventVars, listVars, arrayVars, workerVars, ownerVars, WakeInv,
            NoLostWakeup, InFlight
<1>0. WorkersOK /\ CallsOK
  BY DEF TypeInv, TypeOK
<1>1. ASSUME NEW t \in Slots, WaitStop(t) \/ WaitWork(t) PROVE WakeInv'
  BY <1>0, <1>1 DEF WaitStop, WaitWork, WorkersOK
<1>2. ASSUME NEW t \in Slots, RemoveTailList(t) \/ FoundEmpty(t) \/ RunItem(t)
      PROVE  WakeInv'
  BY <1>0, <1>2 DEF RemoveTailList, FoundEmpty, RunItem, WorkersOK
<1>3. ASSUME NEW i \in Items, AllocateItem(i) PROVE WakeInv'
  BY <1>0, <1>3 DEF AllocateItem, MayCall, CallsOK
<1>4. ASSUME NEW i \in Items, FinishCall(i) PROVE WakeInv'
  BY <1>0, <1>4 DEF FinishCall, InsertHeadList, SetWorkScheduled, CallsOK
<1>5. ASSUME NEW n \in Slots, TpInit(n) PROVE WakeInv'
  BY <1>5 DEF TpInit
<1>6. CASE TpInitNoThreads
  BY <1>6 DEF TpInitNoThreads
<1>7. CASE PsCreateSystemThread
  BY <1>7 DEF PsCreateSystemThread
<1>8. CASE CreateFails \/ TpUninit \/ TpUninitAgain
  BY <1>8 DEF CreateFails, TpUninit, TpUninitAgain, BeginUninit
<1>9. CASE UninitStep
  BY <1>9 DEF UninitStep, JoinThread, FreeHandles, DrainIsListEmpty,
              DrainRemoveHeadList, DrainRunItem, TypeInv, TypeOK, OwnerOK
<1>10. CASE UNCHANGED vars
  BY <1>10 DEF vars
<1> HIDE DEF eventVars, listVars, arrayVars, workerVars, ownerVars, WakeInv
<1> QED
  BY <1>1, <1>2, <1>3, <1>4, <1>5, <1>6, <1>7, <1>8, <1>9, <1>10
     DEF Next, WorkerStep

\* No queued item of a running pool is left with every worker asleep.
THEOREM NoLostWakeupCorrect == Spec => []NoLostWakeup
<1>1. Init => WakeInv
  BY DEF Init, WakeInv, NoLostWakeup, InFlight
<1>2. WakeInv => NoLostWakeup
  BY DEF WakeInv
<1> QED
  BY InitTypeInv, TypeStep, InitThreadsInv, ThreadsStep, <1>1, WakeStep, <1>2, PTL
     DEF Spec
-----------------------------------------------------------------------------
(***************************************************************************)
(* Where each item is: in the list once, or held by one thread, or taken by *)
(* TpUninit, or executed once; and whatever was owed is in one of these.    *)
(***************************************************************************)
HeldOnce == \A s, t \in Slots : holds[s] = holds[t] /\ holds[s] # NoItem => s = t

OnePlace ==
    /\ NoRepeat(listHead)
    /\ HeldOnce
    /\ Queued \cap Held = {}
    /\ (Queued \cup Held) \cap Draining = {}

Closed == owner \in {"idle", "failed", "dead"}

Accounting ==
    /\ \A i \in Items : executed[i] \in {0, 1}
    /\ InPool \cap Executed = {}
    /\ InPool \cup Executed \subseteq Accepted
    /\ owed \subseteq InPool \cup Executed
    /\ Closed => owed \subseteq Executed

QuietInv ==
    ~LateCalls =>
        /\ owner # "ready" => InFlight = {}
        /\ Accepted \subseteq InPool \cup Executed
        /\ Closed \/ owner = "create" => Accepted \subseteq Executed

ItemsInv == OnePlace /\ Accounting /\ QuietInv

LEMMA InitItemsInv == Init => ItemsInv
<1> SUFFICES ASSUME Init PROVE ItemsInv
  OBVIOUS
<1>1. Queued = {} /\ Held = {} /\ Draining = {} /\ Executed = {}
  BY DEF Init, Queued, Held, Draining, Executed
<1>2. InFlight = {} /\ Accepted = {}
  BY DEF Init, InFlight, Accepted
<1>3. NoRepeat(listHead) /\ HeldOnce
  BY DEF Init, NoRepeat, HeldOnce
<1> QED
  BY <1>1, <1>2, <1>3
     DEF ItemsInv, OnePlace, Accounting, QuietInv, InPool, Closed, Init

\* Nothing that ItemsInv reads has changed.
LEMMA ItemsUnchanged ==
    ItemsInv /\ UNCHANGED <<listHead, executed, holds, drains, call, owed, owner>>
    => ItemsInv'
  BY DEF ItemsInv, OnePlace, Accounting, QuietInv, InPool, Closed, Queued, Held,
         Draining, Executed, InFlight, Accepted, NoRepeat, HeldOnce

\* With the owner past the join loop, only the list and TpUninit have items.
LEMMA NothingHeld ==
    TypeInv /\ ThreadsInv /\ owner \notin {"create", "ready", "join"} => Held = {}
  BY DEF TypeInv, TypeOK, WorkersOK, ThreadsInv, RunningHolds, LiveHasHandle,
         Alive, Held

\* The phases of WorkQueue.
LEMMA Phases ==
    TypeInv =>
        /\ Closed => Phase = "closed"
        /\ owner \in {"create", "ready"} => Phase = "open"
        /\ owner = "join" /\ after # "again" => Phase = "closing"
        /\ owner \in {"drain", "pop", "drained"} => Phase = "closing"
  BY DEF Phase, Closed, TypeInv, AgainStops

\* Each step that moves an item keeps ItemsInv, and is a step of WorkQueue.  A
\* worker takes the oldest item: it moves within the pool.
LEMMA RemoveTailStep ==
    ASSUME TypeInv, ThreadsInv, ItemsInv, NEW t \in Slots, RemoveTailList(t)
    PROVE  ItemsInv' /\ Abstract!StartOldest
<1> DEFINE h == Head(listHead)
<1>1. listHead \in Seq(Items) /\ listHead # <<>> /\ holds \in [Slots -> Items \cup {NoItem}]
  BY DEF RemoveTailList, TypeInv, TypeOK, ItemsOK, WorkersOK
<1>2. h \in Items /\ h # NoItem /\ holds[t] = NoItem
  BY <1>1 DEF RemoveTailList, ThreadsInv, RunningHolds
<1>3. Queued = {h} \cup Queued' /\ h \notin Queued' /\ NoRepeat(listHead)'
  <2>1. Queued = Elements(listHead) /\ Queued' = Elements(Tail(listHead))
    BY DEF Queued, Elements, RemoveTailList
  <2>2. NoRepeat(listHead) /\ listHead' = Tail(listHead)
    BY DEF ItemsInv, OnePlace, RemoveTailList
  <2>3. /\ Elements(listHead) = {h} \cup Elements(Tail(listHead))
        /\ h \notin Elements(Tail(listHead)) /\ NoRepeat(Tail(listHead))
    BY <1>1, <2>2, TailElements
  <2> QED
    BY <2>1, <2>2, <2>3
<1>4. holds' = [holds EXCEPT ![t] = h]
  BY DEF RemoveTailList
<1> HIDE DEF h
<1>5. Held' = Held \cup {h}
  BY <1>1, <1>2, <1>4 DEF Held
<1>6. h \notin Held
  BY <1>3 DEF ItemsInv, OnePlace
<1>7. HeldOnce'
  BY <1>1, <1>2, <1>4, <1>6 DEF HeldOnce, Held, ItemsInv, OnePlace
<1>8. /\ Draining' = Draining /\ Executed' = Executed /\ Accepted' = Accepted
      /\ InFlight' = InFlight /\ owner' = owner /\ owed' = owed /\ executed' = executed
  BY DEF RemoveTailList, Draining, Executed, Accepted, InFlight, ownerVars
<1>9. InPool' = InPool
  BY <1>3, <1>5, <1>8 DEF InPool
<1>10. OnePlace'
  BY <1>3, <1>5, <1>6, <1>7, <1>8 DEF OnePlace, ItemsInv
<1>11. owner \in {"create", "ready", "join"} /\ after # "again" /\ Phase' = Phase
  BY <1>8 DEF RemoveTailList, ThreadsInv, LiveHasHandle, Alive, Phase, ownerVars
<1>12. Abstract!StartOldest
  <2>1. Phase # "closed"
    BY <1>11, Phases
  <2>2. Started' = Started \cup {Head(listHead)} /\ listHead' = Tail(listHead)
    BY <1>5, <1>8 DEF Started, RemoveTailList, h
  <2> QED
    BY <1>1, <1>8, <1>11, <2>1, <2>2 DEF Abstract!StartOldest
<1> QED
  BY <1>8, <1>9, <1>10, <1>12 DEF ItemsInv, Accounting, QuietInv, Closed

\* A worker finishes its item: it leaves the pool, executed once.
LEMMA RunItemStep ==
    ASSUME TypeInv, ThreadsInv, ItemsInv, NEW t \in Slots, RunItem(t)
    PROVE  ItemsInv' /\ \E i \in Items : Abstract!Finish(i)
<1> DEFINE h == holds[t]
<1>1. holds \in [Slots -> Items \cup {NoItem}] /\ executed \in [Items -> Nat]
  BY DEF TypeInv, TypeOK, ItemsOK, WorkersOK
<1>2. h \in Items /\ h # NoItem /\ h \in Held
  BY <1>1 DEF RunItem, ThreadsInv, RunningHolds, Held
<1>3. executed[h] = 0
  BY <1>2 DEF ItemsInv, Accounting, InPool, Executed
<1>4. executed' = [executed EXCEPT ![h] = 1]
  BY <1>3, <1>1 DEF RunItem
<1>5. holds' = [holds EXCEPT ![t] = NoItem]
  BY DEF RunItem
<1>6. HeldOnce /\ \A s \in Slots : holds[s] = h => s = t
  BY <1>2 DEF ItemsInv, OnePlace, HeldOnce
<1> HIDE DEF h
<1>7. Held' = Held \ {h}
  <2>1. \A s \in Slots : holds'[s] = IF s = t THEN NoItem ELSE holds[s]
    BY <1>1, <1>5
  <2>2. holds[t] = h
    BY DEF h
  <2> QED
    BY <1>2, <1>6, <2>1, <2>2 DEF Held
<1>8. Executed' = Executed \cup {h} /\ \A i \in Items : executed'[i] \in {0, 1}
  BY <1>1, <1>2, <1>4 DEF Executed, ItemsInv, Accounting
<1>9. HeldOnce'
  BY <1>1, <1>5, <1>6 DEF HeldOnce
<1>10. /\ Draining' = Draining /\ Queued' = Queued /\ Accepted' = Accepted
       /\ InFlight' = InFlight /\ owner' = owner /\ owed' = owed /\ listHead' = listHead
  BY DEF RunItem, Draining, Queued, Accepted, InFlight, ownerVars
<1>11. InPool' = InPool \ {h}
  BY <1>2, <1>7, <1>10 DEF InPool, ItemsInv, OnePlace
<1>12. OnePlace'
  BY <1>7, <1>9, <1>10 DEF OnePlace, ItemsInv, NoRepeat
<1>13. h \in InPool
  BY <1>2 DEF InPool
<1>14. Accounting'
  BY <1>8, <1>10, <1>11, <1>13 DEF ItemsInv, Accounting, Closed
<1>15. QuietInv'
  BY <1>8, <1>10, <1>11, <1>13 DEF ItemsInv, QuietInv, Closed
<1>16. Abstract!Finish(h)
  <2>1. h \in Started /\ Started' = Started \ {h}
    BY <1>2, <1>7, <1>10 DEF Started, ItemsInv, OnePlace
  <2>2. Phase' = Phase
    BY <1>10 DEF Phase, RunItem, ownerVars
  <2> QED
    BY <1>8, <1>10, <2>1, <2>2 DEF Abstract!Finish
<1> QED
  BY <1>2, <1>12, <1>14, <1>15, <1>16 DEF ItemsInv

\* A call links its item into the list: it enters the pool.
LEMMA InsertStep ==
    ASSUME TypeInv, ThreadsInv, ItemsInv, NEW i \in Items, InsertHeadList(i)
    PROVE  ItemsInv' /\ Abstract!Submit(i)
<1>1. /\ listHead \in Seq(Items) /\ call[i] = "allocated"
      /\ call \in [Items -> {"idle", "allocated", "inserted", "returned", "refused"}]
  BY DEF InsertHeadList, TypeInv, TypeOK, ItemsOK, CallsOK
<1>2. i \notin Accepted /\ i \in InFlight
  BY <1>1 DEF Accepted, InFlight
<1>3. i \notin InPool /\ i \notin Executed
  BY <1>2 DEF ItemsInv, Accounting
<1>4. Queued' = Queued \cup {i} /\ NoRepeat(listHead)'
  <2>1. Queued = Elements(listHead) /\ Queued' = Elements(Append(listHead, i))
    BY DEF Queued, Elements, InsertHeadList
  <2>2. NoRepeat(listHead) /\ i \notin Elements(listHead)
    BY <1>3, <2>1 DEF ItemsInv, OnePlace, InPool
  <2>3. /\ Elements(Append(listHead, i)) = Elements(listHead) \cup {i}
        /\ NoRepeat(Append(listHead, i))
    BY <1>1, <2>2, AppendElements
  <2> QED
    BY <2>1, <2>3 DEF InsertHeadList
<1>5. Accepted' = Accepted \cup {i} /\ InFlight' = InFlight
  BY <1>1 DEF InsertHeadList, Accepted, InFlight
<1>6. /\ Draining' = Draining /\ Held' = Held /\ holds' = holds /\ Executed' = Executed
      /\ owner' = owner /\ owed' = owed /\ executed' = executed
  BY DEF InsertHeadList, Draining, Held, Executed, ownerVars, workerVars
<1>7. InPool' = InPool \cup {i}
  BY <1>4, <1>6 DEF InPool
<1>8. OnePlace'
  BY <1>3, <1>4, <1>6 DEF OnePlace, ItemsInv, HeldOnce, InPool
<1>9. Accounting'
  BY <1>3, <1>5, <1>6, <1>7 DEF ItemsInv, Accounting, Closed
<1>10. QuietInv'
  BY <1>2, <1>5, <1>6, <1>7 DEF ItemsInv, QuietInv, Closed
<1>11. Abstract!Submit(i)
  <2>1. i \notin Started \cup Executed \cup Abstract!Pending
    BY <1>3 DEF InPool, Started, Queued, Abstract!Pending
  <2>2. Started' = Started /\ Phase' = Phase /\ listHead' = Append(listHead, i)
    BY <1>6 DEF Started, Phase, InsertHeadList, ownerVars
  <2> QED
    BY <1>6, <2>1, <2>2 DEF Abstract!Submit
<1> QED
  BY <1>8, <1>9, <1>10, <1>11 DEF ItemsInv

\* TpUninit takes the newest item.
LEMMA DrainRemoveStep ==
    ASSUME TypeInv, ThreadsInv, ItemsInv, DrainRemoveHeadList
    PROVE  ItemsInv' /\ Abstract!StartNewest
<1> DEFINE h == listHead[Len(listHead)]
<1> DEFINE front == SubSeq(listHead, 1, Len(listHead) - 1)
<1>1. listHead \in Seq(Items) /\ listHead # <<>> /\ NoRepeat(listHead)
  BY DEF DrainRemoveHeadList, TypeInv, TypeOK, ItemsOK, ThreadsInv, OwnerPlace,
         ItemsInv, OnePlace
<1>2. /\ drains' = h /\ listHead' = front /\ owner' = "drained"
      /\ drains = NoItem /\ owner = "pop"
  BY <1>1 DEF DrainRemoveHeadList, ThreadsInv, OwnerPlace
<1>3. Elements(listHead) = {h} \cup Elements(front) /\ h \notin Elements(front)
      /\ NoRepeat(front)
  BY <1>1, FrontElements
<1>4. h \in Items /\ h # NoItem
  <2>1. Len(listHead) \in 1..Len(listHead)
    BY <1>1
  <2> QED
    BY <1>1, <2>1
<1> HIDE DEF h, front
<1>5. Queued = {h} \cup Queued' /\ h \notin Queued' /\ NoRepeat(listHead)'
  BY <1>2, <1>3 DEF Queued, Elements, NoRepeat
<1>6. Draining = {} /\ Draining' = {h}
  BY <1>2, <1>4 DEF Draining
<1>7. /\ Held' = Held /\ holds' = holds /\ Executed' = Executed /\ Accepted' = Accepted
      /\ InFlight' = InFlight /\ owed' = owed /\ executed' = executed
  BY DEF DrainRemoveHeadList, Held, Executed, Accepted, InFlight, workerVars
<1>8. InPool' = InPool
  BY <1>5, <1>6, <1>7 DEF InPool
<1>9. OnePlace'
  BY <1>5, <1>6, <1>7 DEF OnePlace, ItemsInv, HeldOnce
<1>10. Abstract!StartNewest
  <2>1. Phase = "closing" /\ Phase' = "closing"
    BY <1>2 DEF Phase, DrainRemoveHeadList, TypeInv, AgainStops
  <2>2. Held = {}
    BY <1>2, NothingHeld
  <2>3. Started = {} /\ Started' = {h}
    BY <1>6, <1>7, <2>2 DEF Started
  <2> QED
    BY <1>1, <1>2, <1>7, <2>1, <2>3 DEF Abstract!StartNewest, h, front
<1> QED
  BY <1>2, <1>7, <1>8, <1>9, <1>10 DEF ItemsInv, Accounting, QuietInv, Closed

\* TpUninit finishes the item it took.
LEMMA DrainRunStep ==
    ASSUME TypeInv, ThreadsInv, ItemsInv, DrainRunItem
    PROVE  ItemsInv' /\ \E i \in Items : Abstract!Finish(i)
<1> DEFINE h == drains
<1>1. executed \in [Items -> Nat] /\ h \in Items /\ h # NoItem /\ Draining = {h}
  BY DEF TypeInv, TypeOK, ItemsOK, DrainRunItem, ThreadsInv, OwnerPlace, Draining
<1>2. executed[h] = 0
  BY <1>1 DEF ItemsInv, Accounting, InPool, Executed
<1>3. executed' = [executed EXCEPT ![h] = 1] /\ Draining' = {}
  BY <1>1, <1>2 DEF DrainRunItem, Draining
<1> HIDE DEF h
<1>4. Executed' = Executed \cup {h} /\ \A i \in Items : executed'[i] \in {0, 1}
  BY <1>1, <1>3 DEF Executed, ItemsInv, Accounting
<1>5. /\ Queued' = Queued /\ Held' = Held /\ Accepted' = Accepted /\ InFlight' = InFlight
      /\ owed' = owed /\ listHead' = listHead /\ holds' = holds
      /\ owner = "drained" /\ owner' = "drain"
  BY DEF DrainRunItem, Queued, Held, Accepted, InFlight, workerVars
<1>6. InPool' = InPool \ {h} /\ h \in InPool
  BY <1>1, <1>3, <1>5 DEF InPool, ItemsInv, OnePlace
<1>7. OnePlace'
  BY <1>3, <1>5 DEF OnePlace, ItemsInv, HeldOnce, NoRepeat
<1>8. Accounting'
  BY <1>4, <1>5, <1>6 DEF ItemsInv, Accounting, Closed
<1>9. QuietInv'
  BY <1>4, <1>5, <1>6 DEF ItemsInv, QuietInv, Closed
<1>10. Abstract!Finish(h)
  <2>1. h \in Started /\ Started' = Started \ {h}
    BY <1>1, <1>3, <1>5 DEF Started, ItemsInv, OnePlace
  <2>2. Phase' = Phase
    BY <1>5 DEF Phase, DrainRunItem
  <2> QED
    BY <1>4, <1>5, <2>1, <2>2 DEF Abstract!Finish
<1> QED
  BY <1>1, <1>7, <1>8, <1>9, <1>10 DEF ItemsInv

\* TpUninit returns: with nothing held, an empty list leaves nothing owed.
LEMMA DrainIsListEmptyStep ==
    ASSUME TypeInv, ThreadsInv, ItemsInv, DrainIsListEmpty
    PROVE  ItemsInv' /\ [Abstract!EndClose]_(Abstract!vars)
<1>1. /\ UNCHANGED <<listHead, executed, holds, drains, call, owed>>
      /\ owner = "drain" /\ (owner' = "pop" \/ (listHead = <<>> /\ owner' = after))
      /\ after \in {"dead", "failed"}
  <2>1. UNCHANGED <<listHead, executed, holds, drains, call, owed>>
    BY DEF DrainIsListEmpty, listVars, workerVars
  <2>2. owner = "drain" /\ owner' = IF listHead = <<>> THEN after ELSE "pop"
    BY DEF DrainIsListEmpty
  <2>3. after \in {"dead", "failed"}
    BY <2>2 DEF TypeInv, TypeOK, OwnerOK, AgainStops
  <2>4. owner' = "pop" \/ (listHead = <<>> /\ owner' = after)
    BY <2>2, Zenon
  <2> QED
    BY <2>1, <2>2, <2>3, <2>4, Zenon
<1>2. Held = {} /\ Draining = {}
  BY <1>1, NothingHeld DEF ThreadsInv, OwnerPlace, Draining
<1>3. listHead = <<>> => InPool = {}
  BY <1>2 DEF InPool, Queued
<1>4. /\ InPool' = InPool /\ Executed' = Executed /\ Accepted' = Accepted
      /\ InFlight' = InFlight
  BY <1>1 DEF InPool, Queued, Held, Draining, Executed, Accepted, InFlight
<1>5. OnePlace'
  BY <1>1 DEF ItemsInv, OnePlace, NoRepeat, HeldOnce, Queued, Held, Draining
<1>6. Accounting'
  BY <1>1, <1>3, <1>4 DEF ItemsInv, Accounting, Closed
<1>7. QuietInv'
  BY <1>1, <1>3, <1>4 DEF ItemsInv, QuietInv, Closed
<1>8. Started = {} /\ Started' = Started
  BY <1>1, <1>2 DEF Started, Held, Draining
<1>9. CASE owner' = "pop"
  <2>1. Phase' = Phase
    BY <1>1, <1>9 DEF Phase, DrainIsListEmpty
  <2> QED
    BY <1>1, <1>4, <1>5, <1>6, <1>7, <1>8, <2>1 DEF ItemsInv, Abstract!vars
<1>10. CASE listHead = <<>> /\ owner' = after
  <2>1. owed \subseteq Executed
    BY <1>3, <1>10 DEF ItemsInv, Accounting
  <2>2. Phase = "closing" /\ Phase' = "closed"
    BY <1>1, <1>10, Phases DEF Phase
  <2>3. Abstract!EndClose
    BY <1>1, <1>4, <1>8, <2>1, <2>2 DEF Abstract!EndClose
  <2> QED
    BY <1>5, <1>6, <1>7, <2>3 DEF ItemsInv
<1> QED
  BY <1>1, <1>9, <1>10

\* The steps of a call other than the insertion.
LEMMA CallStep ==
    ASSUME TypeInv, ItemsInv, NEW i \in Items, AllocateItem(i) \/ SetWorkScheduled(i)
    PROVE  ItemsInv' /\ UNCHANGED Abstract!vars
<1>1. /\ UNCHANGED <<listHead, executed, holds, drains, owed, owner>>
      /\ call \in [Items -> {"idle", "allocated", "inserted", "returned", "refused"}]
  BY DEF AllocateItem, SetWorkScheduled, listVars, workerVars, ownerVars, TypeInv,
         TypeOK, CallsOK
<1>2. Accepted' = Accepted
  BY <1>1 DEF AllocateItem, SetWorkScheduled, Accepted
<1>3. ~LateCalls /\ owner # "ready" => InFlight' = {}
  BY <1>1 DEF AllocateItem, SetWorkScheduled, MayCall, InFlight, ItemsInv, QuietInv
<1>4. InPool' = InPool /\ Executed' = Executed
  BY <1>1 DEF InPool, Queued, Held, Draining, Executed
<1>5. OnePlace'
  BY <1>1 DEF ItemsInv, OnePlace, NoRepeat, HeldOnce, Queued, Held, Draining
<1>6. UNCHANGED Abstract!vars
  BY <1>1, <1>4 DEF Abstract!vars, Started, Held, Draining, Phase, AllocateItem,
     SetWorkScheduled, ownerVars
<1> QED
  BY <1>1, <1>2, <1>3, <1>4, <1>5, <1>6 DEF ItemsInv, Accounting, QuietInv, Closed

\* TpInit forgets the list; a pool without late calls has nothing in it then.
LEMMA TpInitStep ==
    ASSUME TypeInv, ThreadsInv, ItemsInv, NEW n \in Slots, TpInit(n)
    PROVE  ItemsInv' /\ Abstract!Open
<1>1. /\ UNCHANGED <<executed, holds, drains, call>> /\ listHead' = <<>>
      /\ owed' = {} /\ Closed /\ owner' \in {"create", "failed"} /\ InFlight = {}
  BY DEF TpInit, workerVars, Closed
<1>2. Held = {} /\ Draining = {}
  BY <1>1, NothingHeld DEF ThreadsInv, OwnerPlace, Draining, Closed
<1>3. Queued' = {} /\ InPool' = {} /\ NoRepeat(listHead)'
  BY <1>1, <1>2 DEF InPool, Queued, Held, Draining, NoRepeat
<1>4. Executed' = Executed /\ Accepted' = Accepted /\ InFlight' = InFlight
  BY <1>1 DEF Executed, Accepted, InFlight
<1>5. OnePlace'
  BY <1>1, <1>2, <1>3 DEF ItemsInv, OnePlace, HeldOnce, Held, Draining
<1>6. Accounting'
  BY <1>1, <1>3, <1>4 DEF ItemsInv, Accounting
<1>7. QuietInv'
  BY <1>1, <1>3, <1>4 DEF ItemsInv, QuietInv
<1>8. Abstract!Open
  <2>1. Phase = "closed" /\ Phase' \in {"open", "closed"}
    BY <1>1 DEF Phase, Closed
  <2>2. Started = {} /\ Started' = Started
    BY <1>1, <1>2 DEF Started, Held, Draining
  <2> QED
    BY <1>1, <1>4, <2>1, <2>2 DEF Abstract!Open
<1> QED
  BY <1>5, <1>6, <1>7, <1>8 DEF ItemsInv

\* TpUninit is called, by the owner or by a TpInit that cannot go on.
LEMMA BeginUninitStep ==
    ASSUME TypeInv, ThreadsInv, ItemsInv, CreateFails \/ TpUninit
    PROVE  ItemsInv' /\ Abstract!BeginClose
<1>1. /\ UNCHANGED <<listHead, executed, holds, drains, call>>
      /\ owed' = Queued \cup Held /\ owner' = "join" /\ owner \in {"create", "ready"}
      /\ owner = "ready" => LateCalls \/ InFlight = {}
  BY DEF CreateFails, TpUninit, BeginUninit, listVars, workerVars
<1>2. /\ InPool' = InPool /\ Executed' = Executed /\ Accepted' = Accepted
      /\ InFlight' = InFlight
  BY <1>1 DEF InPool, Queued, Held, Draining, Executed, Accepted, InFlight
<1>3. OnePlace'
  BY <1>1 DEF ItemsInv, OnePlace, NoRepeat, HeldOnce, Queued, Held, Draining
<1>4. Accounting'
  BY <1>1, <1>2 DEF ItemsInv, Accounting, Closed, InPool
<1>5. QuietInv'
  BY <1>1, <1>2 DEF ItemsInv, QuietInv, Closed
<1>6. Abstract!BeginClose
  <2>1. Phase = "open" /\ Phase' = "closing"
    BY <1>1, Phases DEF Phase, CreateFails, TpUninit, BeginUninit
  <2>2. Draining = {}
    BY <1>1 DEF ThreadsInv, OwnerPlace, Draining
  <2>3. owed' = Abstract!Pending \cup Started
    BY <1>1, <2>2 DEF Abstract!Pending, Queued, Started
  <2>4. Started' = Started
    BY <1>1 DEF Started, Held, Draining
  <2> QED
    BY <1>1, <1>2, <2>1, <2>3, <2>4 DEF Abstract!BeginClose
<1> QED
  BY <1>3, <1>4, <1>5, <1>6 DEF ItemsInv

\* Steps that only move the owner or a waiting worker.
LEMMA OtherStep ==
    ASSUME TypeInv, ThreadsInv, ItemsInv,
           \/ \E t \in Slots : WaitStop(t) \/ WaitWork(t) \/ FoundEmpty(t)
           \/ TpInitNoThreads \/ PsCreateSystemThread \/ JoinThread \/ FreeHandles
           \/ TpUninitAgain
           \/ UNCHANGED vars
    PROVE  ItemsInv' /\ UNCHANGED Abstract!vars
<1>1. UNCHANGED <<listHead, executed, holds, drains, call, owed>>
  BY DEF WaitStop, WaitWork, FoundEmpty, TpInitNoThreads, PsCreateSystemThread,
         JoinThread, FreeHandles, TpUninitAgain, vars, listVars, workerVars,
         ownerVars
<1>2. \/ UNCHANGED owner
      \/ Closed /\ Closed'
      \/ Closed /\ owner' \in {"join", "bugcheck"}
      \/ /\ ~Closed /\ ~Closed' /\ owner # "ready"
         /\ owner' \in {"ready", "create"} => owner = "create"
  BY DEF WaitStop, WaitWork, FoundEmpty, TpInitNoThreads, PsCreateSystemThread,
         JoinThread, FreeHandles, TpUninitAgain, vars, ownerVars, Closed, ThreadsInv,
         HandlesInRange
<1>3. /\ InPool' = InPool /\ Executed' = Executed /\ Accepted' = Accepted
      /\ InFlight' = InFlight
  BY <1>1 DEF InPool, Queued, Held, Draining, Executed, Accepted, InFlight
<1>4. OnePlace'
  BY <1>1 DEF ItemsInv, OnePlace, NoRepeat, HeldOnce, Queued, Held, Draining
<1>5. Accounting'
  BY <1>1, <1>2, <1>3 DEF ItemsInv, Accounting, Closed
<1>6. QuietInv'
  BY <1>1, <1>2, <1>3 DEF ItemsInv, QuietInv, Closed
<1>7. Phase' = Phase
  BY DEF WaitStop, WaitWork, FoundEmpty, TpInitNoThreads, PsCreateSystemThread,
         JoinThread, FreeHandles, TpUninitAgain, vars, ownerVars, ThreadsInv,
         HandlesInRange, TypeInv, AgainStops, Phase
<1>8. UNCHANGED Abstract!vars
  BY <1>1, <1>3, <1>7 DEF Abstract!vars, Started, Held, Draining
<1> QED
  BY <1>4, <1>5, <1>6, <1>8 DEF ItemsInv

LEMMA ItemsStep ==
    TypeInv /\ ThreadsInv /\ ItemsInv /\ [Next]_vars
    => ItemsInv' /\ [Abstract!Next]_(Abstract!vars)
  BY RemoveTailStep, RunItemStep, InsertStep, DrainRemoveStep, DrainRunStep,
     DrainIsListEmptyStep, CallStep, TpInitStep, BeginUninitStep, OtherStep
     DEF Next, WorkerStep, FinishCall, UninitStep, Abstract!Next

IInv == TypeInv /\ ThreadsInv /\ ItemsInv

LEMMA Inductive == Spec => []IInv
<1>1. Init => IInv
  BY InitTypeInv, InitThreadsInv, InitItemsInv DEF IInv
<1>2. IInv /\ [Next]_vars => IInv'
  BY TypeStep, ThreadsStep, ItemsStep DEF IInv
<1> QED
  BY <1>1, <1>2, PTL DEF Spec

\* An executed item is freed and is nowhere in the pool again: no item is ever
\* executed twice or touched after it was freed.
THEOREM NoUseAfterFreeCorrect == Spec => []NoUseAfterFree
<1>1. IInv => NoUseAfterFree
  BY DEF IInv, ItemsInv, Accounting, NoUseAfterFree, Executed
<1> QED
  BY Inductive, <1>1, PTL

\* TpUninit returns only when everything that was in the pool when it was
\* called has been executed, whatever is enqueued meanwhile.
THEOREM OwedAreExecutedCorrect == Spec => []OwedAreExecuted
<1>1. IInv => OwedAreExecuted
  BY DEF IInv, ItemsInv, Accounting, Closed, OwedAreExecuted
<1> QED
  BY Inductive, <1>1, PTL

\* If calls and TpUninit are kept apart, everything ever accepted has been
\* executed when TpUninit returns: UnitTest1's count of 100000000.
THEOREM AllExecutedCorrect == Spec => []AllExecuted
<1>1. IInv => AllExecuted
  <2> SUFFICES ASSUME IInv, ~LateCalls, owner \in {"dead", "failed", "idle"},
                      NEW i \in Items, call[i] \notin {"idle", "refused"}
               PROVE  executed[i] = 1
    BY DEF AllExecuted
  <2>1. InFlight = {} /\ Accepted \subseteq Executed
    BY DEF IInv, ItemsInv, QuietInv, Closed
  <2>2. i \in Accepted
    BY <2>1 DEF IInv, TypeInv, TypeOK, CallsOK, Accepted, InFlight
  <2> QED
    BY <2>1, <2>2 DEF IInv, ItemsInv, Accounting, Executed
<1> QED
  BY Inductive, <1>1, PTL
-----------------------------------------------------------------------------
(***************************************************************************)
(* The pool implements WorkQueue                                           *)
(***************************************************************************)
\* Threads, events and locks, failures of TpInit and late calls included, the pool
\* does nothing that WorkQueue does not allow: items start once, oldest first, what
\* is left at TpUninit newest first, and TpUninit returns when all it owes is done.
THEOREM ImplementsCorrect == Spec => ImplementsWorkQueue
<1>1. Init => Abstract!Init
  BY DEF Init, Abstract!Init, Started, Held, Draining, Executed, Phase
<1>2. IInv /\ [Next]_vars => [Abstract!Next]_(Abstract!vars)
  BY ItemsStep DEF IInv
<1> QED
  BY Inductive, <1>1, <1>2, PTL DEF Spec, ImplementsWorkQueue, Abstract!Spec
=============================================================================
