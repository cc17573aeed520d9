------------------------ MODULE ProcessProtectProofs ------------------------
(***************************************************************************)
(* What TLAPS proves of ProcessProtect, for any table size, any ids, any    *)
(* inputs and any number of callers.                                       *)
(***************************************************************************)
EXTENDS ProcessProtect, FiniteSetTheorems, TLAPS

USE NobodyAssumption, MAXPIDSAssumption, BuffersAssumption

\* A caller between the search and AddProcess has an id at hand.
AtHand ==
    \A c \in Callers : at[c] \in {"limit", "add"} =>
        data[c] # <<>> /\ Head(data[c]) \in Pids

\* Whoever was promised protection is in the table.
PromisedAreThere == \A p \in promised : Copies(p) # {}

TableOK ==
    /\ pids \in [Slots -> Pids \cup {Nobody}]
    /\ pidsCount \in Nat
    /\ promised \subseteq Pids

DataOK == data \in [Callers -> Seq(Pids \cup {Nobody})]

PlaceOK == at \in [Callers -> {"idle", "protect", "limit", "add", "unprotect", "stop"}]

StatusOK ==
    status \in [Callers -> {"success", "invalid_buffer_size", "invalid_parameter",
                            "too_many", "unsuccessful"}]

IInv ==
    TableOK /\ DataOK /\ PlaceOK /\ AtHand /\ CountCovers /\ PromisedAreThere /\ PromiseKept

\* The table is finite, so its slots can be counted.
LEMMA OccupiedFinite ==
    IsFiniteSet(Slots) /\ Cardinality(Slots) = MAXPIDS
    /\ IsFiniteSet(Occupied) /\ Cardinality(Occupied) \in Nat
<1>1. IsFiniteSet(Slots) /\ Cardinality(Slots) = MAXPIDS
  BY FS_Interval DEF Slots
<1>2. IsFiniteSet(Occupied)
  BY <1>1, FS_Subset DEF Occupied
<1> QED
  BY <1>1, <1>2, FS_CardinalityType

\* Filling a free slot adds one to the table, freeing a full one takes one off.
LEMMA FillSlot ==
    ASSUME TableOK, NEW s \in Slots, pids[s] = Nobody, NEW p \in Pids,
           pids' = [pids EXCEPT ![s] = p]
    PROVE  Cardinality(Occupied') = Cardinality(Occupied) + 1
<1>1. Occupied' = Occupied \cup {s} /\ s \notin Occupied
  BY DEF Occupied, TableOK
<1> QED
  BY <1>1, OccupiedFinite, FS_AddElement

LEMMA FreeSlot ==
    ASSUME TableOK, NEW s \in Slots, pids[s] # Nobody,
           pids' = [pids EXCEPT ![s] = Nobody]
    PROVE  /\ Cardinality(Occupied') = Cardinality(Occupied) - 1
           /\ Cardinality(Occupied) >= 1
<1>1. Occupied' = Occupied \ {s} /\ s \in Occupied
  BY DEF Occupied, TableOK
<1>2. Cardinality(Occupied) # 0
  BY <1>1, OccupiedFinite, FS_EmptySet
<1>3. Cardinality(Occupied \ {s}) = Cardinality(Occupied) - 1
  BY <1>1, OccupiedFinite, FS_RemoveElement
<1> QED
  BY <1>1, <1>2, <1>3, OccupiedFinite

LEMMA InitIInv == Init => IInv
<1> SUFFICES ASSUME Init PROVE IInv
  OBVIOUS
<1>1. Occupied = {}
  BY DEF Init, Occupied
<1>2. CountCovers
  BY <1>1, FS_EmptySet DEF Init, CountCovers
<1>3. TableOK /\ DataOK /\ PlaceOK
  BY DEF Init, TableOK, DataOK, PlaceOK
<1>4. AtHand /\ PromisedAreThere /\ PromiseKept
  BY DEF Init, AtHand, PromisedAreThere, PromiseKept
<1> QED
  BY <1>2, <1>3, <1>4 DEF IInv

\* The table, its counter and the promises are as they were.
LEMMA TableUnchanged ==
    IInv /\ UNCHANGED <<pids, pidsCount, promised, cleared, handle>>
    => TableOK' /\ CountCovers' /\ PromisedAreThere' /\ PromiseKept'
  BY DEF IInv, TableOK, CountCovers, Occupied, PromisedAreThere, Copies, PromiseKept

\* A step that moves one caller and changes at most its own input.
LEMMA CallerMoves ==
    ASSUME DataOK, PlaceOK, AtHand, NEW c \in Callers,
           NEW x \in {"idle", "protect", "limit", "add", "unprotect", "stop"},
           NEW d \in Seq(Pids \cup {Nobody}),
           at' = [at EXCEPT ![c] = x], data' = [data EXCEPT ![c] = d],
           x \in {"limit", "add"} => d # <<>> /\ Head(d) \in Pids
    PROVE  DataOK' /\ PlaceOK' /\ AtHand'
<1>1. DataOK'
  BY DEF DataOK
<1>2. PlaceOK'
  BY DEF PlaceOK
<1>3. \A b \in Callers : at'[b] = (IF b = c THEN x ELSE at[b])
                       /\ data'[b] = (IF b = c THEN d ELSE data[b])
  BY DEF DataOK, PlaceOK
<1>4. AtHand'
  BY <1>3 DEF AtHand
<1> QED
  BY <1>1, <1>2, <1>4

\* What a caller that stays put does to the two functions.
LEMMA Unmoved ==
    ASSUME DataOK, PlaceOK, NEW c \in Callers
    PROVE  /\ data[c] \in Seq(Pids \cup {Nobody}) /\ data = [data EXCEPT ![c] = data[c]]
           /\ at = [at EXCEPT ![c] = at[c]]
  BY DEF DataOK, PlaceOK

\* The steps that leave the table alone and end, or begin, a loop.
LEMMA ArriveStep ==
    ASSUME IInv, NEW c \in Callers, NEW loop \in {"protect", "unprotect"}, Arrive(c, loop)
    PROVE  IInv'
<1>1. PICK b \in Buffers :
        /\ data' = [data EXCEPT ![c] = IF b = Ragged THEN <<>> ELSE b]
        /\ at' = [at EXCEPT ![c] = IF b = Ragged THEN "idle" ELSE loop]
  BY DEF Arrive
<1>2. (IF b = Ragged THEN <<>> ELSE b) \in Seq(Pids \cup {Nobody})
  OBVIOUS
<1>3. (IF b = Ragged THEN "idle" ELSE loop) \in {"idle", "protect", "unprotect"}
  OBVIOUS
<1> DEFINE d == IF b = Ragged THEN <<>> ELSE b
           x == IF b = Ragged THEN "idle" ELSE loop
<1>4. data' = [data EXCEPT ![c] = d] /\ at' = [at EXCEPT ![c] = x]
  BY <1>1
<1>5. /\ d \in Seq(Pids \cup {Nobody}) /\ x \notin {"limit", "add"}
      /\ x \in {"idle", "protect", "limit", "add", "unprotect", "stop"}
  BY <1>2, <1>3
<1> HIDE DEF d, x
<1>6. DataOK' /\ PlaceOK' /\ AtHand'
  BY <1>4, <1>5, CallerMoves DEF IInv
<1> QED
  BY <1>6, TableUnchanged DEF IInv, Arrive

LEMMA CompleteStep ==
    ASSUME IInv, NEW c \in Callers, NEW r, Complete(c, r),
           UNCHANGED <<pids, pidsCount, promised, cleared, handle>>
    PROVE  IInv'
<1>1. <<>> \in Seq(Pids \cup {Nobody})
  OBVIOUS
<1>2. at' = [at EXCEPT ![c] = "idle"] /\ data' = [data EXCEPT ![c] = <<>>]
  BY DEF Complete
<1>3. DataOK /\ PlaceOK /\ AtHand
  BY DEF IInv
<1>4. DataOK' /\ PlaceOK' /\ AtHand'
  BY <1>1, <1>2, <1>3, CallerMoves
<1> QED
  BY <1>4, TableUnchanged DEF IInv

LEMMA EndOfLoopStep ==
    ASSUME IInv, NEW c \in Callers, NEW loop, EndOfLoop(c, loop)
    PROVE  IInv'
  BY CompleteStep DEF EndOfLoop

\* The two unlocked reads of PidsCount.
LEMMA LimitStep ==
    ASSUME IInv, NEW c \in Callers, ProtectLimit(c) \/ UnprotectStop(c)
    PROVE  IInv'
<1>1. CASE \E r : Complete(c, r)
  BY <1>1, CompleteStep DEF ProtectLimit, UnprotectStop
<1>2. ASSUME NEW x \in {"add", "unprotect"}, GoTo(c, x), UNCHANGED data,
             x = "add" => at[c] = "limit"
      PROVE  IInv'
  <2>1. x = "add" => data[c] # <<>> /\ Head(data[c]) \in Pids
    BY <1>2 DEF IInv, AtHand
  <2>2. data[c] \in Seq(Pids \cup {Nobody}) /\ data' = [data EXCEPT ![c] = data[c]]
    BY <1>2, Unmoved DEF IInv
  <2>3. DataOK' /\ PlaceOK' /\ AtHand'
    BY <1>2, <2>1, <2>2, CallerMoves DEF IInv, GoTo
  <2> QED
    BY <2>3, TableUnchanged DEF IInv, ProtectLimit, UnprotectStop
<1> QED
  BY <1>1, <1>2 DEF ProtectLimit, UnprotectStop

\* The search found the id, so promising it is right, or goes on to add it.
LEMMA FindStep ==
    ASSUME IInv, NEW c \in Callers, ProtectFind(c)
    PROVE  IInv'
<1> DEFINE p == Head(data[c])
<1>1. data[c] \in Seq(Pids \cup {Nobody}) /\ data[c] # <<>> /\ at[c] = "protect"
  BY Unmoved DEF IInv, ProtectFind, Looking
<1>2. p \in Pids /\ Tail(data[c]) \in Seq(Pids \cup {Nobody})
  BY <1>1 DEF ProtectFind, Looking
<1>3. DataOK' /\ PlaceOK' /\ AtHand'
  <2>1. CASE NextId(c) /\ UNCHANGED at
    <3>1. at' = [at EXCEPT ![c] = "protect"]
      BY <1>1, <2>1, Unmoved DEF IInv
    <3> QED
      BY <1>2, <2>1, <3>1, CallerMoves DEF IInv, NextId
  <2>2. CASE GoTo(c, "limit") /\ UNCHANGED data
    <3>1. data' = [data EXCEPT ![c] = data[c]]
      BY <2>2, Unmoved DEF IInv
    <3> QED
      BY <1>1, <1>2, <2>2, <3>1, CallerMoves DEF IInv, GoTo
  <2> QED
    BY <2>1, <2>2 DEF ProtectFind
<1>4. PromisedAreThere'
  BY DEF IInv, ProtectFind, PromisedAreThere, FindProcess, Copies
<1>5. TableOK' /\ CountCovers' /\ PromiseKept'
  BY <1>2 DEF IInv, ProtectFind, TableOK, CountCovers, Occupied, PromiseKept
<1> QED
  BY <1>3, <1>4, <1>5 DEF IInv

\* AddProcess fills a free slot and counts it, or ends the loop.
LEMMA AddStep ==
    ASSUME IInv, NEW c \in Callers, ProtectAdd(c)
    PROVE  IInv'
<1> DEFINE p == Head(data[c])
<1>1. CASE ~FindProcess(Nobody) /\ Complete(c, "unsuccessful") /\ UNCHANGED <<pids, pidsCount, promised>>
  BY <1>1, CompleteStep DEF ProtectAdd
<1>2. ASSUME NEW s \in Slots, IsFirst(s, Copies(Nobody)),
             pids' = [pids EXCEPT ![s] = p], pidsCount' = pidsCount + 1,
             promised' = promised \cup {p}, GoTo(c, "protect"), NextId(c),
             UNCHANGED <<handle, cleared>>, at[c] = "add"
      PROVE  IInv'
  <2>1. data[c] \in Seq(Pids \cup {Nobody}) /\ data[c] # <<>> /\ p \in Pids
    BY <1>2, Unmoved DEF IInv, AtHand
  <2>2. Tail(data[c]) \in Seq(Pids \cup {Nobody})
    BY <2>1
  <2>3. DataOK' /\ PlaceOK' /\ AtHand'
    BY <1>2, <2>2, CallerMoves DEF IInv, GoTo, NextId
  <2>4. pids[s] = Nobody
    BY <1>2 DEF IsFirst, Copies
  <2> HIDE DEF p
  <2>5. CountCovers'
    <3>1. Cardinality(Occupied') = Cardinality(Occupied) + 1
      BY <1>2, <2>1, <2>4, FillSlot DEF IInv
    <3> QED
      BY <1>2, <3>1, OccupiedFinite DEF IInv, CountCovers, TableOK
  <2>6. TableOK'
    BY <1>2, <2>1 DEF IInv, TableOK
  <2>7. PromisedAreThere'
    <3>1. pids'[s] = p /\ \A t \in Slots : pids[t] # Nobody => pids'[t] = pids[t]
      BY <1>2, <2>4 DEF IInv, TableOK
    <3> SUFFICES ASSUME NEW q \in promised \cup {p} PROVE \E t \in Slots : pids'[t] = q
      BY <1>2 DEF PromisedAreThere, Copies
    <3>2. CASE q # p
      <4>1. PICK t \in Slots : pids[t] = q
        BY <3>2 DEF IInv, PromisedAreThere, Copies
      <4>2. q # Nobody
        BY <3>2 DEF IInv, TableOK
      <4> QED
        BY <3>1, <4>1, <4>2
    <3> QED
      BY <3>1, <3>2
  <2>8. PromiseKept'
    BY <1>2 DEF IInv, PromiseKept
  <2> QED
    BY <2>3, <2>5, <2>6, <2>7, <2>8 DEF IInv
<1> QED
  BY <1>1, <1>2 DEF ProtectAdd

\* RemoveProcess frees one slot of the id, if it has one, and nothing promises
\* the id any more.
LEMMA RemoveStep ==
    ASSUME IInv, NEW c \in Callers, UnprotectRemove(c)
    PROVE  IInv'
<1> DEFINE p == Head(data[c])
<1>1. data[c] \in Seq(Pids \cup {Nobody}) /\ data[c] # <<>> /\ at[c] = "unprotect"
      /\ p # Nobody
  BY Unmoved DEF IInv, UnprotectRemove, Looking
<1>2. Tail(data[c]) \in Seq(Pids \cup {Nobody}) /\ NextId(c)
      /\ promised' = promised \ {p} /\ UNCHANGED <<handle, cleared>>
  BY <1>1 DEF UnprotectRemove
<1>3. CASE UNCHANGED <<pids, pidsCount, at>>
  <2>1. at' = [at EXCEPT ![c] = "unprotect"]
    BY <1>1, <1>3, Unmoved DEF IInv
  <2>2. DataOK' /\ PlaceOK' /\ AtHand'
    BY <1>2, <2>1, CallerMoves DEF IInv, NextId
  <2>3. TableOK' /\ CountCovers' /\ PromisedAreThere' /\ PromiseKept'
    BY <1>2, <1>3 DEF IInv, TableOK, CountCovers, Occupied, PromisedAreThere, Copies,
                      PromiseKept
  <2> QED
    BY <2>2, <2>3 DEF IInv
<1>4. ASSUME NEW s \in Slots, IsFirst(s, Copies(p)), pids' = [pids EXCEPT ![s] = Nobody],
             pidsCount' = pidsCount - 1, GoTo(c, "stop")
      PROVE  IInv'
  <2>1. DataOK' /\ PlaceOK' /\ AtHand'
    BY <1>2, <1>4, CallerMoves DEF IInv, GoTo, NextId
  <2>2. pids[s] = p
    BY <1>4 DEF IsFirst, Copies
  <2> HIDE DEF p
  <2>3. TableOK' /\ CountCovers'
    <3>1. /\ Cardinality(Occupied') = Cardinality(Occupied) - 1
          /\ Cardinality(Occupied) >= 1
      BY <1>1, <1>4, <2>2, FreeSlot DEF IInv
    <3>2. CountCovers' /\ pidsCount' \in Nat
      BY <1>2, <1>4, <3>1, OccupiedFinite DEF IInv, CountCovers, TableOK
    <3> QED
      BY <1>2, <1>4, <3>2 DEF IInv, TableOK
  <2>4. PromisedAreThere'
    <3> SUFFICES ASSUME NEW q \in promised, q # p PROVE Copies(q)' # {}
      BY <1>2 DEF PromisedAreThere
    <3>1. PICK t \in Slots : pids[t] = q
      BY DEF IInv, PromisedAreThere, Copies
    <3>2. pids'[t] = q
      BY <1>4, <2>2, <3>1 DEF IInv, TableOK
    <3> QED
      BY <3>2 DEF Copies
  <2>5. PromiseKept'
    BY <1>2 DEF IInv, PromiseKept
  <2> QED
    BY <2>1, <2>3, <2>4, <2>5 DEF IInv
<1> QED
  BY <1>3, <1>4 DEF UnprotectRemove

\* CLEAR empties the table: the counter, left alone, still covers it.
LEMMA ClearStep ==
    ASSUME IInv, NEW c \in Callers, Clear(c)
    PROVE  IInv'
<1>1. Occupied' = {}
  BY DEF Clear, Occupied
<1>2. CountCovers'
  BY <1>1, FS_EmptySet DEF Clear, IInv, TableOK, CountCovers
<1>3. TableOK' /\ DataOK' /\ PlaceOK' /\ AtHand' /\ PromisedAreThere' /\ PromiseKept'
  BY DEF Clear, IInv, TableOK, DataOK, PlaceOK, AtHand, PromisedAreThere, PromiseKept
<1> QED
  BY <1>2, <1>3 DEF IInv

\* A promised process is in the table, so its handles are stripped.
LEMMA OpenStep ==
    ASSUME IInv, NEW p \in Pids, NEW kernel \in BOOLEAN, OnPreOpenProcess(p, kernel)
    PROVE  IInv'
<1>1. PromiseKept'
  BY DEF OnPreOpenProcess, IInv, PromisedAreThere, FindProcess, PromiseKept
<1>2. TableOK' /\ CountCovers' /\ DataOK' /\ PlaceOK' /\ AtHand' /\ PromisedAreThere'
  BY DEF OnPreOpenProcess, callerVars, IInv, TableOK, CountCovers, Occupied, DataOK,
         PlaceOK, AtHand, PromisedAreThere, Copies
<1> QED
  BY <1>1, <1>2 DEF IInv

LEMMA IInvStep == IInv /\ [Next]_vars => IInv'
<1>1. IInv /\ UNCHANGED vars => IInv'
  BY TableUnchanged DEF IInv, vars, callerVars, DataOK, PlaceOK, AtHand
<1> QED
  BY <1>1, ArriveStep, EndOfLoopStep, LimitStep, FindStep, AddStep, RemoveStep,
     ClearStep, OpenStep
     DEF Next, Protect, Unprotect

LEMMA Inductive == Spec => []IInv
  BY InitIInv, IInvStep, PTL DEF Spec

\* PidsCount never says less than the table holds, and is exact until CLEAR.
THEOREM CountCoversCorrect == Spec => []CountCovers
<1>1. IInv => CountCovers
  BY DEF IInv
<1> QED
  BY Inductive, <1>1, PTL

\* Handles to a process protected and not unprotected since are stripped.
THEOREM PromiseKeptCorrect == Spec => []PromiseKept
<1>1. IInv => PromiseKept
  BY DEF IInv
<1> QED
  BY Inductive, <1>1, PTL

\* A counter of 0, read outside the lock, does mean an empty table: the early
\* stop of an unprotect skips nothing.
THEOREM EarlyStopCorrect == Spec => EarlyStopLeavesNothing
<1>1. ASSUME IInv, [Next]_vars, NEW c \in Callers, at[c] = "stop", at'[c] = "idle"
      PROVE  Occupied = {}
  <2>1. UnprotectStop(c) /\ pidsCount = 0
    <3>1. PlaceOK
      BY <1>1 DEF IInv
    <3> QED
      BY <1>1, <3>1
         DEF PlaceOK, Next, Protect, Unprotect, Arrive, EndOfLoop, ProtectFind, ProtectLimit,
             ProtectAdd, UnprotectRemove, UnprotectStop, Clear, OnPreOpenProcess,
             Looking, GoTo, Complete, vars, callerVars
  <2> QED
    BY <1>1, <2>1, OccupiedFinite, FS_EmptySet DEF IInv, CountCovers
<1>2. IInv /\ [Next]_vars =>
        [\A c \in Callers : at[c] = "stop" /\ at'[c] = "idle" => Occupied = {}]_vars
  BY <1>1
<1> QED
  BY Inductive, <1>2, PTL DEF Spec, EarlyStopLeavesNothing

\* Until the first CLEAR, STATUS_TOO_MANY_CONTEXT_IDS means a full table.
THEOREM RefusedCorrect == Spec => RefusedOnlyWhenFull
<1>1. ASSUME IInv, [Next]_vars, NEW c \in Callers, ~cleared,
             status'[c] = "too_many", status[c] # "too_many", StatusOK
      PROVE  Occupied = Slots
  <2>1. ProtectLimit(c) /\ pidsCount = MAXPIDS
    BY <1>1
       DEF StatusOK, Next, Protect, Unprotect, Arrive, EndOfLoop, ProtectFind, ProtectLimit,
           ProtectAdd, UnprotectRemove, UnprotectStop, Clear, OnPreOpenProcess,
           Looking, GoTo, Complete, vars, callerVars
  <2>2. Cardinality(Occupied) = Cardinality(Slots) /\ Occupied \in SUBSET Slots
    BY <1>1, <2>1, OccupiedFinite DEF IInv, CountCovers, Occupied
  <2> QED
    BY <2>2, OccupiedFinite, FS_Subset
<1>2. IInv /\ StatusOK /\ [Next]_vars =>
        [\A c \in Callers : ~cleared /\ status'[c] = "too_many" /\ status[c] # "too_many"
                            => Occupied = Slots]_vars
  BY <1>1
<1>3. Init => StatusOK
  BY DEF Init, StatusOK
<1>4. StatusOK /\ [Next]_vars => StatusOK'
  BY DEF StatusOK, Next, Protect, Unprotect, Arrive, EndOfLoop, ProtectFind, ProtectLimit,
         ProtectAdd, UnprotectRemove, UnprotectStop, Clear, OnPreOpenProcess,
         Looking, GoTo, Complete, vars, callerVars
<1> QED
  BY Inductive, <1>2, <1>3, <1>4, PTL DEF Spec, RefusedOnlyWhenFull
-----------------------------------------------------------------------------
(***************************************************************************)
(* How often an id can be in the table                                      *)
(***************************************************************************)
\* The callers that missed p and are on their way to AddProcess.
Adders(p) == {c \in Callers : at[c] \in {"limit", "add"} /\ Head(data[c]) = p}

LEMMA SetsFinite ==
    ASSUME NEW p
    PROVE  /\ IsFiniteSet(Copies(p)) /\ Cardinality(Copies(p)) \in Nat
           /\ IsFiniteSet(Adders(p)) /\ Cardinality(Adders(p)) \in Nat
           /\ Cardinality(Adders(p)) <= Cardinality(Callers)
           /\ Cardinality(Callers) \in Nat
<1>1. IsFiniteSet(Copies(p))
  BY OccupiedFinite, FS_Subset DEF Copies
<1>2. IsFiniteSet(Adders(p)) /\ Cardinality(Adders(p)) <= Cardinality(Callers)
  BY CallersAssumption, FS_Subset DEF Adders
<1> QED
  BY <1>1, <1>2, CallersAssumption, FS_CardinalityType

\* Fewer copies and fewer callers on their way are no harm.
LEMMA CopiesShrink ==
    ASSUME CopiesBounded, NEW p \in Pids,
           Copies(p)' \subseteq Copies(p), Adders(p)' \subseteq Adders(p)
    PROVE  Cardinality(Copies(p)') + Cardinality(Adders(p)') <= Cardinality(Callers)
<1>1. /\ Cardinality(Copies(p)') <= Cardinality(Copies(p)) /\ Cardinality(Copies(p)') \in Nat
      /\ Cardinality(Adders(p)') <= Cardinality(Adders(p)) /\ Cardinality(Adders(p)') \in Nat
  BY SetsFinite, FS_Subset, FS_CardinalityType
<1>2. Cardinality(Copies(p)) + Cardinality(Adders(p)) <= Cardinality(Callers)
  BY DEF CopiesBounded, Adders
<1> QED
  BY <1>1, <1>2, SetsFinite

\* Where each step may add to the two sets: only the search, and AddProcess, do.
LEMMA ShrinkingSteps ==
    ASSUME IInv, [Next]_vars, NEW p \in Pids,
           \A c \in Callers : ~ProtectFind(c) /\ ~ProtectAdd(c)
    PROVE  Copies(p)' \subseteq Copies(p) /\ Adders(p)' \subseteq Adders(p)
<1> USE DEF IInv, TableOK, DataOK, PlaceOK, Copies, Adders
<1>1. ASSUME NEW c \in Callers, NEW loop \in {"protect", "unprotect"}, Arrive(c, loop)
      PROVE  Copies(p)' \subseteq Copies(p) /\ Adders(p)' \subseteq Adders(p)
  BY <1>1 DEF Arrive
<1>2. ASSUME NEW c \in Callers, NEW loop \in {"protect", "unprotect"}, EndOfLoop(c, loop)
      PROVE  Copies(p)' \subseteq Copies(p) /\ Adders(p)' \subseteq Adders(p)
  BY <1>2 DEF EndOfLoop, Complete
<1>3. ASSUME NEW c \in Callers, ProtectLimit(c) \/ UnprotectStop(c)
      PROVE  Copies(p)' \subseteq Copies(p) /\ Adders(p)' \subseteq Adders(p)
  BY <1>3 DEF ProtectLimit, UnprotectStop, Complete, GoTo
<1>4. ASSUME NEW c \in Callers, UnprotectRemove(c)
      PROVE  Copies(p)' \subseteq Copies(p) /\ Adders(p)' \subseteq Adders(p)
  BY <1>4 DEF UnprotectRemove, Looking, GoTo, NextId
<1>5. ASSUME NEW c \in Callers, Clear(c)
      PROVE  Copies(p)' \subseteq Copies(p) /\ Adders(p)' \subseteq Adders(p)
  BY <1>5 DEF Clear
<1>6. ASSUME NEW q \in Pids, NEW kernel \in BOOLEAN, OnPreOpenProcess(q, kernel)
      PROVE  Copies(p)' \subseteq Copies(p) /\ Adders(p)' \subseteq Adders(p)
  BY <1>6 DEF OnPreOpenProcess, callerVars
<1>7. CASE UNCHANGED vars
  BY <1>7 DEF vars, callerVars
<1> QED
  BY <1>1, <1>2, <1>3, <1>4, <1>5, <1>6, <1>7 DEF Next, Protect, Unprotect

\* The search that misses p saw no copy of it, and every adder is a caller.
LEMMA FindCopies ==
    ASSUME IInv, CopiesBounded, NEW c \in Callers, ProtectFind(c), NEW p \in Pids
    PROVE  Cardinality(Copies(p)') + Cardinality(Adders(p)') <= Cardinality(Callers)
<1>1. CASE ~FindProcess(p)
  <2>1. Copies(p)' = {}
    BY <1>1 DEF FindProcess, Copies, ProtectFind
  <2>2. Cardinality(Copies(p)') = 0
    BY <2>1, FS_EmptySet
  <2>3. Cardinality(Adders(p)') <= Cardinality(Callers) /\ Cardinality(Adders(p)') \in Nat
    BY CallersAssumption, FS_Subset, FS_CardinalityType DEF Adders
  <2> QED
    BY <2>2, <2>3, SetsFinite
<1>2. CASE FindProcess(p)
  <2>1. Copies(p)' \subseteq Copies(p)
    BY DEF ProtectFind, Copies
  <2>2. Adders(p)' \subseteq Adders(p)
    BY <1>2 DEF IInv, DataOK, PlaceOK, ProtectFind, Looking, Adders, GoTo, NextId
  <2> QED
    BY <2>1, <2>2, CopiesShrink
<1> QED
  BY <1>1, <1>2

\* AddProcess turns the caller that was on its way into a copy.
LEMMA AddCopies ==
    ASSUME IInv, CopiesBounded, NEW c \in Callers, ProtectAdd(c), NEW p \in Pids
    PROVE  Cardinality(Copies(p)') + Cardinality(Adders(p)') <= Cardinality(Callers)
<1>1. Adders(p)' \subseteq Adders(p) \ {c}
  BY DEF IInv, DataOK, PlaceOK, ProtectAdd, Adders, GoTo, NextId, Complete
<1>2. CASE Copies(p)' \subseteq Copies(p)
  BY <1>1, <1>2, CopiesShrink
<1>3. ASSUME ~(Copies(p)' \subseteq Copies(p))
      PROVE  Cardinality(Copies(p)') + Cardinality(Adders(p)') <= Cardinality(Callers)
  <2>1. PICK s \in Slots : Copies(p)' = Copies(p) \cup {s} /\ s \notin Copies(p)
                          /\ Head(data[c]) = p /\ at[c] = "add"
    BY <1>3 DEF IInv, TableOK, ProtectAdd, Copies, IsFirst
  <2>2. c \in Adders(p)
    BY <2>1 DEF Adders
  <2>3. Cardinality(Copies(p)') = Cardinality(Copies(p)) + 1
    BY <2>1, SetsFinite, FS_AddElement
  <2>4. Cardinality(Adders(p) \ {c}) = Cardinality(Adders(p)) - 1
    BY <2>2, SetsFinite, FS_RemoveElement
  <2>5. Cardinality(Adders(p)') <= Cardinality(Adders(p) \ {c}) /\ Cardinality(Adders(p)') \in Nat
    <3>1. IsFiniteSet(Adders(p) \ {c})
      BY SetsFinite, FS_RemoveElement
    <3> QED
      BY <1>1, <3>1, FS_Subset, FS_CardinalityType
  <2>6. Cardinality(Copies(p)) + Cardinality(Adders(p)) <= Cardinality(Callers)
    BY DEF CopiesBounded, Adders
  <2> QED
    BY <2>3, <2>4, <2>5, <2>6, SetsFinite
<1> QED
  BY <1>2, <1>3

\* An id is never in the table more often than there are callers (main.c:304-320:
\* the lock is released between FindProcess and AddProcess).
THEOREM CopiesBoundedCorrect == Spec => []CopiesBounded
<1>1. Init => CopiesBounded
  <2> SUFFICES ASSUME Init, NEW p \in Pids
               PROVE  Cardinality(Copies(p)) + Cardinality(Adders(p)) <= Cardinality(Callers)
    BY DEF CopiesBounded, Adders
  <2>1. Copies(p) = {}
    BY DEF Init, Copies
  <2> QED
    BY <2>1, SetsFinite, FS_EmptySet
<1>2. IInv /\ CopiesBounded /\ [Next]_vars => CopiesBounded'
  <2> SUFFICES ASSUME IInv, CopiesBounded, [Next]_vars, NEW p \in Pids
               PROVE  Cardinality(Copies(p)') + Cardinality(Adders(p)') <= Cardinality(Callers)
    BY DEF CopiesBounded, Adders
  <2>1. CASE \E c \in Callers : ProtectFind(c)
    BY <2>1, FindCopies
  <2>2. CASE \E c \in Callers : ProtectAdd(c)
    BY <2>2, AddCopies
  <2>3. CASE \A c \in Callers : ~ProtectFind(c) /\ ~ProtectAdd(c)
    BY <2>3, ShrinkingSteps, CopiesShrink
  <2> QED
    BY <2>1, <2>2, <2>3
<1> QED
  BY Inductive, <1>1, <1>2, PTL DEF Spec

\* So one caller at a time never protects an id twice.
THEOREM NoDuplicatesCorrect == Spec => []NoDuplicates
<1>1. CopiesBounded => NoDuplicates
  <2> SUFFICES ASSUME CopiesBounded, Cardinality(Callers) = 1, NEW p \in Pids
               PROVE  Cardinality(Copies(p)) <= 1
    BY DEF NoDuplicates
  <2>1. Cardinality(Copies(p)) + Cardinality(Adders(p)) <= 1
    BY DEF CopiesBounded, Adders
  <2> QED
    BY <2>1, SetsFinite
<1> QED
  BY CopiesBoundedCorrect, <1>1, PTL

\* With one caller the counter stays within the table, also after a CLEAR.
CounterWithin ==
    Cardinality(Callers) = 1 =>
        /\ pidsCount <= MAXPIDS
        /\ \A c \in Callers : at[c] = "add" => pidsCount < MAXPIDS

LEMMA OnlyCaller ==
    ASSUME Cardinality(Callers) = 1, NEW c \in Callers, NEW d \in Callers
    PROVE  c = d
<1>1. Cardinality(Callers \ {c}) = 0
  BY CallersAssumption, FS_RemoveElement
<1>2. IsFiniteSet(Callers \ {c})
  BY CallersAssumption, FS_RemoveElement
<1>3. Callers \ {c} = {}
  BY <1>1, <1>2, FS_EmptySet
<1> QED
  BY <1>3

\* An id that passed the limit finds a free slot, while there is one caller.
THEOREM LimitMeansRoomCorrect == Spec => []LimitMeansRoom
<1>1. Init => CounterWithin
  BY DEF Init, CounterWithin
<1>2. IInv /\ CounterWithin /\ [Next]_vars => CounterWithin'
  <2> SUFFICES ASSUME IInv, CounterWithin, [Next]_vars, Cardinality(Callers) = 1
               PROVE  /\ pidsCount' <= MAXPIDS
                      /\ \A c \in Callers : at'[c] = "add" => pidsCount' < MAXPIDS
    BY DEF CounterWithin
  <2> USE DEF CounterWithin, IInv, TableOK, PlaceOK
  <2>1. ASSUME NEW c \in Callers, ProtectAdd(c)
        PROVE  /\ pidsCount' <= MAXPIDS
               /\ \A b \in Callers : at'[b] = "add" => pidsCount' < MAXPIDS
    <3>1. /\ pidsCount' \in {pidsCount, pidsCount + 1} /\ at[c] = "add"
          /\ at'[c] \in {"protect", "idle"}
      BY <2>1 DEF ProtectAdd, GoTo, Complete
    <3> QED
      BY <3>1, OnlyCaller
  <2>2. ASSUME NEW c \in Callers, UnprotectRemove(c)
        PROVE  /\ pidsCount' <= MAXPIDS
               /\ \A b \in Callers : at'[b] = "add" => pidsCount' < MAXPIDS
    <3>1. /\ pidsCount' \in {pidsCount, pidsCount - 1}
          /\ at'[c] \in {"stop", "unprotect"}
      BY <2>2 DEF UnprotectRemove, GoTo, Looking
    <3> QED
      BY <3>1, OnlyCaller
  <2>3. ASSUME NEW c \in Callers, ProtectLimit(c)
        PROVE  /\ pidsCount' <= MAXPIDS
               /\ \A b \in Callers : at'[b] = "add" => pidsCount' < MAXPIDS
    BY <2>3, OnlyCaller DEF ProtectLimit, GoTo, Complete
  <2>4. ASSUME NEW c \in Callers, NEW loop \in {"protect", "unprotect"},
               \/ Arrive(c, loop) \/ EndOfLoop(c, loop) \/ ProtectFind(c)
               \/ UnprotectStop(c) \/ Clear(c)
        PROVE  /\ pidsCount' <= MAXPIDS
               /\ \A b \in Callers : at'[b] = "add" => pidsCount' < MAXPIDS
    <3>1. /\ pidsCount' = pidsCount
          /\ at'[c] \in {"idle", "protect", "limit", "unprotect"}
      BY <2>4 DEF Arrive, EndOfLoop, ProtectFind, UnprotectStop, Clear, Complete, GoTo, Looking
    <3> QED
      BY <3>1, OnlyCaller
  <2>5. CASE (\E p \in Pids, kernel \in BOOLEAN : OnPreOpenProcess(p, kernel))
             \/ UNCHANGED vars
    BY <2>5 DEF OnPreOpenProcess, vars, callerVars
  <2> QED
    BY <2>1, <2>2, <2>3, <2>4, <2>5 DEF Next, Protect, Unprotect
<1>3. IInv /\ CounterWithin => LimitMeansRoom
  <2> SUFFICES ASSUME IInv, CounterWithin, Cardinality(Callers) = 1,
                      NEW c \in Callers, at[c] = "add", ~FindProcess(Nobody)
               PROVE  FALSE
    BY DEF LimitMeansRoom
  <2>1. Occupied = Slots
    BY DEF FindProcess, Copies, Occupied
  <2>2. pidsCount >= MAXPIDS /\ pidsCount \in Nat
    BY <2>1, OccupiedFinite DEF IInv, CountCovers, TableOK
  <2> QED
    BY <2>2 DEF CounterWithin
<1> QED
  BY Inductive, <1>1, <1>2, <1>3, PTL DEF Spec
-----------------------------------------------------------------------------
Rest ==
    /\ len \in [Callers -> Nat]
    /\ handle \in [pid : Pids \cup {Nobody}, kernel : BOOLEAN, owed : BOOLEAN,
                   terminate : BOOLEAN]
    /\ cleared \in BOOLEAN

\* The table, the callers and the last handle are well typed.
THEOREM TypeCorrect == Spec => []TypeOK
<1>1. Init => StatusOK /\ Rest
  <2> SUFFICES ASSUME Init PROVE StatusOK /\ Rest
    OBVIOUS
  <2>1. StatusOK /\ len \in [Callers -> Nat]
    BY DEF Init, StatusOK
  <2>2. handle \in [pid : Pids \cup {Nobody}, kernel : BOOLEAN, owed : BOOLEAN,
                    terminate : BOOLEAN]
    BY DEF Init
  <2>3. cleared \in BOOLEAN
    BY Zenon DEF Init
  <2> QED
    BY <2>1, <2>2, <2>3 DEF Rest
<1>2. StatusOK /\ [Next]_vars => StatusOK'
  BY DEF StatusOK, Next, Protect, Unprotect, Arrive, EndOfLoop, ProtectFind, ProtectLimit,
         ProtectAdd, UnprotectRemove, UnprotectStop, Clear, OnPreOpenProcess,
         Looking, GoTo, Complete, vars, callerVars
<1>3. Rest /\ [Next]_vars => Rest'
  <2> SUFFICES ASSUME Rest, [Next]_vars PROVE Rest'
    OBVIOUS
  <2> USE DEF Rest
  <2>1. len' \in [Callers -> Nat]
    BY DEF Next, Protect, Unprotect, Arrive, EndOfLoop, ProtectFind, ProtectLimit,
           ProtectAdd, UnprotectRemove, UnprotectStop, Clear, OnPreOpenProcess,
           vars, callerVars
  <2>2. cleared' \in BOOLEAN
    BY Zenon DEF Next, Protect, Unprotect, Arrive, EndOfLoop, ProtectFind, ProtectLimit,
           ProtectAdd, UnprotectRemove, UnprotectStop, Clear, OnPreOpenProcess,
           vars, callerVars
  <2>3. ASSUME NEW p \in Pids, NEW kernel \in BOOLEAN, OnPreOpenProcess(p, kernel)
        PROVE  handle' \in [pid : Pids \cup {Nobody}, kernel : BOOLEAN,
                            owed : BOOLEAN, terminate : BOOLEAN]
    <3>1. PICK owed, terminate :
            /\ owed = (p \in promised) /\ terminate = (kernel \/ ~FindProcess(p))
            /\ handle' = [pid |-> p, kernel |-> kernel, owed |-> owed,
                          terminate |-> terminate]
      BY <2>3, Zenon DEF OnPreOpenProcess
    <3>2. owed \in {TRUE, FALSE}
      <4>1. CASE p \in promised
        <5>1. (p \in promised) = TRUE
          BY <4>1, Zenon
        <5> QED
          BY <3>1, <5>1, Zenon
      <4>2. CASE ~(p \in promised)
        <5>1. (p \in promised) <=> FALSE
          BY <4>2
        <5>2. (p \in promised) = FALSE
          BY <5>1
        <5> QED
          BY <3>1, <5>2, Zenon
      <4> QED
        BY <4>1, <4>2
    <3>3. terminate \in {TRUE, FALSE}
      <4>1. CASE kernel \/ ~FindProcess(p)
        BY <3>1, <4>1
      <4>2. CASE ~(kernel \/ ~FindProcess(p))
        BY <3>1, <4>2
      <4> QED
        BY <4>1, <4>2
    <3> QED
      BY <3>1, <3>2, <3>3
  <2>4. \/ UNCHANGED handle
        \/ \E p \in Pids, kernel \in BOOLEAN : OnPreOpenProcess(p, kernel)
    BY DEF Next, Protect, Unprotect, Arrive, EndOfLoop, ProtectFind, ProtectLimit,
        ProtectAdd, UnprotectRemove, UnprotectStop, Clear, vars, callerVars
  <2>5. handle' \in [pid : Pids \cup {Nobody}, kernel : BOOLEAN, owed : BOOLEAN,
                     terminate : BOOLEAN]
    BY <2>3, <2>4
  <2> QED
    BY <2>1, <2>2, <2>5
<1>4. IInv /\ StatusOK /\ Rest => TypeOK
  BY DEF IInv, TableOK, DataOK, PlaceOK, StatusOK, Rest, TypeOK
<1> QED
  BY Inductive, <1>1, <1>2, <1>3, <1>4, PTL DEF Spec
=============================================================================
