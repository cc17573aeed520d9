--------------------------- MODULE ProcessProtect ---------------------------
(***************************************************************************)
(* MainDriver's process protection: the table globals.Pids with its counter *)
(* globals.PidsCount (process_protect.c), the three IOCTLs that change it   *)
(* (main.c, MyDeviceControl) and OnPreOpenProcess, which reads it.          *)
(*                                                                         *)
(* Several callers may be inside MyDeviceControl at once.  A section under   *)
(* globals.Lock is one step; so is each read of PidsCount outside it.        *)
(***************************************************************************)
EXTENDS Integers, Sequences, FiniteSets

CONSTANTS
    Pids,           \* process ids
    Nobody,         \* pid 0: a free slot, and not a valid request
    MAXPIDS,        \* slots of the table
    Callers,        \* threads that send IOCTLs
    Buffers,        \* the inputs they send: sequences of ids, or Ragged
    Ragged,         \* an input whose size is not a multiple of sizeof(ULONG)
    CountBound      \* bound of the model: no CLEAR once PidsCount is beyond it

ASSUME NobodyAssumption == Nobody \notin Pids
ASSUME MAXPIDSAssumption == MAXPIDS \in Nat \ {0}
ASSUME CallersAssumption == IsFiniteSet(Callers)
ASSUME BuffersAssumption == Buffers \subseteq Seq(Pids \cup {Nobody}) \cup {Ragged}

Slots == 1..MAXPIDS

VARIABLES
    pids,           \* globals.Pids
    pidsCount,      \* globals.PidsCount
    at,             \* caller -> where it is in MyDeviceControl
    data,           \* caller -> the ids it has yet to look at
    status,         \* caller -> the IRP's status
    len,            \* caller -> IoStatus.Information, in ids
    handle,         \* the handle request OnPreOpenProcess saw last
    promised,       \* history: ids protected and not unprotected since
    cleared         \* history: whether CLEAR has ever run

callerVars == <<at, data, status, len>>
vars == <<pids, pidsCount, callerVars, handle, promised, cleared>>

Copies(p) == {s \in Slots : pids[s] = p}
Occupied == {s \in Slots : pids[s] # Nobody}
FindProcess(p) == Copies(p) # {}
IsFirst(s, S) == s \in S /\ \A t \in S : s <= t

Init ==
    /\ pids = [s \in Slots |-> Nobody]
    /\ pidsCount = 0
    /\ at = [c \in Callers |-> "idle"]
    /\ data = [c \in Callers |-> <<>>]
    /\ status = [c \in Callers |-> "success"]
    /\ len = [c \in Callers |-> 0]
    /\ handle = [pid |-> Nobody, kernel |-> TRUE, owed |-> FALSE, terminate |-> TRUE]
    /\ promised = {}
    /\ cleared = FALSE
-----------------------------------------------------------------------------
(***************************************************************************)
(* What the IOCTLs share                                                   *)
(***************************************************************************)
\* The IRP arrives; a ragged input is completed at once.
Arrive(c, loop) ==
    /\ at[c] = "idle"
    /\ \E b \in Buffers :
        /\ data' = [data EXCEPT ![c] = IF b = Ragged THEN <<>> ELSE b]
        /\ status' = [status EXCEPT ![c] =
                        IF b = Ragged THEN "invalid_buffer_size" ELSE "success"]
        /\ at' = [at EXCEPT ![c] = IF b = Ragged THEN "idle" ELSE loop]
    /\ len' = [len EXCEPT ![c] = 0]
    /\ UNCHANGED <<pids, pidsCount, handle, promised, cleared>>

\* The loop ends: with its last id, or early with what is left unread.
Complete(c, result) ==
    /\ at' = [at EXCEPT ![c] = "idle"]
    /\ status' = [status EXCEPT ![c] = result]
    /\ data' = [data EXCEPT ![c] = <<>>]

NextId(c) == data' = [data EXCEPT ![c] = Tail(@)]

GoTo(c, place) == at' = [at EXCEPT ![c] = place]

\* The loop is over, or its id is 0.
EndOfLoop(c, loop) ==
    /\ at[c] = loop
    /\ \/ data[c] = <<>> /\ Complete(c, status[c])
       \/ /\ data[c] # <<>>
          /\ Head(data[c]) = Nobody
          /\ Complete(c, "invalid_parameter")
    /\ UNCHANGED <<pids, pidsCount, len, handle, promised, cleared>>

Looking(c, loop) ==
    at[c] = loop /\ data[c] # <<>> /\ Head(data[c]) # Nobody
-----------------------------------------------------------------------------
(***************************************************************************)
(* Slips a change of this code could make; none is a step of the driver.    *)
(***************************************************************************)
\* The limit is one less than the table holds.
ProtectLimitTooEarly(c) ==
    /\ at[c] = "limit"
    /\ \/ pidsCount >= MAXPIDS - 1 /\ Complete(c, "too_many")
       \/ pidsCount < MAXPIDS - 1 /\ GoTo(c, "add") /\ UNCHANGED <<data, status>>
    /\ UNCHANGED <<pids, pidsCount, len, handle, promised, cleared>>

\* AddProcess forgets the counter.
ProtectAddUncounted(c) ==
    /\ at[c] = "add"
    /\ \E s \in Slots :
        /\ IsFirst(s, Copies(Nobody))
        /\ pids' = [pids EXCEPT ![s] = Head(data[c])]
        /\ promised' = promised \cup {Head(data[c])}
        /\ len' = [len EXCEPT ![c] = @ + 1]
        /\ GoTo(c, "protect") /\ NextId(c)
    /\ UNCHANGED <<pidsCount, status, handle, cleared>>

\* Protect does not look for the id first.
ProtectFindBlind(c) ==
    /\ Looking(c, "protect")
    /\ GoTo(c, "limit")
    /\ UNCHANGED <<pids, pidsCount, data, status, len, handle, promised, cleared>>

\* The check for an empty table is made against one.
UnprotectStopAtOne(c) ==
    /\ at[c] = "stop"
    /\ \/ pidsCount <= 1 /\ Complete(c, status[c])
       \/ pidsCount > 1 /\ GoTo(c, "unprotect") /\ UNCHANGED <<data, status>>
    /\ UNCHANGED <<pids, pidsCount, len, handle, promised, cleared>>

\* The table is searched by its counter, not by its size.
OnPreOpenByCount(p, kernel) ==
    /\ handle' = [pid |-> p, kernel |-> kernel, owed |-> p \in promised,
                  terminate |-> kernel \/ ~\E s \in Copies(p) : s <= pidsCount]
    /\ UNCHANGED <<pids, pidsCount, callerVars, promised, cleared>>
-----------------------------------------------------------------------------
(***************************************************************************)
(* IOCTL_PROCESS_PROTECT_BY_PID                                            *)
(***************************************************************************)
\* Looked for under the lock, and the lock released again.
ProtectFind(c) ==
    /\ Looking(c, "protect")
    /\ \/ /\ FindProcess(Head(data[c]))
          /\ promised' = promised \cup {Head(data[c])}
          /\ NextId(c)
          /\ UNCHANGED at
       \/ /\ ~FindProcess(Head(data[c]))
          /\ GoTo(c, "limit")
          /\ UNCHANGED <<data, promised>>
    /\ UNCHANGED <<pids, pidsCount, status, len, handle, cleared>>

\* PidsCount is read without the lock.
ProtectLimit(c) ==
    /\ at[c] = "limit"
    /\ \/ pidsCount = MAXPIDS /\ Complete(c, "too_many")
       \/ pidsCount # MAXPIDS /\ GoTo(c, "add") /\ UNCHANGED <<data, status>>
    /\ UNCHANGED <<pids, pidsCount, len, handle, promised, cleared>>

\* AddProcess, under the lock: the first free slot, if there is one.
ProtectAdd(c) ==
    /\ at[c] = "add"
    /\ \/ /\ \E s \in Slots :
               /\ IsFirst(s, Copies(Nobody))
               /\ pids' = [pids EXCEPT ![s] = Head(data[c])]
          /\ pidsCount' = pidsCount + 1
          /\ promised' = promised \cup {Head(data[c])}
          /\ len' = [len EXCEPT ![c] = @ + 1]
          /\ GoTo(c, "protect") /\ NextId(c)
          /\ UNCHANGED status
       \/ /\ ~FindProcess(Nobody)
          /\ Complete(c, "unsuccessful")
          /\ UNCHANGED <<pids, pidsCount, promised, len>>
    /\ UNCHANGED <<handle, cleared>>
-----------------------------------------------------------------------------
(***************************************************************************)
(* IOCTL_PROCESS_UNPROTECT_BY_PID                                          *)
(***************************************************************************)
\* RemoveProcess, under the lock: the first slot that has the id.
UnprotectRemove(c) ==
    /\ Looking(c, "unprotect")
    /\ \/ /\ \E s \in Slots :
               /\ IsFirst(s, Copies(Head(data[c])))
               /\ pids' = [pids EXCEPT ![s] = Nobody]
          /\ pidsCount' = pidsCount - 1
          /\ len' = [len EXCEPT ![c] = @ + 1]
          /\ GoTo(c, "stop")
       \/ /\ ~FindProcess(Head(data[c]))
          /\ UNCHANGED <<pids, pidsCount, len, at>>
    /\ promised' = promised \ {Head(data[c])}
    /\ NextId(c)
    /\ UNCHANGED <<status, handle, cleared>>

\* PidsCount is read without the lock: nothing left, no need to go on.
UnprotectStop(c) ==
    /\ at[c] = "stop"
    /\ \/ pidsCount = 0 /\ Complete(c, status[c])
       \/ pidsCount # 0 /\ GoTo(c, "unprotect") /\ UNCHANGED <<data, status>>
    /\ UNCHANGED <<pids, pidsCount, len, handle, promised, cleared>>
-----------------------------------------------------------------------------
(***************************************************************************)
(* IOCTL_PROCESS_PROTECT_CLEAR zeroes the table and leaves the counter.     *)
(***************************************************************************)
Clear(c) ==
    /\ at[c] = "idle"
    /\ pidsCount <= CountBound
    /\ pids' = [s \in Slots |-> Nobody]
    /\ promised' = {}
    /\ cleared' = TRUE
    /\ status' = [status EXCEPT ![c] = "success"]
    /\ len' = [len EXCEPT ![c] = 0]
    /\ UNCHANGED <<pidsCount, at, data, handle>>

\* A handle to process p is being opened: the search is under the lock, the
\* right is taken from the request afterwards.
OnPreOpenProcess(p, kernel) ==
    /\ handle' = [pid |-> p, kernel |-> kernel, owed |-> p \in promised,
                  terminate |-> kernel \/ ~FindProcess(p)]
    /\ UNCHANGED <<pids, pidsCount, callerVars, promised, cleared>>
-----------------------------------------------------------------------------
Protect(c) ==
    \/ Arrive(c, "protect") \/ EndOfLoop(c, "protect")
    \/ ProtectFind(c) \/ ProtectLimit(c) \/ ProtectAdd(c)

Unprotect(c) ==
    \/ Arrive(c, "unprotect") \/ EndOfLoop(c, "unprotect")
    \/ UnprotectRemove(c) \/ UnprotectStop(c)

Next ==
    \/ \E c \in Callers : Protect(c) \/ Unprotect(c) \/ Clear(c)
    \/ \E p \in Pids, kernel \in BOOLEAN : OnPreOpenProcess(p, kernel)

Spec == Init /\ [][Next]_vars
-----------------------------------------------------------------------------
(***************************************************************************)
(* Properties                                                              *)
(***************************************************************************)
TypeOK ==
    /\ pids \in [Slots -> Pids \cup {Nobody}]
    /\ pidsCount \in Nat
    /\ at \in [Callers -> {"idle", "protect", "limit", "add", "unprotect", "stop"}]
    /\ data \in [Callers -> Seq(Pids \cup {Nobody})]
    /\ status \in [Callers -> {"success", "invalid_buffer_size", "invalid_parameter",
                               "too_many", "unsuccessful"}]
    /\ len \in [Callers -> Nat]
    /\ handle \in [pid : Pids \cup {Nobody}, kernel : BOOLEAN, owed : BOOLEAN,
                   terminate : BOOLEAN]
    /\ promised \in SUBSET Pids
    /\ cleared \in BOOLEAN

\* The counter never says less than the table holds, CLEAR and overlapping
\* callers notwithstanding; until the first CLEAR it is exact.
CountCovers ==
    /\ pidsCount >= Cardinality(Occupied)
    /\ ~cleared => pidsCount = Cardinality(Occupied)

\* An unprotect that stops before its last id, because it saw PidsCount = 0
\* outside the lock, leaves no process of the table protected by that step.
EarlyStopLeavesNothing ==
    [][\A c \in Callers :
        at[c] = "stop" /\ at'[c] = "idle" => Occupied = {}]_vars

\* Two callers may both miss an id and both add it; but an id is never in the
\* table more often than there are callers.
CopiesBounded ==
    \A p \in Pids :
        Cardinality(Copies(p))
        + Cardinality({c \in Callers : at[c] \in {"limit", "add"} /\ Head(data[c]) = p})
        <= Cardinality(Callers)

\* A user handle to a process that was protected, and not unprotected or
\* cleared since, never carries PROCESS_TERMINATE.
PromiseKept == handle.owed /\ ~handle.kernel => ~handle.terminate

\* Until the first CLEAR a protect is refused for want of room only when the
\* table is full of protected processes.
RefusedOnlyWhenFull ==
    [][\A c \in Callers :
        ~cleared /\ status'[c] = "too_many" /\ status[c] # "too_many"
        => Occupied = Slots]_vars

\* One caller at a time: no id is in the table twice, so one unprotect undoes
\* any number of protects.
NoDuplicates ==
    Cardinality(Callers) = 1 => \A p \in Pids : Cardinality(Copies(p)) <= 1

\* One caller at a time: an id that passed the limit finds a free slot, also
\* after CLEAR has made the counter wrong.
LimitMeansRoom ==
    Cardinality(Callers) = 1 => \A c \in Callers : at[c] = "add" => FindProcess(Nobody)
=============================================================================
