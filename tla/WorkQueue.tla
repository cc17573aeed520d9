----------------------------- MODULE WorkQueue -----------------------------
(***************************************************************************)
(* What the thread pool of FilterDriver and MainDriver promises to the code *)
(* that queues work, without threads, events or locks:                     *)
(* a work item is started once, oldest first, until the pool is closed;    *)
(* closing takes the remaining items newest first, and the pool is closed  *)
(* only when every item queued before closing began has been executed.     *)
(* Nothing is promised to an item submitted later than that.               *)
(***************************************************************************)
EXTENDS Integers, Sequences, FiniteSets

CONSTANT Items                \* the work items a caller may submit

VARIABLES
    pending,                  \* submitted and not started, oldest first
    running,                  \* started and not finished
    done,                     \* finished
    owed,                     \* what closing must finish before the pool is closed
    phase                     \* "closed", "open" or "closing"

vars == <<pending, running, done, owed, phase>>

Pending == {pending[k] : k \in DOMAIN pending}

Init ==
    /\ pending = <<>>
    /\ running = {}
    /\ done = {}
    /\ owed = {}
    /\ phase = "closed"

\* A new life of the pool, or an attempt at one: items a previous life left
\* behind are forgotten either way.
Open ==
    /\ phase = "closed"
    /\ running = {}
    /\ phase' \in {"open", "closed"}
    /\ pending' = <<>>
    /\ owed' = {}
    /\ UNCHANGED <<running, done>>

Submit(i) ==
    /\ i \notin running \cup done \cup Pending
    /\ pending' = Append(pending, i)
    /\ UNCHANGED <<running, done, owed, phase>>

StartOldest ==
    /\ phase # "closed"
    /\ pending # <<>>
    /\ running' = running \cup {Head(pending)}
    /\ pending' = Tail(pending)
    /\ UNCHANGED <<done, owed, phase>>

\* Only the closing thread, alone by then, takes from the other end.
StartNewest ==
    /\ phase = "closing"
    /\ pending # <<>>
    /\ running = {}
    /\ running' = {pending[Len(pending)]}
    /\ pending' = SubSeq(pending, 1, Len(pending) - 1)
    /\ UNCHANGED <<done, owed, phase>>

Finish(i) ==
    /\ i \in running
    /\ running' = running \ {i}
    /\ done' = done \cup {i}
    /\ UNCHANGED <<pending, owed, phase>>

BeginClose ==
    /\ phase = "open"
    /\ phase' = "closing"
    /\ owed' = Pending \cup running
    /\ UNCHANGED <<pending, running, done>>

EndClose ==
    /\ phase = "closing"
    /\ running = {}
    /\ owed \subseteq done
    /\ phase' = "closed"
    /\ UNCHANGED <<pending, running, done, owed>>

Next ==
    \/ Open \/ StartOldest \/ StartNewest \/ BeginClose \/ EndClose
    \/ \E i \in Items : Submit(i) \/ Finish(i)

Spec == Init /\ [][Next]_vars
=============================================================================
