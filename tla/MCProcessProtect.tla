-------------------------- MODULE MCProcessProtect --------------------------
(***************************************************************************)
(* Small instances of ProcessProtect.  Slots are searched in order, so only *)
(* ids and callers are symmetric.  Requests have up to BufferLength ids.    *)
(***************************************************************************)
EXTENDS ProcessProtect, TLC

CONSTANT BufferLength

ShortBuffers == UNION {[1..n -> Pids \cup {Nobody}] : n \in 0..BufferLength}
Requests == ShortBuffers \cup {Ragged}
RequestSymmetry == Permutations(Pids) \cup Permutations(Callers)
=============================================================================
