------------------------- MODULE MCFilterLifecycle -------------------------
(***************************************************************************)
(* Small instances of FilterLifecycle; the callers are interchangeable.     *)
(***************************************************************************)
EXTENDS FilterLifecycle, TLC

AnyFailure == EntrySteps
CallerSymmetry == Permutations(Callers)
=============================================================================
