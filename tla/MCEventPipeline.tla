-------------------------- MODULE MCEventPipeline --------------------------
(***************************************************************************)
(* Small instances of EventPipeline: what the console client may say.       *)
(***************************************************************************)
EXTENDS EventPipeline

\* One event of any kind, the others of a deferred, an immediate or a registry
\* callback.
OneOfAnyKind ==
    [e \in Events |-> IF e = (CHOOSE first \in Events : TRUE) THEN Kinds
                      ELSE {"create", "close", "registry"}]

\* Texts about files, and about everything else.
FileOrRest == {{"file"}, Monitors \ {"file"}}
=============================================================================
