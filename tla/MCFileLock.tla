----------------------------- MODULE MCFileLock ------------------------------
(* FileLock on a few processes, some with a timeout, some that are killed. *)
EXTENDS FileLock
==============================================================================
