-------------------------- MODULE CollectLockOps ---------------------------
(***************************************************************************)
(* The time-stamped lock CollectLogsLock of icrc2-minter/src/tasks.rs, as  *)
(* operators on the shared cell COLLECT_EVM_LOGS_TS.  The cell holds the   *)
(* stamp of the last task that took the lock; a task holds its own copy of *)
(* the stamp (field ts) across its awaits.                                 *)
(***************************************************************************)
EXTENDS Integers

CONSTANTS
    None,                       \* Option::None
    COLLECT_EVM_LOGS_TIMEOUT,   \* after this time a held lock may be taken
    MaxTime                     \* bound on the clock

ASSUME LockAssumption ==
    /\ None \notin Int
    /\ COLLECT_EVM_LOGS_TIMEOUT \in Nat
    /\ MaxTime \in Nat

\* take succeeds when the lock is free or has timed out.
CanTake(lock, now) == lock # None => lock + COLLECT_EVM_LOGS_TIMEOUT < now

\* The cell after the destructor of a lock with stamp ts has run.
AfterDrop(lock, ts) == IF lock # None /\ lock <= ts THEN None ELSE lock
=============================================================================
