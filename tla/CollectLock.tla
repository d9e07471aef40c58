---------------------------- MODULE CollectLock ----------------------------
(***************************************************************************)
(* CollectLogsLock of icrc2-minter/src/tasks.rs: the time-stamped lock     *)
(* that keeps the log collection tasks of the ICRC-2 minter apart.  A task *)
(* holds its own copy of the time stamp (field ts) across its awaits; the  *)
(* shared cell COLLECT_EVM_LOGS_TS holds the stamp of the last task that   *)
(* took the lock.                                                          *)
(***************************************************************************)
EXTENDS CollectLockOps

CONSTANT Tasks    \* collection tasks that may run concurrently

VARIABLES
    now,      \* ic::time()
    lock,     \* COLLECT_EVM_LOGS_TS
    held      \* held[t]: the ts of the lock value task t holds, or None

vars == <<now, lock, held>>

Init == /\ now = 0
        /\ lock = None
        /\ held = [t \in Tasks |-> None]

Tick == /\ now < MaxTime
        /\ now' = now + 1
        /\ UNCHANGED <<lock, held>>

take(t) == /\ held[t] = None
           /\ CanTake(lock, now)
           /\ lock' = now
           /\ held' = [held EXCEPT ![t] = now]
           /\ UNCHANGED now

\* The task takes the lock, finds that the parameters or the contract are
\* not set, and returns: the lock is dropped before any await.
TakeAndReturn(t) == /\ held[t] = None
                    /\ CanTake(lock, now)
                    /\ lock' = None
                    /\ UNCHANGED <<now, held>>

\* A return after an await, early or not.
drop(t) == /\ held[t] # None
           /\ lock' = AfterDrop(lock, held[t])
           /\ held' = [held EXCEPT ![t] = None]
           /\ UNCHANGED now

\* A panic after an await: the task is gone and its destructor never runs.
Panic(t) == /\ held[t] # None
            /\ held' = [held EXCEPT ![t] = None]
            /\ UNCHANGED <<now, lock>>

Next == \/ Tick
        \/ \E t \in Tasks : take(t) \/ TakeAndReturn(t) \/ drop(t) \/ Panic(t)

Spec == Init /\ [][Next]_vars

-----------------------------------------------------------------------------

\* Stamps are times of the past: neither the shared cell nor a task ever has
\* a time stamp that ic::time() has not reached.
TypeOK == /\ now \in 0..MaxTime
          /\ lock \in 0..now \cup {None}
          /\ held \in [Tasks -> 0..now \cup {None}]

Running == {t \in Tasks : held[t] # None}

\* Two collection tasks are inside the section at the same time only when
\* the later one started more than the timeout after the earlier one, also
\* after panics and after drops by tasks that outlived their lock.
CollectorsApart ==
    \A t, u \in Running :
        t # u => \/ held[t] > held[u] + COLLECT_EVM_LOGS_TIMEOUT
                 \/ held[u] > held[t] + COLLECT_EVM_LOGS_TIMEOUT

\* Why: a running task whose stamp is not the current one has timed out,
\* and the current stamp is never older than that of a running task.
LockInv ==
    \A t \in Running :
        /\ lock = held[t] \/ now > held[t] + COLLECT_EVM_LOGS_TIMEOUT
        /\ lock # None => held[t] <= lock

\* The comparison in the destructor lets a task that outlived its lock
\* return without releasing the lock of its successor: a lock that has not
\* timed out becomes free only when the task that owns its stamp returns.
OnlyHolderReleases ==
    [][lock # None /\ lock' = None /\ ~ CanTake(lock, now) =>
         \E t \in Running : held[t] = lock /\ held'[t] = None]_vars
=============================================================================
