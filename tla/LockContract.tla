---------------------------- MODULE LockContract ----------------------------
(***************************************************************************)
(* What the advisory lock of src/src/storage/lock.ts promises its callers, *)
(* with every step of its acquisition hidden.  The lock is one file; a     *)
(* process holds it from the moment it created the file until it releases, *)
(* whatever happens to the file in between.                                *)
(***************************************************************************)
CONSTANT Procs      \* the hook and setup processes that contend for one lock

VARIABLES
    present,        \* the lock file exists
    holders,        \* processes that run between acquireLock and release
    broken          \* history: a lock file was removed as stale

lockVars == <<present, holders, broken>>

Init ==
    /\ present \in BOOLEAN       \* a dead process may have left one behind
    /\ holders = {}
    /\ broken = FALSE

(* O_CREAT|O_EXCL succeeds only where there is no file.                    *)
Acquire(p) ==
    /\ ~present
    /\ p \notin holders
    /\ present' = TRUE
    /\ holders' = holders \union {p}
    /\ UNCHANGED broken

(* The release removes the file at the path, whoever created it.           *)
Release(p) ==
    /\ p \in holders
    /\ holders' = holders \ {p}
    /\ present' = FALSE
    /\ UNCHANGED broken

(* A waiter removes a file it took for stale.                              *)
Break ==
    /\ present
    /\ present' = FALSE
    /\ broken' = TRUE
    /\ UNCHANGED holders

(* A holder dies and leaves its file.                                      *)
Die(p) ==
    /\ p \in holders
    /\ holders' = holders \ {p}
    /\ UNCHANGED <<present, broken>>

Next == Break \/ \E p \in Procs : Acquire(p) \/ Release(p) \/ Die(p)

Spec == Init /\ [][Next]_lockVars

TypeOK ==
    /\ present \in BOOLEAN
    /\ holders \subseteq Procs
    /\ broken \in BOOLEAN

(* Mutual exclusion holds for as long as no lock file was ever broken: two *)
(* holders are possible only after breakIfStale removed a file.            *)
ExclusiveUntilBroken ==
    ~broken => \A p, q \in holders : p = q
=============================================================================
