---------------------------- MODULE AdvisoryLock ----------------------------
(***************************************************************************)
(* The lock of src/src/storage/lock.ts, one file system call per step:     *)
(* acquireLock makes at most LOCK_ACQUIRE_ATTEMPTS attempts, each of which *)
(* opens the file exclusively, and on EEXIST stats it and removes it when  *)
(* it is older than STALE_LOCK_MS.  Between the stat and the rm, and       *)
(* between an acquisition and its release, anything may happen to the file.*)
(*                                                                         *)
(* Time is the age of the file, saturating one past the bound, so that the *)
(* model is finite without bounding how long it runs.                      *)
(***************************************************************************)
EXTENDS Naturals

CONSTANTS
    Contenders,
    Nobody,         \* no process: the maker of a file that is not there
    StaleAfter,     \* STALE_LOCK_MS, in ticks of the file's age
    Attempts        \* LOCK_ACQUIRE_ATTEMPTS

ASSUME LockAssumption ==
    /\ Nobody \notin Contenders
    /\ StaleAfter \in Nat
    /\ Attempts \in Nat \ {0}

VARIABLES
    lockFile,        \* the lock file exists
    age,            \* its age by mtime
    maker,          \* history: who created it, or Nobody
    stage,             \* per process: where it is in acquireLock or its use
    tries,          \* attempts acquireLock has started
    lockBroken,         \* history: breakIfStale removed a file
    outlived        \* history: some lock file grew older than StaleAfter

lockVars == <<lockFile, age, maker, stage, tries, lockBroken, outlived>>

holders == {p \in Contenders : stage[p] = "held"}

LockInit ==
    /\ lockFile = FALSE
    /\ age = 0
    /\ maker = Nobody
    /\ stage = [p \in Contenders |-> "idle"]
    /\ tries = [p \in Contenders |-> 0]
    /\ lockBroken = FALSE
    /\ outlived = FALSE

Proceed(p, label) == stage' = [stage EXCEPT ![p] = label]

(* A mutant of it: a lock without an attempt won.                          *)
NextAttemptAssumed(p) ==
    IF tries[p] < Attempts THEN Proceed(p, "open") ELSE Proceed(p, "held")

(* The loop of acquireLock: the next attempt, or undefined after the last. *)
NextAttempt(p) ==
    IF tries[p] < Attempts THEN Proceed(p, "open") ELSE Proceed(p, "idle")

Begin(p) ==
    /\ stage[p] = "idle"
    /\ Proceed(p, "open")
    /\ tries' = [tries EXCEPT ![p] = 0]
    /\ UNCHANGED <<lockFile, age, maker, lockBroken, outlived>>

(* A mutant of it: the attempts are not counted.                           *)
TryCreateLockUncounted(p) ==
    /\ stage[p] = "open"
    /\ \/ ~lockFile /\ lockFile' = TRUE /\ age' = 0 /\ maker' = p /\ Proceed(p, "held")
       \/ lockFile /\ Proceed(p, "stat") /\ UNCHANGED <<lockFile, age, maker>>
    /\ UNCHANGED <<tries, lockBroken, outlived>>

(* fs.open(lockPath, 'wx'): held, or EEXIST and on to breakIfStale.        *)
TryCreateLock(p) ==
    /\ stage[p] = "open"
    /\ tries' = [tries EXCEPT ![p] = @ + 1]
    /\ \/ /\ ~lockFile
          /\ lockFile' = TRUE
          /\ age' = 0
          /\ maker' = p
          /\ Proceed(p, "held")
       \/ /\ lockFile
          /\ Proceed(p, "stat")
          /\ UNCHANGED <<lockFile, age, maker>>
    /\ UNCHANGED <<lockBroken, outlived>>

(* Mutants of it: the bound reached, and the comparison the wrong way.     *)
IsStaleEarly == age >= StaleAfter
IsStaleNever == age < 0

IsStale == age > StaleAfter

(* fs.stat: fresh means taken, stale means rm next, vanished means retry.  *)
StatLock(p) ==
    /\ stage[p] = "stat"
    /\ \/ lockFile /\ ~IsStale /\ Proceed(p, "idle")
       \/ lockFile /\ IsStale /\ Proceed(p, "break")
       \/ ~lockFile /\ NextAttempt(p)
    /\ UNCHANGED <<lockFile, age, maker, tries, lockBroken, outlived>>

(* fs.rm(lockPath, force): whatever file is at the path by now.            *)
BreakStale(p) ==
    /\ stage[p] = "break"
    /\ lockFile' = FALSE
    /\ maker' = Nobody
    /\ age' = 0
    /\ lockBroken' = (lockBroken \/ lockFile)
    /\ NextAttempt(p)
    /\ UNCHANGED <<tries, outlived>>

(* The closure acquireLock returned: rm, with no check of who made it.     *)
ReleaseLock(p) ==
    /\ stage[p] = "held"
    /\ lockFile' = FALSE
    /\ maker' = Nobody
    /\ age' = 0
    /\ Proceed(p, "idle")
    /\ UNCHANGED <<tries, lockBroken, outlived>>

(* The hook process is killed; a new one takes its slot later.             *)
Die(p) ==
    /\ stage[p] # "idle"
    /\ Proceed(p, "idle")
    /\ UNCHANGED <<lockFile, age, maker, tries, lockBroken, outlived>>

GrowOlder ==
    /\ lockFile
    /\ age <= StaleAfter
    /\ age' = age + 1
    /\ outlived' = (outlived \/ age' > StaleAfter)
    /\ UNCHANGED <<lockFile, maker, stage, tries, lockBroken>>

Step(p) ==
    Begin(p) \/ TryCreateLock(p) \/ StatLock(p) \/ BreakStale(p) \/ ReleaseLock(p)

LockNext == GrowOlder \/ \E p \in Contenders : Step(p) \/ Die(p)

(* The clock never stops, hooks keep coming and run on; any of them may    *)
(* die, but they do not all die at the same instruction for ever.          *)
Fairness ==
    /\ WF_lockVars(GrowOlder)
    /\ \A p \in Contenders :
        /\ WF_lockVars(Step(p))
        /\ SF_lockVars(TryCreateLock(p)) /\ SF_lockVars(StatLock(p)) /\ SF_lockVars(BreakStale(p))

LockSpec == LockInit /\ [][LockNext]_lockVars /\ Fairness

LockTypeOK ==
    /\ lockFile \in BOOLEAN
    /\ age \in 0..(StaleAfter + 1)
    /\ maker \in Contenders \union {Nobody}
    /\ stage \in [Contenders -> {"idle", "open", "stat", "break", "held"}]
    /\ tries \in [Contenders -> 0..Attempts]
    /\ lockBroken \in BOOLEAN
    /\ outlived \in BOOLEAN

(* Two processes are past acquireLock together only if some lock file was  *)
(* allowed to grow older than STALE_LOCK_MS first: crashes, waiters and    *)
(* retries alone never defeat the exclusive create.                        *)
ExclusiveWhileFresh ==
    ~outlived => \A p, q \in holders : p = q

(* Why: until a file outlives the bound nobody gets past the stat to the   *)
(* rm, so the file a holder made is still the file at the path.            *)
FreshInv ==
    /\ \A p \in Contenders : stage[p] = "open" => tries[p] < Attempts
    /\ ~outlived =>
        /\ lockFile => ~IsStale
        /\ ~lockBroken
        /\ \A p \in Contenders : stage[p] # "break"
        /\ \A p \in holders : lockFile /\ maker = p

(* A holder dies with its file in place: whoever made it, the file does    *)
(* not stay for good, because the next hooks break it (lock.ts:12-14).     *)
Orphaned == lockFile /\ maker \notin holders

OrphanIsBroken == Orphaned ~> ~Orphaned

(* A process inside acquireLock leaves it, with the lock or without: the   *)
(* attempts are bounded, nobody spins on a contended path.                 *)
AcquireTerminates ==
    \A p \in Contenders : stage[p] \in {"open", "stat", "break"} ~> stage[p] \in {"idle", "held"}

(* Not so (README, divergences): lock.ts:12-14, only "a lock older than    *)
(* STALE_LOCK_MS is broken", a waiter's rm never removes a younger file.   *)
OnlyStaleIsBroken ==
    [][\A p \in Contenders : BreakStale(p) /\ lockFile => IsStale]_lockVars

(* The contract every user of the lock is modelled against.                *)
Contract == INSTANCE LockContract WITH
    Procs <- Contenders, present <- lockFile, broken <- lockBroken

(* Every file system call of acquireLock, of a release and of a death is a *)
(* step of the contract, or none.                                          *)
RefinesLockContract == Contract!Spec
=============================================================================
