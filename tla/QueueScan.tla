------------------------------ MODULE QueueScan ------------------------------
(***************************************************************************)
(* The bounded scan of a drain, collectDue of src/src/transport/queue.ts:  *)
(* a pass lists the partition, reads at most MaxBatch entries, starting    *)
(* after the one the previous pass stopped on and wrapping around, and     *)
(* writes where it stopped to the cursor file.  Hooks, sweeps and sends    *)
(* add and remove entries all the while.                                   *)
(*                                                                         *)
(* File names are hashes, so a new entry lands anywhere in the order; here *)
(* they are numbers.  The drain lock admits one pass at a time             *)
(* (AdvisoryLock), which is all this module shows of it.                   *)
(***************************************************************************)
EXTENDS Naturals, FiniteSets

CONSTANTS
    MaxName,        \* names are 1..MaxName
    BatchSize,       \* maxBatch, the entries a pass may read
    MaxScanFaults       \* bound: crashes, failed and lost cursor files

ASSUME ScanAssumption ==
    /\ MaxName \in Nat \ {0}
    /\ BatchSize \in Nat \ {0}
    /\ MaxScanFaults \in Nat

Names == 1..MaxName
NoName == 0         \* no cursor; it sorts before every name

VARIABLES
    files,          \* the entries on disk
    cursor,         \* the name in the cursor file, or NoName
    scanPhase,             \* "idle", or where the pass is: "read", "remember"
    scan,           \* the entries the pass has still to read
    last,           \* the last name of its scan
    scanFaults          \* history: faults so far

scanVars == <<files, cursor, scanPhase, scan, last, scanFaults>>

ScanInit ==
    /\ files \in SUBSET Names
    /\ cursor \in Names \union {NoName}
    /\ scanPhase = "idle"
    /\ scan = {}
    /\ last = NoName
    /\ scanFaults = 0

(* The names from the one after c up to n, around the end if need be.      *)
Ahead(names, c, n) ==
    {m \in names : IF n > c THEN c < m /\ m <= n ELSE m > c \/ m <= n}

(* names.slice(start) ++ names.slice(0, start), cut to MaxBatch.           *)
Window(names, c) == {n \in names : Cardinality(Ahead(names, c, n)) <= BatchSize}

(* scan.at(-1): nothing of the scan comes after it.                        *)
FinalFirst(window, c) == CHOOSE n \in window : Ahead(window, c, n) = {n}      \* a mutant
Final(window, c) == CHOOSE n \in window : Ahead(window, c, n) = window

(* The pass lists the directory and reads the cursor; in an empty          *)
(* partition that is all it does.                                          *)
Collect ==
    /\ scanPhase = "idle"
    /\ scan' = Window(files, cursor)
    /\ \/ files = {} /\ UNCHANGED <<scanPhase, last>>
       \/ files # {} /\ scanPhase' = "read" /\ last' = Final(scan', cursor)
    /\ UNCHANGED <<files, cursor, scanFaults>>

(* readEntry of the next name.  An unreadable, aged or internal entry goes *)
(* at once; the rest are left, or become due and are sent after the scan.  *)
Examine(n) ==
    /\ scanPhase = "read" /\ n \in scan
    /\ Ahead(scan, cursor, n) = {n}
    /\ \/ files' = files
       \/ files' = files \ {n}
    /\ scan' = scan \ {n}
    /\ scanPhase' = IF scan' = {} THEN "remember" ELSE "read"
    /\ UNCHANGED <<cursor, last, scanFaults>>

(* rememberScan; a write that fails is ignored.                            *)
Remember ==
    /\ scanPhase = "remember"
    /\ \/ cursor' = last /\ UNCHANGED scanFaults
       \/ cursor' = cursor /\ scanFaults < MaxScanFaults /\ scanFaults' = scanFaults + 1
    /\ scanPhase' = "idle"
    /\ last' = NoName
    /\ UNCHANGED <<files, scan>>

ScanDies ==
    /\ scanPhase # "idle"
    /\ scanFaults < MaxScanFaults
    /\ scanFaults' = scanFaults + 1
    /\ scanPhase' = "idle"
    /\ scan' = {}
    /\ last' = NoName
    /\ UNCHANGED <<files, cursor>>

(* The cursor file is gone, or cannot be read: the head again.             *)
LoseCursor ==
    /\ scanPhase = "idle" /\ cursor # NoName
    /\ scanFaults < MaxScanFaults
    /\ scanFaults' = scanFaults + 1
    /\ cursor' = NoName
    /\ UNCHANGED <<files, scanPhase, scan, last>>

(* enqueue of some hook; a send, a sweep or an eviction.                   *)
Insert(n) ==
    /\ n \notin files
    /\ files' = files \union {n}
    /\ UNCHANGED <<cursor, scanPhase, scan, last, scanFaults>>

RemoveName(n) ==
    /\ n \in files
    /\ files' = files \ {n}
    /\ UNCHANGED <<cursor, scanPhase, scan, last, scanFaults>>

Pass == Collect \/ Remember \/ \E n \in Names : Examine(n)

ScanNext ==
    \/ Pass \/ ScanDies \/ LoseCursor
    \/ \E n \in Names : Insert(n) \/ RemoveName(n)

ScanSpec == ScanInit /\ [][ScanNext]_scanVars

ScanTypeOK ==
    /\ files \subseteq Names
    /\ cursor \in Names \union {NoName}
    /\ scanPhase \in {"idle", "read", "remember"}
    /\ scan \subseteq Names
    /\ last \in Names \union {NoName}
    /\ scanFaults \in 0..MaxScanFaults
==============================================================================
