--------------------------- MODULE QueueScanBound ---------------------------
(***************************************************************************)
(* QueueScan with the counters that say how soon a pass comes to an entry: *)
(* queue.ts:264-267, "every entry is examined within                       *)
(* ceil(backlog / maxBatch) passes", and FR-009 (spec.md:253), every queued *)
(* record is attempted however large the backlog.                          *)
(***************************************************************************)
EXTENDS QueueScan

CONSTANT MaxInserts     \* bound: entries queued after the start

ASSUME BoundAssumption == MaxInserts \in Nat

VARIABLES
    passed,     \* entries the pass listed and will not come to
    waited,     \* per entry: such passes since it was queued or last read
    backlog,    \* per entry: entries on disk then, and those queued since
    inserts     \* entries queued so far

boundVars == <<scanVars, passed, waited, backlog, inserts>>

BoundInit ==
    /\ ScanInit
    /\ passed = {}
    /\ waited = [n \in Names |-> 0]
    /\ backlog = [n \in Names |-> IF n \in files THEN Cardinality(files) ELSE 0]
    /\ inserts = 0

(* The wait of these entries starts now.                                   *)
Restart(names) ==
    /\ waited' = [n \in Names |-> IF n \in names THEN 0 ELSE waited[n]]
    /\ backlog' = [n \in Names |->
                     IF n \notin names THEN backlog[n]
                     ELSE IF n \in files' THEN Cardinality(files') ELSE 0]

BoundCollect ==
    /\ Collect
    /\ passed' = files \ scan'
    /\ UNCHANGED <<waited, backlog, inserts>>

BoundExamine(n) ==
    /\ Examine(n)
    /\ Restart({n})
    /\ UNCHANGED <<passed, inserts>>

BoundRemember ==
    /\ Remember
    /\ waited' = [n \in Names |->
                    IF n \in passed \intersect files /\ scanFaults' = scanFaults THEN waited[n] + 1 ELSE waited[n]]
    /\ passed' = {}
    /\ UNCHANGED <<backlog, inserts>>

BoundCrash == ScanDies /\ passed' = {} /\ UNCHANGED <<waited, backlog, inserts>>

BoundLoseCursor == LoseCursor /\ Restart(Names) /\ UNCHANGED <<passed, inserts>>

BoundInsert(n) ==
    /\ inserts < MaxInserts
    /\ inserts' = inserts + 1
    /\ Insert(n)
    /\ waited' = [waited EXCEPT ![n] = 0]
    /\ backlog' = [m \in Names |->
                     IF m = n THEN Cardinality(files')
                     ELSE IF m \in files THEN backlog[m] + 1 ELSE 0]
    /\ UNCHANGED passed

BoundRemove(n) ==
    /\ RemoveName(n)
    /\ Restart({n})
    /\ passed' = passed \ {n}
    /\ UNCHANGED inserts

BoundNext ==
    \/ BoundCollect \/ BoundRemember \/ BoundCrash \/ BoundLoseCursor
    \/ \E n \in Names : BoundExamine(n) \/ BoundInsert(n) \/ BoundRemove(n)

BoundSpec == BoundInit /\ [][BoundNext]_boundVars

BoundTypeOK ==
    /\ ScanTypeOK
    /\ passed \subseteq Names
    /\ waited \in [Names -> Nat]
    /\ backlog \in [Names -> Nat]
    /\ inserts \in 0..MaxInserts

(* An entry is examined within ceil(backlog / maxBatch) passes, where      *)
(* entries queued meanwhile count into the backlog, whatever other         *)
(* processes remove, and a pass that dies or whose cursor is not written   *)
(* does not count; a lost cursor starts the count again.                   *)
ExaminedInTime == \A n \in files : BatchSize * waited[n] < backlog[n]
=============================================================================
