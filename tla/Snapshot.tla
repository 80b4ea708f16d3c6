------------------------------- MODULE Snapshot -------------------------------
(***************************************************************************)
(* The repository snapshot, src/src/snapshot: the hook of a closed turn    *)
(* lists the branches of its checkout, compares their heads with the file  *)
(* of what was last reported, describes those that differ against the      *)
(* default branch, queues one event and rewrites the file.  All of it has  *)
(* a budget, and the hooks of several sessions close turns on one          *)
(* repository, each reading and replacing the file without a lock.         *)
(*                                                                         *)
(* A head is the number of its commit.  The queue is the module EventQueue;*)
(* here an event is either accepted or not.                                *)
(***************************************************************************)
EXTENDS Naturals, FiniteSets

CONSTANTS
    Hooks,
    Branches,
    Trunks,         \* what origin/HEAD may name
    Assumed,        \* of these, the local main or master
    NoTrunk,        \* no default branch is known
    Refresh,        \* SNAPSHOT_REFRESH_MS, in ticks
    Budget,         \* git logs that fit in SNAPSHOT_BUDGET_MS
    MaxChanges,     \* bound: commits, listings, renamed trunks, ticks
    MaxFaults       \* bound: kills, failures and early deadlines

ASSUME SnapshotAssumption ==
    /\ Assumed \subseteq Trunks /\ NoTrunk \notin Trunks
    /\ Refresh \in Nat \ {0} /\ Budget \in Nat
    /\ MaxChanges \in Nat /\ MaxFaults \in Nat

VARIABLES
    head,       \* the repository: the head of each branch,
    listed,     \* the branches git lists, the ten most recent that exist,
    trunk,      \* and what origin/HEAD names
    clock,
    changes,    \* so many changes of these so far
    file,       \* what the last snapshot reported
    pc,         \* per hook: the stage it is about to run
    flow,       \* per hook: SnapshotFlowState
    late,       \* per hook: the deadline has passed
    queued,     \* history: <<branch, head, default branch>> of queued events
    faults      \* history: faults so far

repository == <<head, listed, trunk, clock, changes>>
vars == <<head, listed, trunk, clock, changes, file, pc, flow, late, queued, faults>>

EmptyState == [trunk |-> NoTrunk, branches |-> <<>>]
NoFlow == [capturedAt |-> 0, refs |-> <<>>, trunk |-> NoTrunk, stored |-> EmptyState,
           selected |-> {}, described |-> {}]

-----------------------------------------------------------------------------
SelectNew(f) ==             \* a mutant: heads are not compared
    {b \in DOMAIN f.refs :
        \/ f.stored.trunk # f.trunk
        \/ b \notin DOMAIN f.stored.branches
        \/ f.capturedAt >= f.stored.branches[b].sentAt + Refresh}

SelectChangedBranches(f) ==
    {b \in DOMAIN f.refs :
        \/ f.stored.trunk # f.trunk
        \/ b \notin DOMAIN f.stored.branches
        \/ f.stored.branches[b].head # f.refs[b]
        \/ f.capturedAt >= f.stored.branches[b].sentAt + Refresh}

(* What was described is recorded; the rest stays as it was, and so does   *)
(* the default branch unless all were described against the new one.       *)
NextSnapshotState(f) ==
    [trunk |-> IF DOMAIN f.refs \subseteq f.described THEN f.trunk ELSE f.stored.trunk,
     branches |->
        [b \in (f.described \union DOMAIN f.stored.branches) \intersect DOMAIN f.refs |->
            IF b \in f.described THEN [head |-> f.refs[b], sentAt |-> f.capturedAt]
            ELSE f.stored.branches[b]]]

Init ==
    /\ head = [b \in Branches |-> 0]
    /\ listed \in (SUBSET Branches) \ {{}}
    /\ trunk \in Trunks
    /\ clock = 0 /\ changes = 0
    /\ file = EmptyState
    /\ pc = [h \in Hooks |-> "idle"]
    /\ flow = [h \in Hooks |-> NoFlow]
    /\ late = [h \in Hooks |-> FALSE]
    /\ queued = {}
    /\ faults = 0

-----------------------------------------------------------------------------
Fault == faults < MaxFaults /\ faults' = faults + 1

(* A stage goes on to the next, or the flow stops.                         *)
Goto(h, stage, f) ==
    /\ pc' = [pc EXCEPT ![h] = stage]
    /\ flow' = [flow EXCEPT ![h] = f]

Stop(h) ==
    /\ Goto(h, "idle", NoFlow)
    /\ late' = [late EXCEPT ![h] = FALSE]

(* A turn closes on this repository.                                       *)
Close(h) ==
    /\ pc[h] = "idle"
    /\ Goto(h, "refs", [NoFlow EXCEPT !.capturedAt = clock])
    /\ UNCHANGED <<repository, file, late, queued, faults>>

(* collectRefs: the heads first.  Without time left, or when git fails,    *)
(* there are none.                                                         *)
CollectRefs(h) ==
    /\ pc[h] = "refs"
    /\ \/ ~ late[h] /\ Goto(h, "trunk", [flow[h] EXCEPT !.refs = [b \in listed |-> head[b]]])
          /\ UNCHANGED <<late, faults>>
       \/ late[h] /\ Stop(h) /\ UNCHANGED faults
       \/ Fault /\ Stop(h)
    /\ UNCHANGED <<repository, file, queued>>

(* ... then the default branch: what origin/HEAD says, or, when that call  *)
(* fails, a local main or master, or nothing.                              *)
ResolveDefaultBranch(h) ==
    /\ pc[h] = "trunk"
    /\ \/ ~ late[h] /\ Goto(h, "select", [flow[h] EXCEPT !.trunk = trunk]) /\ UNCHANGED faults
       \/ late[h] /\ Goto(h, "select", [flow[h] EXCEPT !.trunk = NoTrunk]) /\ UNCHANGED faults
       \/ Fault /\ \E t \in Assumed \union {NoTrunk} : Goto(h, "select", [flow[h] EXCEPT !.trunk = t])
    /\ UNCHANGED <<repository, file, late, queued>>

SelectChanged(h) ==
    LET f == [flow[h] EXCEPT !.stored = file] IN
    /\ pc[h] = "select"
    /\ \/ /\ SelectChangedBranches(f) # {}
          /\ Goto(h, "commits", [f EXCEPT !.selected = SelectChangedBranches(f)])
          /\ UNCHANGED late
       \/ SelectChangedBranches(f) = {} /\ Stop(h)
    /\ UNCHANGED <<repository, file, queued, faults>>

(* collectCommits, one git log: the branch counts as described also when   *)
(* the deadline cut its log short.                                         *)
DescribeBranch(h) ==
    LET f == flow[h] IN
    /\ pc[h] = "commits"
    /\ ~ late[h]
    /\ \E b \in f.selected \ f.described : Goto(h, "commits", [f EXCEPT !.described = @ \union {b}])
    /\ late' = [late EXCEPT ![h] = Cardinality(f.described) >= Budget]
    /\ UNCHANGED <<repository, file, queued, faults>>

(* ... until all are described or the budget is spent.                     *)
CommitsCollected(h) ==
    /\ pc[h] = "commits"
    /\ flow[h].selected = flow[h].described \/ late[h]
    /\ \/ flow[h].described # {} /\ Goto(h, "enqueue", flow[h]) /\ UNCHANGED late
       \/ flow[h].described = {} /\ Stop(h)
    /\ UNCHANGED <<repository, file, queued, faults>>

EnqueueUnchecked(h) ==      \* a mutant: queued or not, it is recorded
    /\ pc[h] = "enqueue"
    /\ queued' \in {queued, queued \union {<<b, flow[h].refs[b], flow[h].trunk>> : b \in flow[h].described}}
    /\ Goto(h, "record", flow[h])
    /\ UNCHANGED <<repository, file, late, faults>>

(* The event is handed to the queue in any case; unless it is known to be  *)
(* there within the budget the flow stops, and it may be there or not.     *)
Enqueue(h) ==
    LET with == queued \union {<<b, flow[h].refs[b], flow[h].trunk>> : b \in flow[h].described} IN
    /\ pc[h] = "enqueue"
    /\ \/ ~ late[h] /\ queued' = with /\ Goto(h, "record", flow[h]) /\ UNCHANGED <<late, faults>>
       \/ late[h] /\ queued' \in {queued, with} /\ Stop(h) /\ UNCHANGED faults
       \/ Fault /\ queued' \in {queued, with} /\ Stop(h)
    /\ UNCHANGED <<repository, file>>

(* The file is replaced, unless the budget or the write fails.             *)
Record(h) ==
    /\ pc[h] = "record"
    /\ \/ file' = NextSnapshotState(flow[h]) /\ UNCHANGED faults
       \/ late[h] /\ UNCHANGED <<file, faults>>
       \/ Fault /\ UNCHANGED file
    /\ Stop(h)
    /\ UNCHANGED <<repository, queued>>

-----------------------------------------------------------------------------
(* A second can pass before any stage.                                     *)
Deadline(h) ==
    /\ pc[h] # "idle" /\ ~ late[h]
    /\ Fault
    /\ late' = [late EXCEPT ![h] = TRUE]
    /\ UNCHANGED <<repository, file, pc, flow, queued>>

Kill(h) ==
    /\ pc[h] # "idle"
    /\ Fault
    /\ Stop(h)
    /\ UNCHANGED <<repository, file, queued>>

(* A file that is gone or cannot be read is the empty state.               *)
LoseFile ==
    /\ file # EmptyState
    /\ Fault
    /\ file' = EmptyState
    /\ UNCHANGED <<repository, pc, flow, late, queued>>

Change == changes < MaxChanges /\ changes' = changes + 1
              /\ UNCHANGED <<file, pc, flow, late, queued, faults>>

Commit(b) ==
    /\ head' = [head EXCEPT ![b] = @ + 1]
    /\ UNCHANGED <<listed, trunk, clock>>
    /\ Change

(* A branch is created or deleted, or ten others are more recent.          *)
Relist ==
    /\ listed' \in (SUBSET Branches) \ {{}, listed}
    /\ UNCHANGED <<head, trunk, clock>>
    /\ Change

Rename ==
    /\ trunk' \in Trunks \ {trunk}
    /\ UNCHANGED <<head, listed, clock>>
    /\ Change

Tick ==
    /\ clock' = clock + 1
    /\ UNCHANGED <<head, listed, trunk>>
    /\ Change

Run(h) ==
    \/ Close(h) \/ CollectRefs(h) \/ ResolveDefaultBranch(h) \/ SelectChanged(h)
    \/ DescribeBranch(h) \/ CommitsCollected(h) \/ Enqueue(h) \/ Record(h)

Next ==
    \/ \E h \in Hooks : Run(h) \/ Deadline(h) \/ Kill(h)
    \/ LoseFile
    \/ (\E b \in Branches : Commit(b)) \/ Relist \/ Rename \/ Tick

Spec == Init /\ [][Next]_vars

(* Turns keep closing, and their hooks run.                                *)
FairSpec == Spec /\ \A h \in Hooks : WF_vars(Run(h))

-----------------------------------------------------------------------------
IsState(s) ==
    /\ s.trunk \in Trunks \union {NoTrunk}
    /\ DOMAIN s.branches \subseteq Branches
    /\ \A b \in DOMAIN s.branches : s.branches[b] \in [head : 0..head[b], sentAt : 0..clock]

(* The state has its type; nothing is reported of a head that never was.   *)
TypeOK ==
    /\ head \in [Branches -> 0..MaxChanges]
    /\ listed \in (SUBSET Branches) \ {{}} /\ trunk \in Trunks
    /\ clock \in 0..MaxChanges /\ changes \in 0..MaxChanges /\ faults \in 0..MaxFaults
    /\ IsState(file)
    /\ pc \in [Hooks -> {"idle", "refs", "trunk", "select", "commits", "enqueue", "record"}]
    /\ late \in [Hooks -> BOOLEAN]
    /\ \A h \in Hooks :
        /\ IsState(flow[h].stored)
        /\ flow[h].described \subseteq flow[h].selected
        /\ flow[h].selected \subseteq DOMAIN flow[h].refs

(* What the file says was reported, a head of a branch described against   *)
(* the recorded default branch, is in an event that was queued, whichever  *)
(* of the overlapping hooks wrote it last (snapshot-state.ts 53-62,        *)
(* branch-selection.ts 37-48 and 71-74).                                   *)
RecordedWasQueued ==
    \A b \in DOMAIN file.branches : <<b, file.branches[b].head, file.trunk>> \in queued

(* Once the repository rests, every listed branch has been described, at   *)
(* its head and against its default branch, in a queued event: a failed    *)
(* or abandoned snapshot is made up for by a later turn                    *)
(* (snapshot.constants.ts, SNAPSHOT_BUDGET_MS: "the next turn retries").   *)
EveryHeadIsQueued ==
    \A b \in Branches : <>[](b \in listed => <<b, head[b], trunk>> \in queued)

(* Not so: a repository whose logs do not fit the budget gets the branches *)
(* it could describe recorded (snapshot-pipeline.ts 118: "an overrun stops *)
(* here with the branches already described rather than discarding the     *)
(* work").                                                                 *)
OverrunKeepsWork ==
    (\E h \in Hooks : []<>(flow[h].described # {})) => <>(DOMAIN file.branches # {})
=============================================================================
