--------------------------- MODULE Snapshot_proofs ---------------------------
(***************************************************************************)
(* What the snapshot file calls reported was queued: the proof, for any    *)
(* hooks, branches, trunks and bounds.                                     *)
(*                                                                         *)
(* RecordedWasQueued is not inductive: a hook writes what it computes from *)
(* the file it read, possibly long ago, and from the branches it described.*)
(* FlowOK says of every hook in between what makes that write right: the   *)
(* file it read was right when it read it (queued only grows), a flow that *)
(* is not late has described all it selected, and one that records has     *)
(* queued all it described.  That what it writes is right then follows for *)
(* every flow, whatever other hooks did meanwhile (NextIsRecorded).        *)
(***************************************************************************)
EXTENDS Snapshot, TLAPS

Entries == [head : Nat, sentAt : Nat]
SnapshotStates ==
    [trunk : Trunks \union {NoTrunk}, branches : UNION {[B -> Entries] : B \in SUBSET Branches}]
Flows ==
    [capturedAt : Nat, refs : UNION {[B -> Nat] : B \in SUBSET Branches},
     trunk : Trunks \union {NoTrunk}, stored : SnapshotStates,
     selected : SUBSET Branches, described : SUBSET Branches]

TypeInv ==
    /\ head \in [Branches -> Nat]
    /\ listed \subseteq Branches
    /\ trunk \in Trunks
    /\ clock \in Nat
    /\ file \in SnapshotStates
    /\ pc \in [Hooks -> {"idle", "refs", "trunk", "select", "commits", "enqueue", "record"}]
    /\ flow \in [Hooks -> Flows]
    /\ late \in [Hooks -> BOOLEAN]

(* s claims only what is in events.                                        *)
Told(s, events) == \A b \in DOMAIN s.branches : <<b, s.branches[b].head, s.trunk>> \in events

(* f's described branches are in events.                                   *)
Sent(f, events) == \A b \in f.described : <<b, f.refs[b], f.trunk>> \in events

(* A flow about to run a stage has what that stage relies on.              *)
FlowFine(f, stage, isLate, events) ==
    /\ Told(f.stored, events)
    /\ stage \in {"refs", "trunk", "select"} => f.described = {}
    /\ stage \in {"commits", "enqueue", "record"} =>
        f.selected = SelectChangedBranches(f) /\ f.described \subseteq f.selected
    /\ stage = "enqueue" /\ ~ isLate => f.described = f.selected
    /\ stage = "record" => f.described = f.selected /\ Sent(f, events)

FlowOK(h) == FlowFine(flow[h], pc[h], late[h], queued)

IInv == TypeInv /\ Told(file, queued) /\ \A h \in Hooks : FlowOK(h)

-----------------------------------------------------------------------------
(* A branch git lists that was not selected was reported against the       *)
(* default branch of this very flow (selectChangedBranches).               *)
LEMMA Unselected ==
    ASSUME NEW f, NEW b \in DOMAIN f.refs, b \notin SelectChangedBranches(f)
    PROVE  f.stored.trunk = f.trunk /\ b \in DOMAIN f.stored.branches
  BY DEF SelectChangedBranches

(* The state a flow records claims only what was queued, when it described *)
(* all it selected and queued that, and the file it read claimed no more   *)
(* (nextSnapshotState).                                                    *)
LEMMA NextIsRecorded ==
    ASSUME NEW f, NEW events, Told(f.stored, events), Sent(f, events),
           f.described = SelectChangedBranches(f)
    PROVE  Told(NextSnapshotState(f), events)
<1> DEFINE s == NextSnapshotState(f)
<1>1. SUFFICES ASSUME NEW b \in DOMAIN s.branches
               PROVE  <<b, s.branches[b].head, s.trunk>> \in events
  BY DEF Told
<1>2. /\ b \in DOMAIN f.refs
      /\ b \in f.described \/ b \in DOMAIN f.stored.branches
      /\ s.branches[b] = IF b \in f.described THEN [head |-> f.refs[b], sentAt |-> f.capturedAt]
                         ELSE f.stored.branches[b]
      /\ s.trunk = IF DOMAIN f.refs \subseteq f.described THEN f.trunk ELSE f.stored.trunk
  BY <1>1 DEF NextSnapshotState
<1>3. s.trunk = f.trunk
  <2>1. CASE DOMAIN f.refs \subseteq f.described
    BY <2>1, <1>2
  <2>2. CASE ~ (DOMAIN f.refs \subseteq f.described)
    <3>1. PICK c \in DOMAIN f.refs : c \notin SelectChangedBranches(f)
      BY <2>2
    <3>2. f.stored.trunk = f.trunk
      BY <3>1, Unselected
    <3> QED BY <3>2, <2>2, <1>2
  <2> QED BY <2>1, <2>2
<1>4. CASE b \in f.described
  BY <1>2, <1>3, <1>4 DEF Sent
<1>5. CASE b \notin f.described
  <2>1. f.stored.trunk = f.trunk
    BY <1>2, <1>5, Unselected
  <2> QED BY <1>2, <1>3, <1>5, <2>1 DEF Told
<1> QED BY <1>4, <1>5

(* More events make no claim false.                                        *)
LEMMA ToldGrows ==
    ASSUME NEW s, NEW before, NEW after, before \subseteq after, Told(s, before)
    PROVE  Told(s, after)
  BY DEF Told

LEMMA SentGrows ==
    ASSUME NEW f, NEW before, NEW after, before \subseteq after, Sent(f, before)
    PROVE  Sent(f, after)
  BY DEF Sent

(* The empty state claims nothing.                                         *)
LEMMA NothingTold == ASSUME NEW events PROVE Told(EmptyState, events)
  BY DEF Told, EmptyState

LEMMA EmptyTypes == EmptyState \in SnapshotStates /\ NoFlow \in Flows
<1>1. <<>> \in [{} -> Entries] /\ <<>> \in [{} -> Nat]
  OBVIOUS
<1>2. <<>> \in UNION {[B -> Entries] : B \in SUBSET Branches} /\ <<>> \in UNION {[B -> Nat] : B \in SUBSET Branches}
  BY <1>1
<1>3. EmptyState \in SnapshotStates
  BY <1>2 DEF EmptyState, SnapshotStates
<1> QED BY <1>2, <1>3 DEF NoFlow, Flows

(* Whatever a flow records has the file's type.                            *)
LEMMA NextTypes ==
    ASSUME NEW f \in Flows PROVE NextSnapshotState(f) \in SnapshotStates
<1> DEFINE D == (f.described \union DOMAIN f.stored.branches) \intersect DOMAIN f.refs
           E == [b \in D |-> IF b \in f.described THEN [head |-> f.refs[b], sentAt |-> f.capturedAt]
                             ELSE f.stored.branches[b]]
<1>1. PICK R \in SUBSET Branches : f.refs \in [R -> Nat]
  BY DEF Flows
<1>2. f.stored \in SnapshotStates /\ f.trunk \in Trunks \union {NoTrunk} /\ f.capturedAt \in Nat
  BY DEF Flows
<1>3. PICK B \in SUBSET Branches : f.stored.branches \in [B -> Entries]
  BY <1>2 DEF SnapshotStates
<1>4. \A b \in D : (IF b \in f.described THEN [head |-> f.refs[b], sentAt |-> f.capturedAt]
                    ELSE f.stored.branches[b]) \in Entries
  BY <1>1, <1>2, <1>3 DEF Entries
<1>5. E \in [D -> Entries] /\ D \in SUBSET Branches
  BY <1>1, <1>4
<1>6. E \in UNION {[C -> Entries] : C \in SUBSET Branches}
  BY <1>5
<1>7. (IF DOMAIN f.refs \subseteq f.described THEN f.trunk ELSE f.stored.trunk) \in Trunks \union {NoTrunk}
  BY <1>2 DEF SnapshotStates
<1> QED BY <1>6, <1>7 DEF NextSnapshotState, SnapshotStates

LEMMA FlowGrows ==
    ASSUME NEW f, NEW stage, NEW isLate, NEW before, NEW after, before \subseteq after,
           FlowFine(f, stage, isLate, before)
    PROVE  FlowFine(f, stage, isLate, after)
  BY ToldGrows, SentGrows DEF FlowFine

(* Being late takes nothing from what a flow relies on.                    *)
LEMMA LateIsFine ==
    ASSUME NEW f, NEW stage, NEW isLate, NEW events, FlowFine(f, stage, isLate, events)
    PROVE  FlowFine(f, stage, TRUE, events)
  BY DEF FlowFine

LEMMA IdleIsFine ==
    ASSUME NEW f, NEW stage \in {"idle", "refs", "trunk", "select"}, NEW isLate, NEW events,
           Told(f.stored, events), f.described = {}
    PROVE  FlowFine(f, stage, isLate, events)
  BY DEF FlowFine

LEMMA NoFlowIsFine ==
    ASSUME NEW isLate, NEW events PROVE FlowFine(NoFlow, "idle", isLate, events)
  BY NothingTold, IdleIsFine DEF NoFlow

(* A step of one hook that takes nothing from queued and leaves its own    *)
(* flow fine leaves all flows fine.                                        *)
LEMMA OneMoves ==
    ASSUME NEW h \in Hooks, NEW stage, NEW f, IInv,
           Goto(h, stage, f), queued \subseteq queued',
           FlowFine(f, stage, late'[h], queued'),
           \A g \in Hooks \ {h} : late'[g] = late[g]
    PROVE  \A g \in Hooks : FlowOK(g)'
<1> SUFFICES ASSUME NEW g \in Hooks PROVE FlowFine(flow'[g], pc'[g], late'[g], queued')
  BY DEF FlowOK
<1>1. CASE g = h
  BY <1>1 DEF Goto, IInv, TypeInv
<1>2. CASE g # h
  <2>1. flow'[g] = flow[g] /\ pc'[g] = pc[g] /\ late'[g] = late[g]
    BY <1>2 DEF Goto, IInv, TypeInv
  <2>2. FlowFine(flow[g], pc[g], late[g], queued)
    BY DEF IInv, FlowOK
  <2> QED BY <2>1, <2>2, FlowGrows
<1> QED BY <1>1, <1>2

(* ... in particular one that stops.                                       *)
LEMMA OneStops ==
    ASSUME NEW h \in Hooks, IInv, Stop(h), queued \subseteq queued'
    PROVE  \A g \in Hooks : FlowOK(g)'
<1>1. FlowFine(NoFlow, "idle", late'[h], queued')
  BY NoFlowIsFine
<1>2. \A g \in Hooks \ {h} : late'[g] = late[g]
  BY DEF Stop, IInv, TypeInv
<1>3. Goto(h, "idle", NoFlow)
  BY DEF Stop
<1> QED BY <1>1, <1>2, <1>3, OneMoves

LEMMA StopTypes ==
    ASSUME NEW h \in Hooks, TypeInv, Stop(h)
    PROVE  /\ pc' \in [Hooks -> {"idle", "refs", "trunk", "select", "commits", "enqueue", "record"}]
           /\ flow' \in [Hooks -> Flows]
           /\ late' \in [Hooks -> BOOLEAN]
  BY EmptyTypes DEF TypeInv, Stop, Goto

LEMMA GotoTypes ==
    ASSUME NEW h \in Hooks, TypeInv, NEW f \in Flows,
           NEW stage \in {"idle", "refs", "trunk", "select", "commits", "enqueue", "record"}, Goto(h, stage, f)
    PROVE  /\ pc' \in [Hooks -> {"idle", "refs", "trunk", "select", "commits", "enqueue", "record"}]
           /\ flow' \in [Hooks -> Flows]
  BY DEF TypeInv, Goto

-----------------------------------------------------------------------------
(* Every step keeps the invariant.                                         *)
LEMMA InitHolds == Init => IInv
<1> SUFFICES ASSUME Init PROVE IInv
  OBVIOUS
<1>1. TypeInv
  BY EmptyTypes DEF Init, TypeInv
<1>2. Told(file, queued)
  BY NothingTold DEF Init
<1>3. \A h \in Hooks : FlowOK(h)
  BY NoFlowIsFine DEF Init, FlowOK
<1> QED BY <1>1, <1>2, <1>3 DEF IInv

LEMMA CloseKeeps == ASSUME NEW h \in Hooks, IInv, Close(h) PROVE IInv'
<1> DEFINE f == [NoFlow EXCEPT !.capturedAt = clock]
<1>1. Goto(h, "refs", f) /\ UNCHANGED <<repository, file, late, queued>>
  BY DEF Close
<1>2. f \in Flows /\ f.stored = EmptyState /\ f.described = {}
  BY EmptyTypes DEF IInv, TypeInv, Flows, NoFlow
<1>3. TypeInv'
  BY <1>1, <1>2, GotoTypes DEF IInv, TypeInv, repository
<1>4. FlowFine(f, "refs", late'[h], queued')
  BY <1>2, NothingTold, IdleIsFine
<1>5. \A g \in Hooks : FlowOK(g)'
  BY <1>1, <1>4, OneMoves
<1> QED BY <1>1, <1>3, <1>5 DEF IInv

LEMMA CollectRefsKeeps == ASSUME NEW h \in Hooks, IInv, CollectRefs(h) PROVE IInv'
<1> DEFINE f == [flow[h] EXCEPT !.refs = [b \in listed |-> head[b]]]
<1>1. UNCHANGED <<repository, file, queued>>
  BY DEF CollectRefs
<1>2. CASE Stop(h)
  BY <1>1, <1>2, StopTypes, OneStops DEF IInv, TypeInv, repository
<1>3. CASE Goto(h, "trunk", f) /\ UNCHANGED late
  <2>1. flow[h] \in Flows /\ Told(flow[h].stored, queued) /\ flow[h].described = {}
    BY DEF IInv, TypeInv, FlowOK, FlowFine, CollectRefs
  <2>2. [b \in listed |-> head[b]] \in UNION {[B -> Nat] : B \in SUBSET Branches}
    <3>1. [b \in listed |-> head[b]] \in [listed -> Nat] /\ listed \in SUBSET Branches
      BY DEF IInv, TypeInv
    <3> QED BY <3>1
  <2>3. f \in Flows /\ f.stored = flow[h].stored /\ f.described = flow[h].described
    BY <2>1, <2>2 DEF Flows
  <2>4. FlowFine(f, "trunk", late'[h], queued')
    BY <1>1, <2>1, <2>3, IdleIsFine
  <2>5. TypeInv'
    BY <1>1, <1>3, <2>3, GotoTypes DEF IInv, TypeInv, repository
  <2> QED BY <1>1, <1>3, <2>4, <2>5, OneMoves DEF IInv
<1> QED BY <1>2, <1>3 DEF CollectRefs

LEMMA ResolveKeeps == ASSUME NEW h \in Hooks, IInv, ResolveDefaultBranch(h) PROVE IInv'
<1>1. UNCHANGED <<repository, file, late, queued>>
  BY DEF ResolveDefaultBranch
<1>2. PICK t \in Trunks \union {NoTrunk} : Goto(h, "select", [flow[h] EXCEPT !.trunk = t])
  BY SnapshotAssumption DEF ResolveDefaultBranch, IInv, TypeInv
<1> DEFINE f == [flow[h] EXCEPT !.trunk = t]
<1>3. flow[h] \in Flows /\ Told(flow[h].stored, queued) /\ flow[h].described = {}
  BY DEF IInv, TypeInv, FlowOK, FlowFine, ResolveDefaultBranch
<1>4. f \in Flows /\ f.stored = flow[h].stored /\ f.described = flow[h].described
  BY <1>3 DEF Flows
<1>5. FlowFine(f, "select", late'[h], queued')
  BY <1>1, <1>3, <1>4, IdleIsFine
<1>6. TypeInv'
  BY <1>1, <1>2, <1>4, GotoTypes DEF IInv, TypeInv, repository
<1> QED BY <1>1, <1>2, <1>5, <1>6, OneMoves DEF IInv

LEMMA SelectChangedKeeps == ASSUME NEW h \in Hooks, IInv, SelectChanged(h) PROVE IInv'
<1> DEFINE f == [flow[h] EXCEPT !.stored = file]
           g == [f EXCEPT !.selected = SelectChangedBranches(f)]
<1>1. UNCHANGED <<repository, file, queued>>
  BY DEF SelectChanged
<1>2. CASE Stop(h)
  BY <1>1, <1>2, StopTypes, OneStops DEF IInv, TypeInv, repository
<1>3. CASE Goto(h, "commits", g) /\ UNCHANGED late
  <2>1. flow[h] \in Flows /\ flow[h].described = {}
    BY DEF IInv, TypeInv, FlowOK, FlowFine, SelectChanged
  <2>2. f \in Flows /\ f.stored = file /\ f.described = flow[h].described
    BY <2>1 DEF Flows, IInv, TypeInv
  <2>3. SelectChangedBranches(f) \subseteq Branches
    BY <2>2 DEF SelectChangedBranches, Flows
  <2>4. /\ g \in Flows /\ g.stored = file /\ g.selected = SelectChangedBranches(f)
        /\ g.refs = f.refs /\ g.trunk = f.trunk /\ g.capturedAt = f.capturedAt /\ g.described = f.described
    BY <2>2, <2>3 DEF Flows
  <2>5. SelectChangedBranches(g) = SelectChangedBranches(f)
    BY <2>2, <2>4 DEF SelectChangedBranches
  <2>6. g.described = {}
    BY <2>1, <2>2, <2>4
  <2>7. FlowFine(g, "commits", late'[h], queued')
    BY <1>1, <2>4, <2>5, <2>6 DEF FlowFine, IInv
  <2>8. TypeInv'
    BY <1>1, <1>3, <2>4, GotoTypes DEF IInv, TypeInv, repository
  <2> QED BY <1>1, <1>3, <2>7, <2>8, OneMoves DEF IInv
<1> QED BY <1>2, <1>3 DEF SelectChanged

LEMMA DescribeBranchKeeps == ASSUME NEW h \in Hooks, IInv, DescribeBranch(h) PROVE IInv'
<1>1. UNCHANGED <<repository, file, queued>> /\ pc[h] = "commits"
  BY DEF DescribeBranch
<1>2. PICK b \in flow[h].selected \ flow[h].described :
        Goto(h, "commits", [flow[h] EXCEPT !.described = @ \union {b}])
  BY DEF DescribeBranch
<1>3. late' = [late EXCEPT ![h] = Cardinality(flow[h].described) >= Budget]
  BY DEF DescribeBranch
<1> DEFINE f == [flow[h] EXCEPT !.described = @ \union {b}]
<1>4. flow[h] \in Flows /\ FlowFine(flow[h], "commits", late[h], queued)
  BY <1>1 DEF IInv, TypeInv, FlowOK
<1>5. /\ f \in Flows /\ f.stored = flow[h].stored /\ f.selected = flow[h].selected
      /\ f.refs = flow[h].refs /\ f.trunk = flow[h].trunk /\ f.capturedAt = flow[h].capturedAt
      /\ f.described = flow[h].described \union {b}
  BY <1>4 DEF Flows
<1>6. SelectChangedBranches(f) = SelectChangedBranches(flow[h])
  BY <1>4, <1>5 DEF SelectChangedBranches
<1>7. FlowFine(f, "commits", late'[h], queued')
  BY <1>1, <1>4, <1>5, <1>6 DEF FlowFine
<1>8. late' \in [Hooks -> BOOLEAN] /\ \A g \in Hooks \ {h} : late'[g] = late[g]
  <2>1. (Cardinality(flow[h].described) >= Budget) \in BOOLEAN
    OBVIOUS
  <2> QED BY <1>3, <2>1, Zenon DEF IInv, TypeInv
<1>9. TypeInv'
  BY <1>1, <1>2, <1>5, <1>8, GotoTypes DEF IInv, TypeInv, repository
<1> QED BY <1>1, <1>2, <1>7, <1>8, <1>9, OneMoves DEF IInv

LEMMA CommitsCollectedKeeps == ASSUME NEW h \in Hooks, IInv, CommitsCollected(h) PROVE IInv'
<1>1. UNCHANGED <<repository, file, queued>> /\ pc[h] = "commits"
  BY DEF CommitsCollected
<1>2. CASE Stop(h)
  BY <1>1, <1>2, StopTypes, OneStops DEF IInv, TypeInv, repository
<1>3. CASE Goto(h, "enqueue", flow[h]) /\ UNCHANGED late
  <2>1. flow[h] \in Flows /\ FlowFine(flow[h], "commits", late[h], queued)
    BY <1>1 DEF IInv, TypeInv, FlowOK
  <2>2. flow[h].selected = flow[h].described \/ late[h]
    BY DEF CommitsCollected
  <2>3. FlowFine(flow[h], "enqueue", late'[h], queued')
    BY <1>1, <1>3, <2>1, <2>2 DEF FlowFine
  <2>4. TypeInv'
    BY <1>1, <1>3, <2>1, GotoTypes DEF IInv, TypeInv, repository
  <2> QED BY <1>1, <1>3, <2>3, <2>4, OneMoves DEF IInv
<1> QED BY <1>2, <1>3 DEF CommitsCollected

LEMMA EnqueueKeeps == ASSUME NEW h \in Hooks, IInv, Enqueue(h) PROVE IInv'
<1> DEFINE f == flow[h]
           with == queued \union {<<b, f.refs[b], f.trunk>> : b \in f.described}
<1>1. UNCHANGED <<repository, file>> /\ queued \subseteq queued' /\ pc[h] = "enqueue"
  BY DEF Enqueue
<1>2. Told(file', queued')
  BY <1>1, ToldGrows DEF IInv
<1>3. CASE Stop(h)
  BY <1>1, <1>2, <1>3, StopTypes, OneStops DEF IInv, TypeInv, repository
<1>4. CASE ~ late[h] /\ queued' = with /\ Goto(h, "record", f) /\ UNCHANGED late
  <2>1. f \in Flows /\ FlowFine(f, "enqueue", late[h], queued)
    BY <1>1 DEF IInv, TypeInv, FlowOK
  <2>2. Sent(f, queued')
    BY <1>4 DEF Sent
  <2>3. FlowFine(f, "enqueue", late[h], queued')
    BY <1>1, <2>1, FlowGrows
  <2>4. FlowFine(f, "record", late'[h], queued')
    BY <1>4, <2>2, <2>3 DEF FlowFine
  <2>5. TypeInv'
    BY <1>1, <1>4, <2>1, GotoTypes DEF IInv, TypeInv, repository
  <2> QED BY <1>1, <1>2, <1>4, <2>4, <2>5, OneMoves DEF IInv
<1> QED BY <1>3, <1>4 DEF Enqueue

LEMMA RecordKeeps == ASSUME NEW h \in Hooks, IInv, Record(h) PROVE IInv'
<1>1. UNCHANGED <<repository, queued>> /\ Stop(h) /\ pc[h] = "record"
  BY DEF Record
<1>2. file' = file \/ file' = NextSnapshotState(flow[h])
  BY DEF Record
<1>3. flow[h] \in Flows /\ FlowFine(flow[h], "record", late[h], queued)
  BY <1>1 DEF IInv, TypeInv, FlowOK
<1>4. /\ Told(flow[h].stored, queued) /\ Sent(flow[h], queued)
      /\ flow[h].described = SelectChangedBranches(flow[h])
  BY <1>3 DEF FlowFine
<1>5. Told(NextSnapshotState(flow[h]), queued)
  BY <1>4, NextIsRecorded
<1>6. Told(file', queued')
  BY <1>1, <1>2, <1>5 DEF IInv
<1>7. TypeInv'
  BY <1>1, <1>2, <1>3, NextTypes, StopTypes DEF IInv, TypeInv, repository
<1> QED BY <1>1, <1>6, <1>7, OneStops DEF IInv

LEMMA DeadlineKeeps == ASSUME NEW h \in Hooks, IInv, Deadline(h) PROVE IInv'
<1>1. UNCHANGED <<repository, file, pc, flow, queued>> /\ late' = [late EXCEPT ![h] = TRUE]
  BY DEF Deadline
<1>2. TypeInv'
  BY <1>1 DEF IInv, TypeInv, repository
<1>3. ASSUME NEW g \in Hooks PROVE FlowOK(g)'
  <2>1. FlowFine(flow[g], pc[g], late[g], queued) /\ FlowFine(flow[g], pc[g], TRUE, queued)
    BY LateIsFine DEF IInv, FlowOK
  <2>2. late'[g] = late[g] \/ late'[g] = TRUE
    BY <1>1 DEF IInv, TypeInv
  <2> QED BY <1>1, <2>1, <2>2 DEF FlowOK
<1> QED BY <1>1, <1>2, <1>3 DEF IInv

(* What only the surroundings change leaves every flow as it was.          *)
LEMMA OthersKeep ==
    ASSUME IInv, UNCHANGED <<pc, flow, late, queued>>, TypeInv', Told(file', queued)
    PROVE  IInv'
  BY DEF IInv, FlowOK

LEMMA RepositoryKeeps ==
    ASSUME IInv, (\E b \in Branches : Commit(b)) \/ Relist \/ Rename \/ Tick PROVE IInv'
<1>1. UNCHANGED <<file, pc, flow, late, queued>>
  BY DEF Commit, Relist, Rename, Tick, Change
<1>2. TypeInv'
  <2>1. CASE \E b \in Branches : Commit(b)
    BY <1>1, <2>1 DEF IInv, TypeInv, Commit
  <2>2. CASE Relist
    BY <1>1, <2>2 DEF IInv, TypeInv, Relist
  <2>3. CASE Rename
    BY <1>1, <2>3 DEF IInv, TypeInv, Rename
  <2>4. CASE Tick
    BY <1>1, <2>4 DEF IInv, TypeInv, Tick
  <2> QED BY <2>1, <2>2, <2>3, <2>4
<1> QED BY <1>1, <1>2, OthersKeep DEF IInv

LEMMA LoseFileKeeps == ASSUME IInv, LoseFile PROVE IInv'
<1>1. file' = EmptyState /\ UNCHANGED <<repository, pc, flow, late, queued>>
  BY DEF LoseFile
<1>2. TypeInv'
  BY <1>1, EmptyTypes DEF IInv, TypeInv, repository
<1> QED BY <1>1, <1>2, NothingTold, OthersKeep

LEMMA KillKeeps == ASSUME NEW h \in Hooks, IInv, Kill(h) PROVE IInv'
<1>1. Stop(h) /\ UNCHANGED <<repository, file, queued>>
  BY DEF Kill
<1> QED BY <1>1, StopTypes, OneStops DEF IInv, TypeInv, repository

LEMMA NextKeeps == IInv /\ [Next]_vars => IInv'
<1> SUFFICES ASSUME IInv, [Next]_vars PROVE IInv'
  OBVIOUS
<1>1. ASSUME NEW h \in Hooks, Run(h) PROVE IInv'
  BY <1>1, CloseKeeps, CollectRefsKeeps, ResolveKeeps, SelectChangedKeeps, DescribeBranchKeeps,
     CommitsCollectedKeeps, EnqueueKeeps, RecordKeeps DEF Run
<1>2. CASE UNCHANGED vars
  <2>1. UNCHANGED <<file, pc, flow, late, queued>> /\ TypeInv'
    BY <1>2 DEF vars, IInv, TypeInv
  <2> QED BY <2>1, OthersKeep DEF IInv
<1> QED BY <1>1, <1>2, DeadlineKeeps, KillKeeps, LoseFileKeeps, RepositoryKeeps DEF Next

(* The invariant holds in every state.                                     *)
THEOREM Invariance == Spec => []IInv
  BY InitHolds, NextKeeps, PTL DEF Spec

(* A branch the file calls reported is in a queued event, with the head    *)
(* and the default branch the file gives for it, whatever the overlapping  *)
(* hooks read and wrote (snapshotPipeline's enqueue, nextSnapshotState).   *)
THEOREM Recorded == Spec => []RecordedWasQueued
<1>1. IInv => RecordedWasQueued
  BY DEF IInv, Told, RecordedWasQueued
<1> QED BY <1>1, Invariance, PTL

-----------------------------------------------------------------------------
(* Nothing is reported of a head that never was: what a file or a flow     *)
(* holds was true when it was read, and heads and the clock only grow.     *)
Known(s, heads, now) ==
    /\ s.trunk \in Trunks \union {NoTrunk}
    /\ DOMAIN s.branches \subseteq Branches
    /\ \A b \in DOMAIN s.branches : s.branches[b] \in [head : 0..heads[b], sentAt : 0..now]

FlowKnown(f, stage, heads, now) ==
    /\ Known(f.stored, heads, now)
    /\ f.trunk \in Trunks \union {NoTrunk} /\ f.capturedAt \in 0..now
    /\ DOMAIN f.refs \subseteq Branches /\ \A b \in DOMAIN f.refs : f.refs[b] \in 0..heads[b]
    /\ f.described \subseteq f.selected /\ f.selected \subseteq DOMAIN f.refs
    /\ stage \in {"idle", "refs", "trunk", "select"} => f.selected = {}

RepositoryOK ==
    /\ head \in [Branches -> 0..changes]
    /\ listed \in (SUBSET Branches) \ {{}} /\ trunk \in Trunks
    /\ clock \in 0..changes /\ changes \in 0..MaxChanges /\ faults \in 0..MaxFaults

KnownInv ==
    /\ RepositoryOK /\ Known(file, head, clock)
    /\ \A h \in Hooks : FlowKnown(flow[h], pc[h], head, clock)

LEMMA NothingKnown ==
    ASSUME NEW heads \in [Branches -> Nat], NEW now \in Nat
    PROVE  Known(EmptyState, heads, now) /\ FlowKnown(NoFlow, "idle", heads, now)
BY DEF Known, FlowKnown, EmptyState, NoFlow

(* What was known stays known.                                             *)
LEMMA KnownGrows ==
    ASSUME NEW heads \in [Branches -> Nat], NEW now \in Nat, NEW later \in [Branches -> Nat], NEW then \in Nat,
           \A b \in Branches : heads[b] <= later[b], now <= then,
           NEW s, Known(s, heads, now)
    PROVE  Known(s, later, then)
BY DEF Known

LEMMA FlowKnownGrows ==
    ASSUME NEW heads \in [Branches -> Nat], NEW now \in Nat, NEW later \in [Branches -> Nat], NEW then \in Nat,
           \A b \in Branches : heads[b] <= later[b], now <= then,
           NEW f, NEW stage, FlowKnown(f, stage, heads, now)
    PROVE  FlowKnown(f, stage, later, then)
<1>1. Known(f.stored, later, then)
  BY KnownGrows DEF FlowKnown
<1>q. QED BY <1>1 DEF FlowKnown

(* One hook's flow moves in an unchanged repository.                       *)
LEMMA OneKnown ==
    ASSUME NEW h \in Hooks, IInv, KnownInv, NEW stage, NEW f, Goto(h, stage, f),
           UNCHANGED repository, FlowKnown(f, stage, head, clock), faults' \in 0..MaxFaults,
           Known(file', head, clock)
    PROVE  KnownInv'
<1>1. RepositoryOK'
  BY DEF KnownInv, RepositoryOK, repository
<1>2. ASSUME NEW g \in Hooks
      PROVE  FlowKnown(flow'[g], pc'[g], head, clock)
  <2>1. CASE g = h
    <3>1. flow'[g] = f /\ pc'[g] = stage
      BY <2>1 DEF Goto, IInv, TypeInv
    <3>q. QED BY <3>1
  <2>2. CASE g # h
    <3>1. flow'[g] = flow[g] /\ pc'[g] = pc[g]
      BY <2>2 DEF Goto, IInv, TypeInv
    <3>q. QED BY <3>1 DEF KnownInv
  <2>q. QED BY <2>1, <2>2
<1>3. head' = head /\ clock' = clock
  BY DEF repository
<1>q. QED BY <1>1, <1>2, <1>3 DEF KnownInv

LEMMA StopKnown ==
    ASSUME NEW h \in Hooks, IInv, KnownInv, Stop(h), UNCHANGED repository, faults' \in 0..MaxFaults,
           Known(file', head, clock)
    PROVE  KnownInv'
<1>1. FlowKnown(NoFlow, "idle", head, clock)
  BY NothingKnown DEF IInv, TypeInv
<1>q. QED BY <1>1, OneKnown DEF Stop

LEMMA FaultTyped == ASSUME KnownInv, Fault PROVE faults' \in 0..MaxFaults
BY SnapshotAssumption DEF KnownInv, RepositoryOK, Fault

LEMMA RunKnown == ASSUME NEW h \in Hooks, IInv, KnownInv, Run(h) PROVE KnownInv'
<1>0. /\ FlowKnown(flow[h], pc[h], head, clock) /\ Known(file, head, clock) /\ flow[h] \in Flows
      /\ faults \in 0..MaxFaults /\ head \in [Branches -> Nat] /\ clock \in Nat /\ listed \subseteq Branches /\ trunk \in Trunks
  BY DEF KnownInv, RepositoryOK, IInv, TypeInv
<1>1. CASE Close(h)
  <2>1. FlowKnown([NoFlow EXCEPT !.capturedAt = clock], "refs", head, clock)
    BY <1>0 DEF FlowKnown, Known, NoFlow, EmptyState
  <2>2. UNCHANGED <<repository, file, faults>>
    BY <1>1 DEF Close
  <2>q. QED BY <1>0, <1>1, <2>1, <2>2, OneKnown DEF Close
<1>2. CASE CollectRefs(h)
  <2> DEFINE f == [flow[h] EXCEPT !.refs = [b \in listed |-> head[b]]]
  <2>1. UNCHANGED repository /\ file' = file /\ faults' \in 0..MaxFaults
    BY <1>0, <1>2, FaultTyped DEF CollectRefs
  <2>2. CASE Stop(h)
    BY <1>0, <2>1, <2>2, StopKnown
  <2>3. CASE Goto(h, "trunk", f)
    <3>1. /\ f.stored = flow[h].stored /\ f.trunk = flow[h].trunk /\ f.capturedAt = flow[h].capturedAt
          /\ f.described = flow[h].described /\ f.selected = flow[h].selected /\ f.refs = [b \in listed |-> head[b]]
      BY <1>0 DEF Flows
    <3>2. pc[h] = "refs"
      BY <1>2 DEF CollectRefs
    <3> HIDE DEF f
    <3>3. FlowKnown(f, "trunk", head, clock)
      BY <1>0, <3>1, <3>2 DEF FlowKnown
    <3>q. QED BY <1>0, <2>1, <2>3, <3>3, OneKnown
  <2>q. QED BY <1>2, <2>2, <2>3 DEF CollectRefs
<1>3. CASE ResolveDefaultBranch(h)
  <2>1. UNCHANGED repository /\ file' = file /\ faults' \in 0..MaxFaults /\ pc[h] = "trunk"
    BY <1>0, <1>3, FaultTyped DEF ResolveDefaultBranch
  <2>2. PICK t \in Trunks \union {NoTrunk} : Goto(h, "select", [flow[h] EXCEPT !.trunk = t])
    BY <1>0, <1>3, SnapshotAssumption DEF ResolveDefaultBranch
  <2> DEFINE f == [flow[h] EXCEPT !.trunk = t]
  <2>3. /\ f.stored = flow[h].stored /\ f.trunk = t /\ f.capturedAt = flow[h].capturedAt
        /\ f.described = flow[h].described /\ f.selected = flow[h].selected /\ f.refs = flow[h].refs
    BY <1>0 DEF Flows
  <2>4. Goto(h, "select", f)
    BY <2>2
  <2> HIDE DEF f
  <2>5. FlowKnown(f, "select", head, clock)
    BY <1>0, <2>1, <2>3 DEF FlowKnown
  <2>q. QED BY <1>0, <2>1, <2>4, <2>5, OneKnown
<1>4. CASE SelectChanged(h)
  <2> DEFINE e == [flow[h] EXCEPT !.stored = file]
             f == [e EXCEPT !.selected = SelectChangedBranches(e)]
  <2>1. UNCHANGED <<repository, file, faults>> /\ pc[h] = "select"
    BY <1>4 DEF SelectChanged
  <2>2. CASE Stop(h)
    BY <1>0, <2>1, <2>2, StopKnown
  <2>3. CASE Goto(h, "commits", f)
    <3>1. /\ f.stored = file /\ f.trunk = flow[h].trunk /\ f.capturedAt = flow[h].capturedAt
          /\ f.described = flow[h].described /\ f.selected = SelectChangedBranches(e) /\ f.refs = flow[h].refs
          /\ e.refs = flow[h].refs
      BY <1>0 DEF Flows
    <3>2. SelectChangedBranches(e) \subseteq DOMAIN flow[h].refs
      BY <3>1 DEF SelectChangedBranches
    <3>3. flow[h].described = {}
      BY <1>0, <2>1 DEF FlowKnown
    <3> HIDE DEF e, f
    <3>4. FlowKnown(f, "commits", head, clock)
      BY <1>0, <3>1, <3>2, <3>3 DEF FlowKnown
    <3>q. QED BY <1>0, <2>1, <2>3, <3>4, OneKnown
  <2>q. QED BY <1>4, <2>2, <2>3 DEF SelectChanged
<1>5. CASE DescribeBranch(h)
  <2>1. UNCHANGED <<repository, file, faults>> /\ pc[h] = "commits"
    BY <1>5 DEF DescribeBranch
  <2>2. PICK b \in flow[h].selected \ flow[h].described :
            Goto(h, "commits", [flow[h] EXCEPT !.described = @ \union {b}])
    BY <1>5 DEF DescribeBranch
  <2> DEFINE f == [flow[h] EXCEPT !.described = @ \union {b}]
  <2>3. /\ f.stored = flow[h].stored /\ f.trunk = flow[h].trunk /\ f.capturedAt = flow[h].capturedAt
        /\ f.described = flow[h].described \union {b} /\ f.selected = flow[h].selected /\ f.refs = flow[h].refs
    BY <1>0 DEF Flows
  <2>4. Goto(h, "commits", f)
    BY <2>2
  <2> HIDE DEF f
  <2>5. FlowKnown(f, "commits", head, clock)
    BY <1>0, <2>1, <2>3 DEF FlowKnown
  <2>q. QED BY <1>0, <2>1, <2>4, <2>5, OneKnown
<1>6. CASE CommitsCollected(h)
  <2>1. UNCHANGED <<repository, file, faults>> /\ pc[h] = "commits"
    BY <1>6 DEF CommitsCollected
  <2>2. CASE Stop(h)
    BY <1>0, <2>1, <2>2, StopKnown
  <2>3. CASE Goto(h, "enqueue", flow[h])
    <3>1. FlowKnown(flow[h], "enqueue", head, clock)
      BY <1>0 DEF FlowKnown
    <3>q. QED BY <1>0, <2>1, <2>3, <3>1, OneKnown
  <2>q. QED BY <1>6, <2>2, <2>3 DEF CommitsCollected
<1>7. CASE Enqueue(h)
  <2>1. UNCHANGED repository /\ file' = file /\ faults' \in 0..MaxFaults
    BY <1>0, <1>7, FaultTyped DEF Enqueue
  <2>2. CASE Stop(h)
    BY <1>0, <2>1, <2>2, StopKnown
  <2>3. CASE Goto(h, "record", flow[h])
    <3>1. FlowKnown(flow[h], "record", head, clock)
      BY <1>0 DEF FlowKnown
    <3>q. QED BY <1>0, <2>1, <2>3, <3>1, OneKnown
  <2>q. QED BY <1>7, <2>2, <2>3 DEF Enqueue
<1>8. CASE Record(h)
  <2>1. UNCHANGED repository /\ faults' \in 0..MaxFaults /\ Stop(h)
    BY <1>0, <1>8, FaultTyped DEF Record
  <2>2. Known(NextSnapshotState(flow[h]), head, clock)
    <3> DEFINE s == NextSnapshotState(flow[h])
               f == flow[h]
    <3>1. /\ s.trunk \in {f.trunk, f.stored.trunk}
          /\ DOMAIN s.branches = (f.described \union DOMAIN f.stored.branches) \intersect DOMAIN f.refs
          /\ \A b \in DOMAIN s.branches : s.branches[b] = IF b \in f.described THEN [head |-> f.refs[b], sentAt |-> f.capturedAt]
                                                         ELSE f.stored.branches[b]
      BY DEF NextSnapshotState
    <3> HIDE DEF s, f
    <3>2. FlowKnown(f, pc[h], head, clock)
      BY <1>0 DEF f
    <3>3. ASSUME NEW b \in DOMAIN s.branches
          PROVE  s.branches[b] \in [head : 0..head[b], sentAt : 0..clock]
      <4>1. b \in DOMAIN f.refs /\ (b \in f.described \/ b \in DOMAIN f.stored.branches)
        BY <3>1
      <4>2. CASE b \in f.described
        <5>1. f.refs[b] \in 0..head[b] /\ f.capturedAt \in 0..clock
          BY <3>2, <4>1 DEF FlowKnown
        <5>2. s.branches[b] = [head |-> f.refs[b], sentAt |-> f.capturedAt]
          BY <3>1, <4>2
        <5>q. QED BY <5>1, <5>2
      <4>3. CASE b \notin f.described
        BY <3>1, <3>2, <4>1, <4>3 DEF FlowKnown, Known
      <4>q. QED BY <4>2, <4>3
    <3>4. s.trunk \in Trunks \union {NoTrunk} /\ DOMAIN s.branches \subseteq Branches
      BY <3>1, <3>2 DEF FlowKnown, Known
    <3>q. QED BY <3>3, <3>4 DEF Known, s
  <2>3. Known(file', head, clock)
    BY <1>0, <1>8, <2>2 DEF Record
  <2>q. QED BY <2>1, <2>3, StopKnown
<1>q. QED BY <1>1, <1>2, <1>3, <1>4, <1>5, <1>6, <1>7, <1>8 DEF Run

(* The repository moves on.                                                *)
LEMMA RepositoryKnown ==
    ASSUME IInv, KnownInv, UNCHANGED <<file, pc, flow, faults>>, RepositoryOK',
           \A b \in Branches : head[b] <= head'[b], clock <= clock'
    PROVE  KnownInv'
<1>1. head \in [Branches -> Nat] /\ clock \in Nat /\ head' \in [Branches -> Nat] /\ clock' \in Nat
  BY DEF IInv, TypeInv, RepositoryOK
<1>2. Known(file, head', clock')
  BY <1>1, KnownGrows DEF KnownInv
<1>3. \A h \in Hooks : FlowKnown(flow[h], pc[h], head', clock')
  BY <1>1, FlowKnownGrows DEF KnownInv
<1>q. QED BY <1>2, <1>3 DEF KnownInv

LEMMA NextKnown == IInv /\ KnownInv /\ [Next]_vars => KnownInv'
<1> SUFFICES ASSUME IInv, KnownInv, [Next]_vars PROVE KnownInv'
  OBVIOUS
<1>0. /\ Known(file, head, clock) /\ head \in [Branches -> Nat] /\ clock \in Nat
      /\ head \in [Branches -> 0..changes] /\ clock \in 0..changes /\ changes \in 0..MaxChanges
  BY DEF KnownInv, RepositoryOK, IInv, TypeInv
<1>1. ASSUME NEW h \in Hooks, Kill(h) PROVE KnownInv'
  <2>1. UNCHANGED <<repository, file>> /\ faults' \in 0..MaxFaults /\ Stop(h)
    BY <1>1, FaultTyped DEF Kill
  <2>q. QED BY <1>0, <2>1, StopKnown
<1>2. ASSUME NEW h \in Hooks, Deadline(h) PROVE KnownInv'
  <2>1. UNCHANGED <<repository, file, pc, flow>> /\ faults' \in 0..MaxFaults
    BY <1>2, FaultTyped DEF Deadline
  <2>q. QED BY <2>1 DEF KnownInv, RepositoryOK, repository
<1>3. CASE LoseFile
  <2>1. UNCHANGED <<repository, pc, flow>> /\ faults' \in 0..MaxFaults /\ file' = EmptyState
    BY <1>3, FaultTyped DEF LoseFile
  <2>2. Known(EmptyState, head, clock)
    BY <1>0, NothingKnown
  <2>q. QED BY <2>1, <2>2 DEF KnownInv, RepositoryOK, repository
<1>4. ASSUME NEW b \in Branches, Commit(b) PROVE KnownInv'
  <2>1. /\ head' = [head EXCEPT ![b] = head[b] + 1] /\ changes' = changes + 1 /\ changes < MaxChanges
        /\ UNCHANGED <<listed, trunk, clock, file, pc, flow, faults>>
    BY <1>4 DEF Commit, Change
  <2>2. RepositoryOK' /\ (\A c \in Branches : head[c] <= head'[c]) /\ clock <= clock'
    BY <1>0, <2>1, SnapshotAssumption DEF KnownInv, RepositoryOK
  <2>q. QED BY <2>1, <2>2, RepositoryKnown
<1>5. CASE Relist \/ Rename \/ Tick
  <2>1. /\ head' = head /\ changes' = changes + 1 /\ changes < MaxChanges /\ clock' \in {clock, clock + 1}
        /\ UNCHANGED <<file, pc, flow, faults>>
        /\ listed' \in (SUBSET Branches) \ {{}} /\ trunk' \in Trunks
    BY <1>5 DEF Relist, Rename, Tick, Change, KnownInv, RepositoryOK
  <2>2. RepositoryOK' /\ (\A c \in Branches : head[c] <= head'[c]) /\ clock <= clock'
    BY <1>0, <2>1, SnapshotAssumption DEF KnownInv, RepositoryOK
  <2>q. QED BY <2>1, <2>2, RepositoryKnown
<1>6. CASE UNCHANGED vars
  BY <1>6 DEF vars, KnownInv, RepositoryOK
<1>q. QED BY <1>1, <1>2, <1>3, <1>4, <1>5, <1>6, RunKnown DEF Next

(* The snapshot's variables keep their types: a file, and the copy of it   *)
(* that any hook read, names no head a branch has not had, and no later    *)
(* time than now.                                                          *)
THEOREM TypeCorrect == Spec => []TypeOK
<1>1. Init => KnownInv
  <2> SUFFICES ASSUME Init PROVE KnownInv
    OBVIOUS
  <2>1. RepositoryOK /\ head \in [Branches -> Nat] /\ clock \in Nat
    BY SnapshotAssumption DEF Init, RepositoryOK
  <2>q. QED BY <2>1, NothingKnown DEF Init, KnownInv
<1>2. IInv /\ KnownInv => TypeOK
  <2> SUFFICES ASSUME IInv, KnownInv PROVE TypeOK
    OBVIOUS
  <2>1. head \in [Branches -> 0..MaxChanges] /\ clock \in 0..MaxChanges
    BY SnapshotAssumption DEF KnownInv, RepositoryOK
  <2>q. QED BY <2>1 DEF IInv, TypeInv, KnownInv, RepositoryOK, FlowKnown, Known, IsState, TypeOK
<1>q. QED BY <1>1, <1>2, NextKnown, Invariance, PTL DEF Spec
=============================================================================
