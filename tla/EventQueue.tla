----------------------------- MODULE EventQueue -----------------------------
(***************************************************************************)
(* The offline queue of src/src/transport/queue.ts: one directory, one     *)
(* file per event id, shared by every hook process of one identity.        *)
(*                                                                         *)
(* A step is one file system call, or one request, of one process; the     *)
(* reads a pass makes are separate from the removals and rewrites it bases *)
(* on them.  Entries a drain has read live on in its memory (mem) and are  *)
(* written back from there, however the file has changed since.            *)
(*                                                                         *)
(* The drain lock is used through its contract (LockContract), which       *)
(* AdvisoryLock implements; the scan cursor is QueueScan's subject, here a *)
(* pass scans any MaxBatch of the names; one destination is modelled.      *)
(***************************************************************************)
EXTENDS Integers, FiniteSets

CONSTANTS
    Procs,              \* hook processes
    Events,             \* deterministic event ids, each the name of a file
    NoEvent, NoFile,    \* "none" of an event and of an entry
    Legacy,             \* events whose files may be there, unusable, from before
    MaxAttempts,        \* options.maxAttempts
    MaxAge,             \* options.maxEventAgeDays, in ticks
    MaxEvents,          \* options.maxEvents
    MaxBatch,           \* entries a pass may read, and send
    MaxIsolationSends,  \* probes after a batch was refused for good
    Backoffs,           \* what backoffMs may return, jitter included, in ticks
    SweepInterval,      \* QUEUE_SWEEP_INTERVAL_MS, in ticks
    MaxClock,           \* bound: the clock stops here
    MaxWrites,          \* bound: entries written by enqueues
    MaxFaults           \* bound: crashes, misreads and locks broken early

ASSUME QueueAssumption ==
    /\ IsFiniteSet(Events)
    /\ NoEvent \notin Events
    /\ Legacy \subseteq Events
    /\ MaxAttempts \in Nat \ {0}
    /\ MaxAge \in Nat
    /\ MaxEvents \in Nat
    /\ MaxBatch \in Nat \ {0}
    /\ MaxIsolationSends \in Nat
    /\ Backoffs \subseteq Nat /\ Backoffs # {}
    /\ SweepInterval \in Nat
    /\ MaxClock \in Nat
    /\ MaxWrites \in Nat
    /\ MaxFaults \in Nat

(* One queue file.  readable is FALSE for what readEntry and               *)
(* isProductEvent refuse: damaged JSON, or a pre-product lifecycle event.  *)
Entry == [attempts : 0..(MaxAttempts - 1), first : Nat, next : Nat, readable : BOOLEAN]

ASSUME NoFileAssumption == NoFile \notin Entry

VARIABLES
    clock,      \* wall clock
    file,       \* the partition: file[e] is an Entry, or NoFile
    swept,      \* mtime of the sweep marker
    present,    \* the drain lock's file exists
    tally,      \* totalDropped of the delivery stats
    pc,         \* per process: the operation and how far it is
    draining,   \* per process: between acquireLock and release
    now,        \* per process: the pass's clock reading
    todo,       \* per process: names its loop has left
    cur,        \* per process: the name it is about to write or remove
    mem,        \* per process: entries read and not dealt with yet
    budget,     \* per process: evictions to choose, or probes left
    drops       \* per process: losses it has not reported yet

(* History, read by no action.                                             *)
VARIABLES
    accepted,   \* events a send was done with: the backend stored, knew or
                \* rejected them, or the capture policy withdrew them
    refusals,   \* answers that refused an event, counted to MaxAttempts
    born,       \* when an event was first queued, or -1
    crowded,    \* events listed when the queue was over its bound
    spoiled,    \* events whose file could not be read, once or for good
    uncounted,  \* losses a crash kept from being reported
    broken,     \* the drain lock was broken as stale
    writes,     \* entries written by enqueues
    faults      \* faults so far

local == <<pc, draining, now, todo, cur, mem, budget, drops>>
history == <<accepted, refusals, born, crowded, spoiled, uncounted, writes, faults>>
lock == <<present, broken>>
vars == <<clock, file, swept, tally, lock, local, history>>

-----------------------------------------------------------------------------
NoBatch == [e \in Events |-> NoFile]
Filed == {e \in Events : file[e] # NoFile}
Batch(p) == {e \in Events : mem[p][e] # NoFile}
Smaller(m, n) == IF m < n THEN m ELSE n

Drainers == {p \in Procs : draining[p]}
Lock == INSTANCE LockContract WITH holders <- Drainers

FreshEntry == [attempts |-> 0, first |-> clock, next |-> clock, readable |-> TRUE]
LegacyEntry == [attempts |-> 0, first |-> 0, next |-> 0, readable |-> FALSE]

Init ==
    /\ clock = 0
    /\ \E old \in SUBSET Legacy :
        file = [e \in Events |-> IF e \in old THEN LegacyEntry ELSE NoFile]
    /\ swept = -SweepInterval
    /\ present = FALSE
    /\ tally = 0
    /\ pc = [p \in Procs |-> "idle"]
    /\ draining = [p \in Procs |-> FALSE]
    /\ now = [p \in Procs |-> 0]
    /\ todo = [p \in Procs |-> {}]
    /\ cur = [p \in Procs |-> NoEvent]
    /\ mem = [p \in Procs |-> NoBatch]
    /\ budget = [p \in Procs |-> 0]
    /\ drops = [p \in Procs |-> 0]
    /\ accepted = {}
    /\ refusals = [e \in Events |-> 0]
    /\ born = [e \in Events |-> IF file[e] = NoFile THEN -1 ELSE 0]
    /\ crowded = {}
    /\ spoiled = Filed
    /\ uncounted = 0
    /\ broken = FALSE
    /\ writes = 0
    /\ faults = 0

Goto(p, label) == pc' = [pc EXCEPT ![p] = label]
Remove(e) == file' = [file EXCEPT ![e] = NoFile]
Done(p, e) == todo' = [todo EXCEPT ![p] = @ \ {e}]
Handled(p, e) == mem' = [mem EXCEPT ![p][e] = NoFile]
CountDrop(p) == drops' = [drops EXCEPT ![p] = @ + 1]

-----------------------------------------------------------------------------
(* enqueue: for each event, skip it when its file exists, write it when    *)
(* not; then enforceBound.                                                 *)

Enqueue(p, events) ==
    /\ pc[p] = "idle"
    /\ events # {}
    /\ writes + Cardinality(events) <= MaxWrites
    /\ writes' = writes + Cardinality(events)
    /\ Goto(p, "enqueue")
    /\ todo' = [todo EXCEPT ![p] = events]
    /\ UNCHANGED <<clock, file, swept, tally, lock, draining, now, cur, mem, budget, drops>>
    /\ UNCHANGED <<accepted, refusals, born, crowded, spoiled, uncounted, faults>>

EnqueueExists(p, e) ==
    /\ pc[p] = "enqueue" /\ cur[p] = NoEvent /\ e \in todo[p]
    /\ IF file[e] # NoFile
       THEN Done(p, e) /\ UNCHANGED cur
       ELSE cur' = [cur EXCEPT ![p] = e] /\ UNCHANGED todo
    /\ UNCHANGED <<clock, file, swept, tally, lock, history>>
    /\ UNCHANGED <<pc, draining, now, mem, budget, drops>>

EnqueueWrite(p) ==
    LET e == cur[p] IN
    /\ pc[p] = "enqueue" /\ e # NoEvent
    /\ file' = [file EXCEPT ![e] = FreshEntry]
    /\ born' = [born EXCEPT ![e] = IF @ = -1 THEN clock ELSE @]
    /\ Done(p, e)
    /\ cur' = [cur EXCEPT ![p] = NoEvent]
    /\ UNCHANGED <<clock, swept, tally, lock, pc, draining, now, mem, budget, drops>>
    /\ UNCHANGED <<accepted, refusals, crowded, spoiled, uncounted, writes, faults>>

(* enforceBound, its listing: files.length - maxEvents entries must go.    *)
Excess == Cardinality(Filed) - MaxEvents

BoundList(p) ==
    /\ pc[p] = "enqueue" /\ todo[p] = {} /\ cur[p] = NoEvent
    /\ IF Excess <= 0
       THEN Goto(p, "idle") /\ UNCHANGED <<todo, budget>>
       ELSE /\ Goto(p, "date")
            /\ todo' = [todo EXCEPT ![p] = Filed]
            /\ budget' = [budget EXCEPT ![p] = Excess]
    /\ crowded' = IF Cardinality(Filed) > MaxEvents THEN crowded \union Filed ELSE crowded
    /\ UNCHANGED <<clock, file, swept, tally, lock, draining, now, cur, mem, drops>>
    /\ UNCHANGED <<accepted, refusals, born, spoiled, uncounted, writes, faults>>

(* The listed files that are still there, and the oldest of them.          *)
Oldest(names, n) ==
    {doomed \in SUBSET names :
        /\ Cardinality(doomed) = Smaller(n, Cardinality(names))
        /\ \A d \in doomed, k \in names \ doomed : file[d].first <= file[k].first}

BoundDate(p) ==
    /\ pc[p] = "date"
    /\ \E doomed \in Oldest(todo[p] \intersect Filed, budget[p]) :
        todo' = [todo EXCEPT ![p] = doomed]
    /\ Goto(p, "evict")
    /\ budget' = [budget EXCEPT ![p] = 0]
    /\ UNCHANGED <<clock, file, swept, tally, lock, history>>
    /\ UNCHANGED <<draining, now, cur, mem, drops>>

BoundEvict(p, e) ==
    /\ pc[p] = "evict" /\ e \in todo[p]
    /\ Remove(e)
    /\ Done(p, e)
    /\ CountDrop(p)
    /\ UNCHANGED <<clock, swept, tally, lock, history>>
    /\ UNCHANGED <<pc, draining, now, cur, mem, budget>>

-----------------------------------------------------------------------------
(* drain takes the lock or gives up; sweep, for hooks that may not send,   *)
(* takes none.  Both start with sweepUnsendable.                           *)

(* A mutant of it: a lock file that is there does not stop the drain.      *)
DrainUnlocked(p) ==
    /\ pc[p] = "idle"
    /\ Goto(p, "claim")
    /\ draining' = [draining EXCEPT ![p] = TRUE]
    /\ present' = TRUE
    /\ now' = [now EXCEPT ![p] = clock]
    /\ UNCHANGED <<clock, file, swept, tally, broken, todo, cur, mem, budget, drops, history>>

Drain(p) ==
    /\ pc[p] = "idle"
    /\ Goto(p, "claim")
    /\ draining' = [draining EXCEPT ![p] = TRUE]
    /\ Lock!Acquire(p)
    /\ now' = [now EXCEPT ![p] = clock]
    /\ UNCHANGED <<clock, file, swept, tally, todo, cur, mem, budget, drops, history>>

Sweep(p) ==
    /\ pc[p] = "idle"
    /\ Goto(p, "claim")
    /\ now' = [now EXCEPT ![p] = clock]
    /\ UNCHANGED <<clock, file, swept, tally, lock, draining, todo, cur, mem, budget, drops, history>>

(* claimSweep, its stat of the marker.                                     *)
ClaimStat(p) ==
    /\ pc[p] = "claim"
    /\ Goto(p, IF clock - swept < SweepInterval THEN "walk" ELSE "stamp")
    /\ UNCHANGED <<clock, file, swept, tally, lock, history>>
    /\ UNCHANGED <<draining, now, todo, cur, mem, budget, drops>>

(* claimSweep, its write of the marker; the walk lists every name.         *)
ClaimStamp(p) ==
    /\ pc[p] = "stamp"
    /\ swept' = clock
    /\ Goto(p, "walk")
    /\ todo' = [todo EXCEPT ![p] = Filed]
    /\ UNCHANGED <<clock, file, tally, lock, draining, now, cur, mem, budget, drops, history>>

(* collectDue lists a scan of at most MaxBatch names.                      *)
LoopDone(p, label) == pc[p] = label /\ todo[p] = {} /\ cur[p] = NoEvent

CollectList(p) ==
    /\ LoopDone(p, "walk") /\ draining[p]
    /\ Goto(p, "collect")
    /\ \E scan \in SUBSET Filed :
        /\ Cardinality(scan) = Smaller(MaxBatch, Cardinality(Filed))
        /\ todo' = [todo EXCEPT ![p] = scan]
    /\ UNCHANGED <<clock, file, swept, tally, lock, history>>
    /\ UNCHANGED <<draining, now, cur, mem, budget, drops>>

(* A file that is gone reads like one that is damaged: readEntry returns   *)
(* undefined for both, and for any other read error.                       *)
IsExpiredNever(entry, nowMs) == nowMs < entry.first      \* a mutant

IsExpired(entry, nowMs) == nowMs - entry.first > MaxAge

Sendable(entry, nowMs) ==
    entry # NoFile /\ entry.readable /\ ~IsExpired(entry, nowMs)

(* One name of the walk or of the scan is read and judged.                 *)
ReadEntry(p, e) ==
    /\ pc[p] \in {"walk", "collect"} /\ cur[p] = NoEvent /\ e \in todo[p]
    /\ \/ /\ ~Sendable(file[e], now[p])
          /\ cur' = [cur EXCEPT ![p] = e]
          /\ UNCHANGED <<todo, mem, spoiled, faults>>
       \/ /\ Sendable(file[e], now[p])
          /\ mem' = IF pc[p] = "collect" /\ file[e].next <= now[p]
                    THEN [mem EXCEPT ![p][e] = file[e]] ELSE mem
          /\ Done(p, e)
          /\ UNCHANGED <<cur, spoiled, faults>>
       \/ /\ Sendable(file[e], now[p])   \* a transient read error
          /\ faults < MaxFaults
          /\ faults' = faults + 1
          /\ spoiled' = spoiled \union {e}
          /\ cur' = [cur EXCEPT ![p] = e]
          /\ UNCHANGED <<todo, mem>>
    /\ UNCHANGED <<clock, file, swept, tally, lock, pc, draining, now, budget, drops>>
    /\ UNCHANGED <<accepted, refusals, born, crowded, uncounted, writes>>

(* A mutant of it: the removal is not counted as a drop.                   *)
RemoveUnsendableSilently(p) ==
    /\ pc[p] \in {"walk", "collect"} /\ cur[p] # NoEvent
    /\ Remove(cur[p])
    /\ Done(p, cur[p])
    /\ cur' = [cur EXCEPT ![p] = NoEvent]
    /\ UNCHANGED <<clock, swept, tally, lock, history>>
    /\ UNCHANGED <<pc, draining, now, mem, budget, drops>>

RemoveUnsendable(p) ==
    /\ pc[p] \in {"walk", "collect"} /\ cur[p] # NoEvent
    /\ Remove(cur[p])
    /\ Done(p, cur[p])
    /\ cur' = [cur EXCEPT ![p] = NoEvent]
    /\ CountDrop(p)
    /\ UNCHANGED <<clock, swept, tally, lock, history>>
    /\ UNCHANGED <<pc, draining, now, mem, budget>>

-----------------------------------------------------------------------------
(* sendBatch: one request, and by its answer what happens to the batch.    *)

Refused(events) ==
    refusals' = [e \in Events |->
        IF e \in events THEN Smaller(refusals[e] + 1, MaxAttempts) ELSE refusals[e]]

(* A failed request may have reached the backend, its answer lost.         *)
MayHaveArrived(events) == \E got \in {{}, events} : accepted' = accepted \union got

Sending(p) == LoopDone(p, "collect") /\ Batch(p) # {}

SendAccepted(p) ==
    /\ Sending(p)
    /\ accepted' = accepted \union Batch(p)
    /\ Goto(p, "clear")
    /\ UNCHANGED <<clock, file, swept, tally, lock, draining, now, todo, cur, mem, budget, drops>>
    /\ UNCHANGED <<refusals, born, crowded, spoiled, uncounted, writes, faults>>

(* Mutants of the next action: a refused credential costs an attempt, or   *)
(* clears the batch.                                                       *)
SendUnchargedCharges(p) ==
    /\ Sending(p)
    /\ Goto(p, "fail")
    /\ UNCHANGED <<clock, file, swept, tally, lock, draining, now, todo, cur, mem, budget, drops, history>>

SendUnchargedClears(p) ==
    /\ Sending(p)
    /\ Goto(p, "clear")
    /\ UNCHANGED <<clock, file, swept, tally, lock, draining, now, todo, cur, mem, budget, drops, history>>

(* Deferred by the pass budget, or 401/403: no entry of the batch changes. *)
SendUncharged(p) ==
    /\ Sending(p)
    /\ Goto(p, "report")
    /\ mem' = [mem EXCEPT ![p] = NoBatch]
    /\ UNCHANGED <<clock, file, swept, tally, lock, draining, now, todo, cur, budget, drops, history>>

(* Network error, timeout, 5xx, 408 or 429; or one event refused for good. *)
SendFailed(p) ==
    /\ Sending(p)
    /\ Refused(Batch(p))
    /\ MayHaveArrived(Batch(p))
    /\ Goto(p, "fail")
    /\ UNCHANGED <<clock, file, swept, tally, lock, draining, now, todo, cur, mem, budget, drops>>
    /\ UNCHANGED <<born, crowded, spoiled, uncounted, writes, faults>>

(* Another 4xx for several events: isolateBatch probes them one by one.    *)
SendRefused(p) ==
    /\ Sending(p)
    /\ Cardinality(Batch(p)) > 1
    /\ Refused(Batch(p))
    /\ Goto(p, "probe")
    /\ budget' = [budget EXCEPT ![p] = MaxIsolationSends]
    /\ UNCHANGED <<clock, file, swept, tally, lock, draining, now, todo, cur, mem, drops>>
    /\ UNCHANGED <<accepted, born, crowded, spoiled, uncounted, writes, faults>>

ClearSent(p, e) ==
    /\ pc[p] = "clear" /\ e \in Batch(p)
    /\ Remove(e)
    /\ Handled(p, e)
    /\ UNCHANGED <<clock, swept, tally, lock, history>>
    /\ UNCHANGED <<pc, draining, now, todo, cur, budget, drops>>

(* The next probe is the oldest entry of the sorted batch.                 *)
Probing(p, e) ==
    /\ pc[p] = "probe" /\ budget[p] > 0 /\ e \in Batch(p)
    /\ \A other \in Batch(p) : mem[p][e].first <= mem[p][other].first
    /\ budget' = [budget EXCEPT ![p] = @ - 1]

ProbeAccepted(p, e) ==
    /\ Probing(p, e)
    /\ accepted' = accepted \union {e}
    /\ Goto(p, "probe-clear")
    /\ cur' = [cur EXCEPT ![p] = e]
    /\ UNCHANGED <<clock, file, swept, tally, lock, draining, now, todo, mem, drops>>
    /\ UNCHANGED <<refusals, born, crowded, spoiled, uncounted, writes, faults>>

ProbeUncharged(p, e) ==
    /\ Probing(p, e)
    /\ Goto(p, "report")
    /\ mem' = [mem EXCEPT ![p] = NoBatch]
    /\ UNCHANGED <<clock, file, swept, tally, lock, draining, now, todo, cur, drops, history>>

ProbeFailed(p, e) ==
    /\ Probing(p, e)
    /\ Refused({e})
    /\ MayHaveArrived({e})
    /\ Goto(p, "probe-fail")
    /\ cur' = [cur EXCEPT ![p] = e]
    /\ UNCHANGED <<clock, file, swept, tally, lock, draining, now, todo, mem, drops>>
    /\ UNCHANGED <<born, crowded, spoiled, uncounted, writes, faults>>

ProbeClear(p) ==
    /\ pc[p] = "probe-clear"
    /\ Remove(cur[p])
    /\ Handled(p, cur[p])
    /\ cur' = [cur EXCEPT ![p] = NoEvent]
    /\ Goto(p, "probe")
    /\ UNCHANGED <<clock, swept, tally, lock, draining, now, todo, budget, drops, history>>

ChargeEarly(p, e) ==      \* a mutant: one attempt too few
    IF mem[p][e].attempts + 2 >= MaxAttempts
    THEN Remove(e) /\ CountDrop(p)
    ELSE /\ \E delay \in Backoffs :
             file' = [file EXCEPT ![e] =
                 [mem[p][e] EXCEPT !.attempts = @ + 1, !.next = now[p] + delay]]
         /\ UNCHANGED drops

(* recordFailure, from the copy in memory: dropped when this attempt was   *)
(* the last, backed off when not.                                          *)
Charge(p, e) ==
    LET attempts == mem[p][e].attempts + 1 IN
    IF attempts >= MaxAttempts
    THEN Remove(e) /\ CountDrop(p)
    ELSE /\ \E delay \in Backoffs :
             file' = [file EXCEPT ![e] =
                 [mem[p][e] EXCEPT !.attempts = attempts, !.next = now[p] + delay]]
         /\ UNCHANGED drops

RecordFailure(p, e) ==
    /\ e \in Batch(p)
    /\ \/ pc[p] = "fail"
       \/ pc[p] = "probe" /\ budget[p] = 0
       \/ pc[p] = "probe-fail" /\ e = cur[p]
    /\ Charge(p, e)
    /\ Handled(p, e)
    /\ cur' = [cur EXCEPT ![p] = NoEvent]
    /\ Goto(p, IF pc[p] = "fail" THEN "fail" ELSE "probe")
    /\ UNCHANGED <<clock, swept, tally, lock, draining, now, todo, budget, history>>

-----------------------------------------------------------------------------
(* The end of a pass: recordDropped, then, in a drain, the lock's release. *)

PassDone(p) ==
    \/ pc[p] = "evict" /\ todo[p] = {}
    \/ LoopDone(p, "walk") /\ ~draining[p]
    \/ LoopDone(p, "collect") /\ Batch(p) = {}
    \/ pc[p] \in {"clear", "fail", "probe"} /\ Batch(p) = {}
    \/ pc[p] = "report"

Report(p) ==
    /\ PassDone(p)
    /\ tally' = tally + drops[p]
    /\ drops' = [drops EXCEPT ![p] = 0]
    /\ now' = [now EXCEPT ![p] = 0]
    /\ budget' = [budget EXCEPT ![p] = 0]
    /\ Goto(p, IF draining[p] THEN "release" ELSE "idle")
    /\ UNCHANGED <<clock, file, swept, lock, draining, todo, cur, mem, history>>

Release(p) ==
    /\ pc[p] = "release"
    /\ Goto(p, "idle")
    /\ draining' = [draining EXCEPT ![p] = FALSE]
    /\ Lock!Release(p)
    /\ UNCHANGED <<clock, file, swept, tally, now, todo, cur, mem, budget, drops, history>>

(* A hook is killed: what it held in memory is gone, its lock file stays.  *)
Crash(p) ==
    /\ pc[p] # "idle"
    /\ faults < MaxFaults
    /\ faults' = faults + 1
    /\ uncounted' = uncounted + drops[p]
    /\ Goto(p, "idle")
    /\ draining' = [draining EXCEPT ![p] = FALSE]
    /\ now' = [now EXCEPT ![p] = 0]
    /\ todo' = [todo EXCEPT ![p] = {}]
    /\ cur' = [cur EXCEPT ![p] = NoEvent]
    /\ mem' = [mem EXCEPT ![p] = NoBatch]
    /\ budget' = [budget EXCEPT ![p] = 0]
    /\ drops' = [drops EXCEPT ![p] = 0]
    /\ UNCHANGED <<clock, file, swept, tally, lock>>
    /\ UNCHANGED <<accepted, refusals, born, crowded, spoiled, writes>>

(* A waiter breaks the lock: a dead process's at no cost, a living one's   *)
(* (slow, suspended, or fresh after a stale stat) as a fault.              *)
BreakLock ==
    /\ Drainers # {} => faults < MaxFaults
    /\ UNCHANGED <<clock, file, swept, tally, local>>
    /\ Lock!Break
    /\ faults' = IF Drainers # {} THEN faults + 1 ELSE faults
    /\ UNCHANGED <<accepted, refusals, born, crowded, spoiled, uncounted, writes>>

Tick ==
    /\ clock < MaxClock
    /\ clock' = clock + 1
    /\ UNCHANGED <<file, swept, tally, lock, local, history>>

(* What a process does on its own once an operation has begun.             *)
Continue(p) ==
    \/ \E e \in Events :
        \/ EnqueueExists(p, e) \/ BoundEvict(p, e) \/ ReadEntry(p, e)
        \/ ClearSent(p, e) \/ RecordFailure(p, e)
        \/ ProbeAccepted(p, e) \/ ProbeUncharged(p, e) \/ ProbeFailed(p, e)
    \/ EnqueueWrite(p) \/ BoundList(p) \/ BoundDate(p)
    \/ ClaimStat(p) \/ ClaimStamp(p) \/ CollectList(p) \/ RemoveUnsendable(p)
    \/ SendAccepted(p) \/ SendUncharged(p) \/ SendFailed(p) \/ SendRefused(p)
    \/ ProbeClear(p) \/ Report(p) \/ Release(p)

Next ==
    \/ Tick
    \/ BreakLock
    \/ \E p \in Procs :
        \/ \E events \in SUBSET Events : Enqueue(p, events)
        \/ Drain(p) \/ Sweep(p) \/ Continue(p) \/ Crash(p)

Spec == Init /\ [][Next]_vars

(* Hooks run to their end, the clock runs to its bound, hooks that may     *)
(* send keep coming, and an orphaned lock is broken (OrphanIsBroken of     *)
(* AdvisoryLock).  The backend's answers are not constrained.              *)
FairSpec ==
    /\ Spec
    /\ WF_vars(Tick)
    /\ WF_vars(BreakLock /\ Drainers = {})
    /\ \A p \in Procs : WF_vars(Continue(p)) /\ SF_vars(Drain(p))

-----------------------------------------------------------------------------
Labels == {"idle", "enqueue", "date", "evict", "claim", "stamp", "walk", "collect",
           "clear", "fail", "probe", "probe-clear", "probe-fail", "report", "release"}

TypeOK ==
    /\ clock \in Nat
    /\ file \in [Events -> Entry \union {NoFile}]
    /\ swept \in Int
    /\ present \in BOOLEAN
    /\ tally \in Nat
    /\ pc \in [Procs -> Labels]
    /\ draining \in [Procs -> BOOLEAN]
    /\ now \in [Procs -> Nat]
    /\ todo \in [Procs -> SUBSET Events]
    /\ cur \in [Procs -> Events \union {NoEvent}]
    /\ mem \in [Procs -> [Events -> Entry \union {NoFile}]]
    /\ budget \in [Procs -> Nat]
    /\ drops \in [Procs -> Nat]
    /\ accepted \subseteq Events
    /\ refusals \in [Events -> 0..MaxAttempts]
    /\ born \in [Events -> Nat \union {-1}]
    /\ crowded \subseteq Events
    /\ spoiled \subseteq Events
    /\ uncounted \in Nat
    /\ broken \in BOOLEAN
    /\ writes \in Nat
    /\ faults \in Nat

(* An event was stored, is not on disk any more, and the backend has not   *)
(* got it.                                                                 *)
Lost(e) == born[e] # -1 /\ file[e] = NoFile /\ e \notin accepted

(* The only reasons the queue may give an event up for.                    *)
AgedOut(e) == clock - born[e] > MaxAge
Exhausted(e) == refusals[e] >= MaxAttempts
HasCause(e) == AgedOut(e) \/ Exhausted(e) \/ e \in crowded \/ e \in spoiled

(* A stored event disappears only after it was delivered, or its age bound *)
(* has passed since it was first queued, or maxAttempts answers refused    *)
(* it, or it was listed in an overfull queue, or its file did not read:    *)
(* no interleaving of enqueues, drains, sweeps, crashes and broken locks   *)
(* loses one otherwise.                                                    *)
LossHasCause == \A e \in Events : Lost(e) => HasCause(e)

(* An entry on disk is never charged more attempts than the backend gave   *)
(* refusals: a deferred request, a refused credential, a lost race with    *)
(* another pass never spends one (sendBatch, queue.ts:434-441).            *)
NeverOvercharged ==
    \A e \in Filed : file[e].attempts <= refusals[e]

(* The drops that are counted and not yet in totalDropped, a pair for each. *)
Dropped == UNION {{p} \X (1..drops[p]) : p \in Procs}
Unreported == Cardinality(Dropped)

(* Every loss reaches totalDropped, except what a crash cut off before the *)
(* report: the counter may say too much, never too little (dropped and     *)
(* recordDropped, queue.ts).                                               *)
LossIsCounted ==
    Cardinality({e \in Events : Lost(e)}) <= tally + Unreported + uncounted

(* Unless the lock was broken, no two drains hold the same event: it is    *)
(* sent, charged and removed by one of them at a time.                     *)
OneDrainPerEvent ==
    ~broken => \A p, q \in Procs : p # q => Batch(p) \intersect Batch(q) = {}

(* The queue as its callers see it.                                        *)
Born == {e \in Events : born[e] # -1}
Excused == {e \in Born : HasCause(e)}

Queue == INSTANCE QueueContract
         WITH kept <- Filed, ever <- Born, taken <- accepted, excused <- Excused

(* Every step of the queue is one its contract allows, or hidden from it.  *)
RefinesContract == Queue!Spec

(* Why a removal is always justified.  An entry, on disk or in a drain's   *)
(* memory, is at least as young as its event and charged no more than the  *)
(* event was refused; a name waiting to be removed already has its reason, *)
(* and reasons do not go away.                                             *)
EntryOK(e, entry) ==
    entry # NoFile =>
        /\ born[e] # -1
        /\ born[e] <= entry.first
        /\ entry.attempts <= refusals[e]
        /\ entry.readable \/ e \in spoiled

Justified(e) == born[e] # -1 /\ (e \in accepted \/ HasCause(e))

HistoryOK == \A e \in Events : born[e] <= clock /\ EntryOK(e, file[e])

MemoryOK(p) == now[p] <= clock /\ \A e \in Events : EntryOK(e, mem[p][e])

ControlOK(p) ==
    /\ pc[p] \notin {"enqueue", "date", "evict", "walk", "collect"} => todo[p] = {}
    /\ pc[p] \notin {"enqueue", "walk", "collect", "probe-clear", "probe-fail"} => cur[p] = NoEvent

NamesOK(p) ==
    /\ pc[p] \in {"walk", "collect"} => \A e \in todo[p] : born[e] # -1
    /\ pc[p] \in {"walk", "collect"} /\ cur[p] # NoEvent => Justified(cur[p])
    /\ pc[p] \in {"date", "evict"} => todo[p] \subseteq crowded

AnswersOK(p) ==
    /\ pc[p] = "clear" => Batch(p) \subseteq accepted
    /\ pc[p] = "probe-clear" => cur[p] \in accepted
    /\ pc[p] \in {"fail", "probe", "probe-clear", "probe-fail"} =>
         \A e \in Batch(p) : mem[p][e].attempts + 1 <= refusals[e]

LoopOK(p) == MemoryOK(p) /\ ControlOK(p) /\ NamesOK(p) /\ AnswersOK(p)

QueueInv == HistoryOK /\ LossHasCause /\ \A p \in Procs : LoopOK(p)

(* Not so once the lock of a living drain is broken (README, divergences): *)
(* queue.ts:114-115, "Serialized by a lock so concurrent hook invocations  *)
(* cannot double-send".                                                    *)
NoDoubleSend ==
    \A p, q \in Procs : p # q => Batch(p) \intersect Batch(q) = {}

(* Not so (README, divergences): the comment of totalDropped,              *)
(* transport.types.ts, "Events abandoned after maxAttempts or the age      *)
(* bound: real data loss".                                                 *)
DroppedIsLost == tally <= Cardinality({e \in Events : Lost(e)})

(* Not so (README, divergences): enforceBound keeps the queue bounded      *)
(* (queue.ts:588-592) and removes nothing from one within its bound.       *)
EvictsOnlyOverflow ==
    [][\A p \in Procs, e \in Events :
         BoundEvict(p, e) /\ e \in Filed => Cardinality(Filed) > MaxEvents]_vars

(* With hooks that keep coming, no entry stays in the queue past its age:  *)
(* it is delivered, exhausted or dropped.  Only entries whose age bound    *)
(* the clock gets to pass are spoken of.                                   *)
WillExpire(e) == file[e] # NoFile /\ file[e].first + MaxAge < MaxClock

EntryLeaves == \A e \in Events : WillExpire(e) ~> ~WillExpire(e)
=============================================================================
