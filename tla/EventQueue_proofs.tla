----------------------- MODULE EventQueue_proofs -----------------------
(***************************************************************************)
(* Proofs about the offline queue and, at the end, about the lock it is    *)
(* drained under and the scan that chooses what a drain sends, for any     *)
(* processes, events and bounds.                                           *)
(***************************************************************************)
EXTENDS EventQueue, AdvisoryLock, QueueScanBound, FiniteSetTheorems, WellFoundedInduction, TLAPS

(* TypeOK in four parts, each within reach of one prover.                  *)
LockTyped == present \in BOOLEAN /\ broken \in BOOLEAN /\ draining \in [Procs -> BOOLEAN]
DiskTyped ==
    /\ file \in [Events -> Entry \union {NoFile}]
    /\ mem \in [Procs -> [Events -> Entry \union {NoFile}]]
LoopTyped ==
    /\ pc \in [Procs -> Labels]
    /\ now \in [Procs -> Nat]
    /\ todo \in [Procs -> SUBSET Events]
    /\ cur \in [Procs -> Events \union {NoEvent}]
    /\ budget \in [Procs -> Nat]
    /\ drops \in [Procs -> Nat]
CountTyped ==
    /\ clock \in Nat
    /\ swept \in Int
    /\ tally \in Nat
    /\ accepted \subseteq Events
    /\ refusals \in [Events -> 0..MaxAttempts]
    /\ born \in [Events -> Nat \union {-1}]
    /\ crowded \subseteq Events
    /\ spoiled \subseteq Events
    /\ uncounted \in Nat
    /\ writes \in Nat
    /\ faults \in Nat

LEMMA Typed == /\ TypeOK <=> LockTyped /\ DiskTyped /\ LoopTyped /\ CountTyped
               /\ TypeOK' <=> LockTyped' /\ DiskTyped' /\ LoopTyped' /\ CountTyped'
BY DEF TypeOK, LockTyped, DiskTyped, LoopTyped, CountTyped

LEMMA SizeNat == \A S \in SUBSET Events : Cardinality(S) \in Nat
BY FS_Subset, FS_CardinalityType, QueueAssumption

LEMMA FreshTyped == clock \in Nat => FreshEntry \in Entry
BY QueueAssumption DEF FreshEntry, Entry

LEMMA RefusedTyped ==
    ASSUME CountTyped, NEW events \in SUBSET Events, Refused(events)
    PROVE  /\ refusals' \in [Events -> 0..MaxAttempts]
           /\ \A e \in Events : refusals[e] <= refusals'[e]
           /\ \A e \in events : \/ refusals'[e] = refusals[e] + 1
                                \/ refusals'[e] = MaxAttempts
BY QueueAssumption DEF CountTyped, Refused, Smaller

(* What recordFailure writes is an entry again.                            *)
LEMMA ChargeTyped ==
    ASSUME DiskTyped, LoopTyped, NEW p \in Procs, NEW e \in Batch(p), Charge(p, e)
    PROVE  file' \in [Events -> Entry \union {NoFile}]
<1> DEFINE attempts == mem[p][e].attempts + 1
<1>1. e \in Events /\ mem[p][e] \in Entry
  BY DEF DiskTyped, Batch
<1>2. CASE attempts >= MaxAttempts
  BY <1>1, <1>2 DEF Charge, Remove, DiskTyped
<1>3. CASE ~(attempts >= MaxAttempts)
  <2>1. PICK delay \in Backoffs :
          file' = [file EXCEPT ![e] =
              [mem[p][e] EXCEPT !.attempts = attempts, !.next = now[p] + delay]]
    BY <1>3 DEF Charge
  <2>2. attempts \in 0..(MaxAttempts - 1) /\ now[p] + delay \in Nat
    BY <1>1, <1>3, QueueAssumption DEF Entry, LoopTyped
  <2>3. [mem[p][e] EXCEPT !.attempts = attempts, !.next = now[p] + delay] \in Entry
    BY <1>1, <2>2 DEF Entry
  <2>q. QED BY <2>1, <2>3, <1>1 DEF DiskTyped
<1>q. QED BY <1>2, <1>3

LEMMA StepTyped == TypeOK /\ [Next]_vars => TypeOK'
<1> SUFFICES ASSUME TypeOK, [Next]_vars
             PROVE  TypeOK'
  OBVIOUS
<1> USE Typed, QueueAssumption DEF Goto, Remove, Done, Handled, CountDrop, lock, local, history
<1>1. ASSUME NEW p \in Procs, NEW events \in SUBSET Events, Enqueue(p, events)
      PROVE  TypeOK'
  <2>1. LockTyped'
    BY <1>1 DEF Enqueue, LockTyped
  <2>2. DiskTyped'
    BY <1>1 DEF Enqueue, DiskTyped
  <2>3. LoopTyped'
    BY <1>1 DEF Enqueue, LoopTyped, Labels
  <2>4. CountTyped'
    BY <1>1, SizeNat DEF Enqueue, CountTyped
  <2>q. QED BY <2>1, <2>2, <2>3, <2>4
<1>2. ASSUME NEW p \in Procs, NEW e \in Events, EnqueueExists(p, e)
      PROVE  TypeOK'
  <2>1. LockTyped'
    BY <1>2 DEF EnqueueExists, LockTyped
  <2>2. DiskTyped'
    BY <1>2 DEF EnqueueExists, DiskTyped
  <2>3. LoopTyped'
    BY <1>2 DEF EnqueueExists, LoopTyped, Labels
  <2>4. CountTyped'
    BY <1>2 DEF EnqueueExists, CountTyped
  <2>q. QED BY <2>1, <2>2, <2>3, <2>4
<1>3. ASSUME NEW p \in Procs, EnqueueWrite(p)
      PROVE  TypeOK'
  <2>1. LockTyped'
    BY <1>3 DEF EnqueueWrite, LockTyped
  <2>2. DiskTyped'
    BY <1>3, FreshTyped DEF EnqueueWrite, DiskTyped, LoopTyped, CountTyped
  <2>3. LoopTyped'
    BY <1>3 DEF EnqueueWrite, LoopTyped, Labels
  <2>4. CountTyped'
    BY <1>3 DEF EnqueueWrite, CountTyped
  <2>q. QED BY <2>1, <2>2, <2>3, <2>4
<1>4. ASSUME NEW p \in Procs, BoundList(p)
      PROVE  TypeOK'
  <2>1. LockTyped'
    BY <1>4 DEF BoundList, LockTyped
  <2>2. DiskTyped'
    BY <1>4 DEF BoundList, DiskTyped
  <2>3. LoopTyped'
    BY <1>4, SizeNat DEF BoundList, LoopTyped, Labels, Filed, Excess
  <2>4. CountTyped'
    BY <1>4 DEF BoundList, CountTyped, Filed
  <2>q. QED BY <2>1, <2>2, <2>3, <2>4
<1>5. ASSUME NEW p \in Procs, BoundDate(p)
      PROVE  TypeOK'
  <2>1. LockTyped'
    BY <1>5 DEF BoundDate, LockTyped
  <2>2. DiskTyped'
    BY <1>5 DEF BoundDate, DiskTyped
  <2>3. LoopTyped'
    BY <1>5 DEF BoundDate, LoopTyped, Labels, Filed, Oldest
  <2>4. CountTyped'
    BY <1>5 DEF BoundDate, CountTyped
  <2>q. QED BY <2>1, <2>2, <2>3, <2>4
<1>6. ASSUME NEW p \in Procs, NEW e \in Events, BoundEvict(p, e)
      PROVE  TypeOK'
  <2>1. LockTyped'
    BY <1>6 DEF BoundEvict, LockTyped
  <2>2. DiskTyped'
    BY <1>6 DEF BoundEvict, DiskTyped
  <2>3. LoopTyped'
    BY <1>6 DEF BoundEvict, LoopTyped, Labels
  <2>4. CountTyped'
    BY <1>6 DEF BoundEvict, CountTyped
  <2>q. QED BY <2>1, <2>2, <2>3, <2>4
<1>7. ASSUME NEW p \in Procs, Drain(p)
      PROVE  TypeOK'
  <2>1. LockTyped'
    BY <1>7 DEF Drain, LockTyped, Lock!Acquire
  <2>2. DiskTyped'
    BY <1>7 DEF Drain, DiskTyped
  <2>3. LoopTyped'
    BY <1>7 DEF Drain, LoopTyped, Labels, CountTyped
  <2>4. CountTyped'
    BY <1>7 DEF Drain, CountTyped
  <2>q. QED BY <2>1, <2>2, <2>3, <2>4
<1>8. ASSUME NEW p \in Procs, Sweep(p)
      PROVE  TypeOK'
  <2>1. LockTyped'
    BY <1>8 DEF Sweep, LockTyped
  <2>2. DiskTyped'
    BY <1>8 DEF Sweep, DiskTyped
  <2>3. LoopTyped'
    BY <1>8 DEF Sweep, LoopTyped, Labels, CountTyped
  <2>4. CountTyped'
    BY <1>8 DEF Sweep, CountTyped
  <2>q. QED BY <2>1, <2>2, <2>3, <2>4
<1>9. ASSUME NEW p \in Procs, ClaimStat(p)
      PROVE  TypeOK'
  <2>1. LockTyped'
    BY <1>9 DEF ClaimStat, LockTyped
  <2>2. DiskTyped'
    BY <1>9 DEF ClaimStat, DiskTyped
  <2>3. LoopTyped'
    BY <1>9 DEF ClaimStat, LoopTyped, Labels
  <2>4. CountTyped'
    BY <1>9 DEF ClaimStat, CountTyped
  <2>q. QED BY <2>1, <2>2, <2>3, <2>4
<1>10. ASSUME NEW p \in Procs, ClaimStamp(p)
      PROVE  TypeOK'
  <2>1. LockTyped'
    BY <1>10 DEF ClaimStamp, LockTyped
  <2>2. DiskTyped'
    BY <1>10 DEF ClaimStamp, DiskTyped
  <2>3. LoopTyped'
    BY <1>10 DEF ClaimStamp, LoopTyped, Labels, Filed
  <2>4. CountTyped'
    BY <1>10 DEF ClaimStamp, CountTyped
  <2>q. QED BY <2>1, <2>2, <2>3, <2>4
<1>11. ASSUME NEW p \in Procs, CollectList(p)
      PROVE  TypeOK'
  <2>1. LockTyped'
    BY <1>11 DEF CollectList, LockTyped
  <2>2. DiskTyped'
    BY <1>11 DEF CollectList, DiskTyped
  <2>3. LoopTyped'
    BY <1>11 DEF CollectList, LoopTyped, Labels, Filed
  <2>4. CountTyped'
    BY <1>11 DEF CollectList, CountTyped
  <2>q. QED BY <2>1, <2>2, <2>3, <2>4
<1>12. ASSUME NEW p \in Procs, NEW e \in Events, ReadEntry(p, e)
      PROVE  TypeOK'
  <2>1. LockTyped'
    BY <1>12 DEF ReadEntry, LockTyped
  <2>2. DiskTyped'
    <3>1. file' = file
      BY <1>12 DEF ReadEntry
    <3>2. mem' = mem \/ mem' = [mem EXCEPT ![p][e] = file[e]]
      BY <1>12 DEF ReadEntry
    <3>q. QED BY <3>1, <3>2 DEF DiskTyped
  <2>3. LoopTyped'
    BY <1>12 DEF ReadEntry, LoopTyped, Labels
  <2>4. CountTyped'
    BY <1>12 DEF ReadEntry, CountTyped
  <2>q. QED BY <2>1, <2>2, <2>3, <2>4
<1>13. ASSUME NEW p \in Procs, RemoveUnsendable(p)
      PROVE  TypeOK'
  <2>1. LockTyped'
    BY <1>13 DEF RemoveUnsendable, LockTyped
  <2>2. DiskTyped'
    BY <1>13 DEF RemoveUnsendable, DiskTyped
  <2>3. LoopTyped'
    BY <1>13 DEF RemoveUnsendable, LoopTyped, Labels
  <2>4. CountTyped'
    BY <1>13 DEF RemoveUnsendable, CountTyped
  <2>q. QED BY <2>1, <2>2, <2>3, <2>4
<1>14. ASSUME NEW p \in Procs, SendAccepted(p)
      PROVE  TypeOK'
  <2>1. LockTyped'
    BY <1>14 DEF SendAccepted, LockTyped
  <2>2. DiskTyped'
    BY <1>14 DEF SendAccepted, DiskTyped
  <2>3. LoopTyped'
    BY <1>14 DEF SendAccepted, LoopTyped, Labels
  <2>4. CountTyped'
    BY <1>14 DEF SendAccepted, CountTyped, Batch
  <2>q. QED BY <2>1, <2>2, <2>3, <2>4
<1>15. ASSUME NEW p \in Procs, SendUncharged(p)
      PROVE  TypeOK'
  <2>1. LockTyped'
    BY <1>15 DEF SendUncharged, LockTyped
  <2>2. DiskTyped'
    BY <1>15 DEF SendUncharged, DiskTyped, NoBatch
  <2>3. LoopTyped'
    BY <1>15 DEF SendUncharged, LoopTyped, Labels
  <2>4. CountTyped'
    BY <1>15 DEF SendUncharged, CountTyped
  <2>q. QED BY <2>1, <2>2, <2>3, <2>4
<1>16. ASSUME NEW p \in Procs, SendFailed(p)
      PROVE  TypeOK'
  <2>1. LockTyped'
    BY <1>16 DEF SendFailed, LockTyped
  <2>2. DiskTyped'
    BY <1>16 DEF SendFailed, DiskTyped
  <2>3. LoopTyped'
    BY <1>16 DEF SendFailed, LoopTyped, Labels
  <2>4. CountTyped'
    BY <1>16, RefusedTyped DEF SendFailed, CountTyped, MayHaveArrived, Batch
  <2>q. QED BY <2>1, <2>2, <2>3, <2>4
<1>17. ASSUME NEW p \in Procs, SendRefused(p)
      PROVE  TypeOK'
  <2>1. LockTyped'
    BY <1>17 DEF SendRefused, LockTyped
  <2>2. DiskTyped'
    BY <1>17 DEF SendRefused, DiskTyped
  <2>3. LoopTyped'
    BY <1>17 DEF SendRefused, LoopTyped, Labels
  <2>4. CountTyped'
    BY <1>17, RefusedTyped DEF SendRefused, CountTyped, Batch
  <2>q. QED BY <2>1, <2>2, <2>3, <2>4
<1>18. ASSUME NEW p \in Procs, NEW e \in Events, ClearSent(p, e)
      PROVE  TypeOK'
  <2>1. LockTyped'
    BY <1>18 DEF ClearSent, LockTyped
  <2>2. DiskTyped'
    BY <1>18 DEF ClearSent, DiskTyped
  <2>3. LoopTyped'
    BY <1>18 DEF ClearSent, LoopTyped, Labels
  <2>4. CountTyped'
    BY <1>18 DEF ClearSent, CountTyped
  <2>q. QED BY <2>1, <2>2, <2>3, <2>4
<1>19. ASSUME NEW p \in Procs, NEW e \in Events, ProbeAccepted(p, e)
      PROVE  TypeOK'
  <2>1. LockTyped'
    BY <1>19 DEF ProbeAccepted, LockTyped
  <2>2. DiskTyped'
    BY <1>19 DEF ProbeAccepted, DiskTyped
  <2>3. LoopTyped'
    BY <1>19 DEF ProbeAccepted, LoopTyped, Labels, Probing
  <2>4. CountTyped'
    BY <1>19 DEF ProbeAccepted, CountTyped
  <2>q. QED BY <2>1, <2>2, <2>3, <2>4
<1>20. ASSUME NEW p \in Procs, NEW e \in Events, ProbeUncharged(p, e)
      PROVE  TypeOK'
  <2>1. LockTyped'
    BY <1>20 DEF ProbeUncharged, LockTyped
  <2>2. DiskTyped'
    BY <1>20 DEF ProbeUncharged, DiskTyped, NoBatch
  <2>3. LoopTyped'
    BY <1>20 DEF ProbeUncharged, LoopTyped, Labels, Probing
  <2>4. CountTyped'
    BY <1>20 DEF ProbeUncharged, CountTyped
  <2>q. QED BY <2>1, <2>2, <2>3, <2>4
<1>21. ASSUME NEW p \in Procs, NEW e \in Events, ProbeFailed(p, e)
      PROVE  TypeOK'
  <2>1. LockTyped'
    BY <1>21 DEF ProbeFailed, LockTyped
  <2>2. DiskTyped'
    BY <1>21 DEF ProbeFailed, DiskTyped
  <2>3. LoopTyped'
    BY <1>21 DEF ProbeFailed, LoopTyped, Labels, Probing
  <2>4. CountTyped'
    BY <1>21, RefusedTyped DEF ProbeFailed, CountTyped, MayHaveArrived, Batch
  <2>q. QED BY <2>1, <2>2, <2>3, <2>4
<1>22. ASSUME NEW p \in Procs, ProbeClear(p)
      PROVE  TypeOK'
  <2>1. LockTyped'
    BY <1>22 DEF ProbeClear, LockTyped
  <2>2. DiskTyped'
    BY <1>22 DEF ProbeClear, DiskTyped
  <2>3. LoopTyped'
    BY <1>22 DEF ProbeClear, LoopTyped, Labels
  <2>4. CountTyped'
    BY <1>22 DEF ProbeClear, CountTyped
  <2>q. QED BY <2>1, <2>2, <2>3, <2>4
<1>23. ASSUME NEW p \in Procs, NEW e \in Events, RecordFailure(p, e)
      PROVE  TypeOK'
  <2>1. LockTyped'
    BY <1>23 DEF RecordFailure, LockTyped
  <2>2. DiskTyped'
    <3>1. file' \in [Events -> Entry \union {NoFile}]
      BY <1>23, ChargeTyped DEF RecordFailure
    <3>2. mem' = [mem EXCEPT ![p][e] = NoFile]
      BY <1>23 DEF RecordFailure
    <3>q. QED BY <3>1, <3>2 DEF DiskTyped
  <2>3. LoopTyped'
    <3>1. drops' = drops \/ drops' = [drops EXCEPT ![p] = @ + 1]
      BY <1>23 DEF RecordFailure, Charge
    <3>2. pc' \in [Procs -> Labels]
      BY <1>23 DEF RecordFailure, LoopTyped, Labels
    <3>q. QED BY <1>23, <3>1, <3>2 DEF RecordFailure, LoopTyped
  <2>4. CountTyped'
    BY <1>23 DEF RecordFailure, CountTyped
  <2>q. QED BY <2>1, <2>2, <2>3, <2>4
<1>24. ASSUME NEW p \in Procs, Report(p)
      PROVE  TypeOK'
  <2>1. LockTyped'
    BY <1>24 DEF Report, LockTyped
  <2>2. DiskTyped'
    BY <1>24 DEF Report, DiskTyped
  <2>3. LoopTyped'
    BY <1>24 DEF Report, LoopTyped, Labels
  <2>4. CountTyped'
    BY <1>24 DEF Report, CountTyped, LoopTyped
  <2>q. QED BY <2>1, <2>2, <2>3, <2>4
<1>25. ASSUME NEW p \in Procs, Release(p)
      PROVE  TypeOK'
  <2>1. LockTyped'
    BY <1>25 DEF Release, LockTyped, Lock!Release
  <2>2. DiskTyped'
    BY <1>25 DEF Release, DiskTyped
  <2>3. LoopTyped'
    BY <1>25 DEF Release, LoopTyped, Labels
  <2>4. CountTyped'
    BY <1>25 DEF Release, CountTyped
  <2>q. QED BY <2>1, <2>2, <2>3, <2>4
<1>26. ASSUME NEW p \in Procs, Crash(p)
      PROVE  TypeOK'
  <2>1. LockTyped'
    BY <1>26 DEF Crash, LockTyped
  <2>2. DiskTyped'
    BY <1>26 DEF Crash, DiskTyped, NoBatch
  <2>3. LoopTyped'
    BY <1>26 DEF Crash, LoopTyped, Labels
  <2>4. CountTyped'
    BY <1>26 DEF Crash, CountTyped, LoopTyped
  <2>q. QED BY <2>1, <2>2, <2>3, <2>4
<1>27. CASE Tick
  BY <1>27 DEF Tick, LockTyped, DiskTyped, LoopTyped, CountTyped
<1>28. CASE BreakLock
  <2>1. LockTyped'
    BY <1>28 DEF BreakLock, LockTyped, Lock!Break
  <2>2. DiskTyped' /\ LoopTyped'
    BY <1>28 DEF BreakLock, DiskTyped, LoopTyped
  <2>3. CountTyped'
    BY <1>28 DEF BreakLock, CountTyped
  <2>q. QED BY <2>1, <2>2, <2>3
<1>29. CASE UNCHANGED vars
  BY <1>29 DEF vars, LockTyped, DiskTyped, LoopTyped, CountTyped
<1>q. QED
  BY <1>1, <1>2, <1>3, <1>4, <1>5, <1>6, <1>7, <1>8, <1>9, <1>10, <1>11,
       <1>12, <1>13, <1>14, <1>15, <1>16, <1>17, <1>18, <1>19, <1>20, <1>21,
        <1>22, <1>23, <1>24, <1>25, <1>26, <1>27, <1>28, <1>29
  DEF Next, Continue

LEMMA InitTyped == Init => TypeOK
<1> SUFFICES ASSUME Init PROVE TypeOK
  OBVIOUS
<1>1. LockTyped
  BY DEF Init, LockTyped
<1>2. DiskTyped
  <2>1. LegacyEntry \in Entry
    BY QueueAssumption DEF LegacyEntry, Entry
  <2>q. QED BY <2>1 DEF Init, DiskTyped, NoBatch
<1>3. LoopTyped
  BY DEF Init, LoopTyped, Labels
<1>4. CountTyped
  BY QueueAssumption DEF Init, CountTyped, Filed
<1>q. QED BY <1>1, <1>2, <1>3, <1>4, Typed

(* Every variable of the queue, and of the processes at work on it, keeps  *)
(* its type: an entry on disk never reaches maxAttempts.                   *)
THEOREM TypeCorrect == Spec => []TypeOK
BY InitTyped, StepTyped, PTL DEF Spec

-----------------------------------------------------------------------------
(* History only grows: what justified a removal once justifies it for good.*)
Grows ==
    /\ clock <= clock'
    /\ accepted \subseteq accepted' /\ crowded \subseteq crowded' /\ spoiled \subseteq spoiled'
    /\ \A e \in Events : refusals[e] <= refusals'[e]
    /\ \A e \in Events : born[e] # -1 => born'[e] = born[e]

LEMMA HistoryGrows == TypeOK /\ [Next]_vars => Grows
<1> SUFFICES ASSUME TypeOK, [Next]_vars
             PROVE  Grows
  OBVIOUS
<1> USE Typed DEF CountTyped, Grows, history
<1>1. ASSUME NEW p \in Procs, NEW events \in SUBSET Events, Enqueue(p, events)
      PROVE  Grows
  BY <1>1 DEF Enqueue
<1>2. ASSUME NEW p \in Procs, NEW e \in Events, EnqueueExists(p, e)
      PROVE  Grows
  BY <1>2 DEF EnqueueExists
<1>3. ASSUME NEW p \in Procs, EnqueueWrite(p)
      PROVE  Grows
  BY <1>3 DEF EnqueueWrite
<1>4. ASSUME NEW p \in Procs, BoundList(p)
      PROVE  Grows
  BY <1>4 DEF BoundList
<1>5. ASSUME NEW p \in Procs, BoundDate(p)
      PROVE  Grows
  BY <1>5 DEF BoundDate
<1>6. ASSUME NEW p \in Procs, NEW e \in Events, BoundEvict(p, e)
      PROVE  Grows
  BY <1>6 DEF BoundEvict
<1>7. ASSUME NEW p \in Procs, Drain(p)
      PROVE  Grows
  BY <1>7 DEF Drain
<1>8. ASSUME NEW p \in Procs, Sweep(p)
      PROVE  Grows
  BY <1>8 DEF Sweep
<1>9. ASSUME NEW p \in Procs, ClaimStat(p)
      PROVE  Grows
  BY <1>9 DEF ClaimStat
<1>10. ASSUME NEW p \in Procs, ClaimStamp(p)
      PROVE  Grows
  BY <1>10 DEF ClaimStamp
<1>11. ASSUME NEW p \in Procs, CollectList(p)
      PROVE  Grows
  BY <1>11 DEF CollectList
<1>12. ASSUME NEW p \in Procs, NEW e \in Events, ReadEntry(p, e)
      PROVE  Grows
  BY <1>12 DEF ReadEntry
<1>13. ASSUME NEW p \in Procs, RemoveUnsendable(p)
      PROVE  Grows
  BY <1>13 DEF RemoveUnsendable
<1>14. ASSUME NEW p \in Procs, SendAccepted(p)
      PROVE  Grows
  BY <1>14 DEF SendAccepted
<1>15. ASSUME NEW p \in Procs, SendUncharged(p)
      PROVE  Grows
  BY <1>15 DEF SendUncharged
<1>16. ASSUME NEW p \in Procs, SendFailed(p)
      PROVE  Grows
  BY <1>16, RefusedTyped DEF SendFailed, MayHaveArrived, Batch
<1>17. ASSUME NEW p \in Procs, SendRefused(p)
      PROVE  Grows
  BY <1>17, RefusedTyped DEF SendRefused, Batch
<1>18. ASSUME NEW p \in Procs, NEW e \in Events, ClearSent(p, e)
      PROVE  Grows
  BY <1>18 DEF ClearSent
<1>19. ASSUME NEW p \in Procs, NEW e \in Events, ProbeAccepted(p, e)
      PROVE  Grows
  BY <1>19 DEF ProbeAccepted
<1>20. ASSUME NEW p \in Procs, NEW e \in Events, ProbeUncharged(p, e)
      PROVE  Grows
  BY <1>20 DEF ProbeUncharged
<1>21. ASSUME NEW p \in Procs, NEW e \in Events, ProbeFailed(p, e)
      PROVE  Grows
  BY <1>21, RefusedTyped DEF ProbeFailed, MayHaveArrived, Batch
<1>22. ASSUME NEW p \in Procs, ProbeClear(p)
      PROVE  Grows
  BY <1>22 DEF ProbeClear
<1>23. ASSUME NEW p \in Procs, NEW e \in Events, RecordFailure(p, e)
      PROVE  Grows
  BY <1>23 DEF RecordFailure
<1>24. ASSUME NEW p \in Procs, Report(p)
      PROVE  Grows
  BY <1>24 DEF Report
<1>25. ASSUME NEW p \in Procs, Release(p)
      PROVE  Grows
  BY <1>25 DEF Release
<1>26. ASSUME NEW p \in Procs, Crash(p)
      PROVE  Grows
  BY <1>26 DEF Crash
<1>27. CASE Tick
  BY <1>27 DEF Tick
<1>28. CASE BreakLock
  BY <1>28 DEF BreakLock
<1>29. CASE UNCHANGED vars
  BY <1>29 DEF vars
<1>q. QED
  BY <1>1, <1>2, <1>3, <1>4, <1>5, <1>6, <1>7, <1>8, <1>9, <1>10, <1>11,
       <1>12, <1>13, <1>14, <1>15, <1>16, <1>17, <1>18, <1>19, <1>20, <1>21,
        <1>22, <1>23, <1>24, <1>25, <1>26, <1>27, <1>28, <1>29
  DEF Next, Continue

LEMMA CauseStays ==
    ASSUME TypeOK, TypeOK', Grows, NEW e \in Events, born[e] # -1, HasCause(e)
    PROVE  HasCause(e)'
BY QueueAssumption DEF TypeOK, Grows, HasCause, AgedOut, Exhausted

LEMMA JustifiedStays ==
    ASSUME TypeOK, TypeOK', Grows, NEW e \in Events, Justified(e)
    PROVE  Justified(e)'
BY CauseStays DEF Justified, Grows, TypeOK

LEMMA EntryStays ==
    ASSUME TypeOK, TypeOK', Grows, NEW e \in Events, NEW entry \in Entry \union {NoFile},
           EntryOK(e, entry)
    PROVE  EntryOK(e, entry)'
BY DEF TypeOK, Grows, EntryOK, Entry

(* A process whose own variables a step leaves alone stays as it was.      *)
LEMMA LoopStays ==
    ASSUME TypeOK, TypeOK', Grows, NEW p \in Procs, LoopOK(p),
           pc'[p] = pc[p], now'[p] = now[p], todo'[p] = todo[p], cur'[p] = cur[p],
           mem'[p] = mem[p]
    PROVE  LoopOK(p)'
<1>1. MemoryOK(p)'
  BY EntryStays DEF LoopOK, MemoryOK, TypeOK, Grows, EntryOK
<1>2. ControlOK(p)'
  BY DEF LoopOK, ControlOK
<1>3. NamesOK(p)'
  BY JustifiedStays DEF LoopOK, NamesOK, TypeOK, Grows, Justified
<1>4. AnswersOK(p)'
  <2>1. Batch(p)' = Batch(p)
    BY DEF Batch
  <2>q. QED BY <2>1 DEF LoopOK, AnswersOK, TypeOK, Grows, Batch, Entry
<1>q. QED BY <1>1, <1>2, <1>3, <1>4 DEF LoopOK

(* A step that leaves the directory alone.                                 *)
LEMMA DiskStays ==
    ASSUME TypeOK, TypeOK', Grows, HistoryOK, LossHasCause, file' = file, born' = born
    PROVE  HistoryOK' /\ LossHasCause'
<1>1. \A e \in Events : EntryOK(e, file[e])'
  BY EntryStays DEF HistoryOK, TypeOK, EntryOK
<1>2. \A e \in Events : Lost(e)' => HasCause(e)'
  BY CauseStays DEF LossHasCause, Lost, Grows
<1>3. \A d \in Events : born'[d] <= clock'
  <2>1. \A d \in Events : born[d] <= clock
    BY Zenon DEF HistoryOK
  <2>q. QED BY <2>1, Typed DEF CountTyped, Grows
<1>q. QED BY <1>1, <1>2, <1>3, Zenon DEF HistoryOK, LossHasCause

(* A step that removes the file of an event it may remove.                 *)
LEMMA RemovalIsSafe ==
    ASSUME TypeOK, TypeOK', Grows, HistoryOK, LossHasCause, born' = born,
           NEW e \in Events, Remove(e), born[e] # -1 => Justified(e)'
    PROVE  HistoryOK' /\ LossHasCause'
<1>1. \A d \in Events : EntryOK(d, file[d])'
  BY EntryStays DEF HistoryOK, TypeOK, EntryOK, Remove
<1>2. \A d \in Events : Lost(d)' => HasCause(d)'
  <2> SUFFICES ASSUME NEW d \in Events, Lost(d)'
               PROVE  HasCause(d)'
    OBVIOUS
  <2>1. CASE d = e
    BY <2>1 DEF Lost, Justified
  <2>2. CASE d # e
    BY <2>2, CauseStays DEF Lost, LossHasCause, Remove, TypeOK, Grows
  <2>q. QED BY <2>1, <2>2
<1>3. \A d \in Events : born'[d] <= clock'
  <2>1. \A d \in Events : born[d] <= clock
    BY Zenon DEF HistoryOK
  <2>q. QED BY <2>1, Typed DEF CountTyped, Grows
<1>q. QED BY <1>1, <1>2, <1>3, Zenon DEF HistoryOK, LossHasCause

(* A step that writes the file of an event.                                *)
LEMMA WriteIsSafe ==
    ASSUME TypeOK, TypeOK', Grows, HistoryOK, LossHasCause,
           NEW e \in Events, NEW entry \in Entry,
           file' = [file EXCEPT ![e] = entry], EntryOK(e, entry)',
           \A d \in Events : d # e => born'[d] = born[d],
           born'[e] <= clock'
    PROVE  HistoryOK' /\ LossHasCause'
<1> USE NoFileAssumption
<1>1. \A d \in Events : EntryOK(d, file[d])'
  <2> SUFFICES ASSUME NEW d \in Events
               PROVE  EntryOK(d, file[d])'
    OBVIOUS
  <2>1. CASE d = e
    BY <2>1 DEF TypeOK, EntryOK
  <2>2. CASE d # e
    BY <2>2, EntryStays DEF HistoryOK, TypeOK, EntryOK
  <2>q. QED BY <2>1, <2>2
<1>2. \A d \in Events : Lost(d)' => HasCause(d)'
  BY CauseStays DEF Lost, LossHasCause, TypeOK, Grows
<1>3. \A d \in Events : born'[d] <= clock'
  <2>1. \A d \in Events : born[d] <= clock
    BY Zenon DEF HistoryOK
  <2>q. QED BY <2>1, Typed DEF CountTyped, Grows
<1>q. QED BY <1>1, <1>2, <1>3, Zenon DEF HistoryOK, LossHasCause

(* What a process holds in memory stays right, and so does less of it.     *)
LEMMA MemoryStays ==
    ASSUME TypeOK, TypeOK', Grows, NEW p \in Procs, LoopOK(p), now'[p] <= clock',
           \A e \in Events : mem'[p][e] \in {mem[p][e], NoFile}
    PROVE  MemoryOK(p)'
<1>1. \A e \in Events : EntryOK(e, mem[p][e])'
  <2> SUFFICES ASSUME NEW e \in Events
               PROVE  EntryOK(e, mem[p][e])'
    OBVIOUS
  <2>1. CASE mem'[p][e] = mem[p][e]
    <3>1. EntryOK(e, mem[p][e]) /\ mem[p][e] \in Entry \union {NoFile}
      BY DEF LoopOK, MemoryOK, TypeOK
    <3>q. QED BY <2>1, <3>1, EntryStays DEF EntryOK
  <2>2. CASE mem'[p][e] = NoFile
    BY <2>2 DEF EntryOK
  <2>q. QED BY <2>1, <2>2
<1>q. QED BY <1>1 DEF MemoryOK

(* A step of p leaves the loops of the others as they were.                *)
OnlyMoves(p) ==
    \A q \in Procs \ {p} :
        /\ pc'[q] = pc[q] /\ now'[q] = now[q] /\ todo'[q] = todo[q]
        /\ cur'[q] = cur[q] /\ mem'[q] = mem[q]

LEMMA OneLoopMoves ==
    ASSUME TypeOK, TypeOK', Grows, QueueInv, NEW p \in Procs, OnlyMoves(p),
           LoopOK(p)', HistoryOK', LossHasCause'
    PROVE  QueueInv'
<1>1. \A q \in Procs \ {p} : LoopOK(q)'
  BY LoopStays DEF OnlyMoves, QueueInv
<1>q. QED BY <1>1 DEF QueueInv

LEMMA FiledBorn ==
    ASSUME TypeOK, HistoryOK, NEW e \in Filed
    PROVE  e \in Events /\ born[e] # -1
BY DEF HistoryOK, EntryOK, Filed

(* An entry found unsendable may go: it was delivered, or it is lost       *)
(* already, or its age or its damage justifies its loss.                   *)
LEMMA UnsendableJustified ==
    ASSUME TypeOK, HistoryOK, LossHasCause, NEW e \in Events, born[e] # -1,
           NEW t \in Nat, t <= clock, ~Sendable(file[e], t)
    PROVE  Justified(e)
<1>1. CASE file[e] = NoFile
  BY <1>1 DEF Justified, LossHasCause, Lost
<1>2. CASE file[e] # NoFile /\ ~file[e].readable
  BY <1>2 DEF Justified, HasCause, HistoryOK, EntryOK
<1>3. CASE file[e] # NoFile /\ IsExpired(file[e], t)
  <2>1. file[e].first \in Nat /\ born[e] \in Nat /\ clock \in Nat
    BY <1>3 DEF TypeOK, Entry
  <2>2. born[e] <= file[e].first
    BY <1>3 DEF HistoryOK, EntryOK
  <2>3. AgedOut(e)
    BY <1>3, <2>1, <2>2, QueueAssumption DEF AgedOut, IsExpired
  <2>q. QED BY <2>3 DEF Justified, HasCause
<1>q. QED BY <1>1, <1>2, <1>3 DEF Sendable

LEMMA LastRefusalJustifies ==
    ASSUME TypeOK, NEW e \in Events, NEW entry \in Entry, EntryOK(e, entry),
           entry # NoFile, entry.attempts + 1 >= MaxAttempts, entry.attempts + 1 <= refusals[e]
    PROVE  Justified(e)
BY QueueAssumption DEF Justified, HasCause, Exhausted, EntryOK, TypeOK, Entry

(* What a refusal will charge the entries of a batch it has charged to the *)
(* event already.                                                          *)
LEMMA RefusalCharges ==
    ASSUME TypeOK, TypeOK', NEW p \in Procs, LoopOK(p), NEW events \in SUBSET Batch(p),
           Refused(events)
    PROVE  \A e \in events : mem[p][e].attempts + 1 <= refusals'[e]
<1> SUFFICES ASSUME NEW e \in events
             PROVE  mem[p][e].attempts + 1 <= refusals'[e]
  OBVIOUS
<1>1. e \in Events /\ mem[p][e] # NoFile /\ mem[p][e] \in Entry
  BY DEF Batch, TypeOK
<1>2. mem[p][e].attempts <= refusals[e]
  BY <1>1 DEF LoopOK, MemoryOK, EntryOK
<1>3. mem[p][e].attempts \in 0..(MaxAttempts - 1) /\ refusals[e] \in 0..MaxAttempts
  BY <1>1 DEF Entry, TypeOK
<1>4. events \in SUBSET Events
  BY DEF Batch
<1>5. refusals'[e] = refusals[e] + 1 \/ refusals'[e] = MaxAttempts
  BY <1>4, RefusedTyped, Typed
<1>q. QED BY <1>2, <1>3, <1>5, QueueAssumption

LEMMA BatchShrinks ==
    ASSUME TypeOK, TypeOK', Grows, NEW p \in Procs,
           \A e \in Events : mem'[p][e] \in {mem[p][e], NoFile}
    PROVE  /\ Batch(p)' \subseteq Batch(p)
           /\ \A e \in Batch(p)' :
                 mem[p][e].attempts + 1 <= refusals[e]
                   => mem'[p][e].attempts + 1 <= refusals'[e]
<1>1. Batch(p)' \subseteq Batch(p)
  BY DEF Batch
<1>2. ASSUME NEW e \in Batch(p)', mem[p][e].attempts + 1 <= refusals[e]
      PROVE  mem'[p][e].attempts + 1 <= refusals'[e]
  <2>1. e \in Events /\ mem'[p][e] = mem[p][e] /\ mem[p][e] \in Entry
    BY DEF Batch, TypeOK
  <2>2. mem[p][e].attempts \in Nat /\ refusals[e] \in Nat /\ refusals'[e] \in Nat
    BY <2>1, QueueAssumption DEF Entry, TypeOK
  <2>q. QED BY <1>2, <2>1, <2>2 DEF Grows
<1>q. QED BY <1>1, <1>2

LEMMA QueueInvStep ==
    ASSUME TypeOK, TypeOK', Grows, QueueInv, [Next]_vars
    PROVE  QueueInv'
<1> USE DEF Goto, Done, Handled, CountDrop, local, history
<1>hist. HistoryOK /\ LossHasCause /\ \A p \in Procs : LoopOK(p)
  BY DEF QueueInv
<1>1. ASSUME NEW p \in Procs, NEW events \in SUBSET Events, Enqueue(p, events)
      PROVE  QueueInv'
  <2>1. LoopOK(p)
    BY <1>hist
  <2>2. OnlyMoves(p)
    BY <1>1, Typed DEF OnlyMoves, Enqueue, LoopTyped, DiskTyped
  <2>3. MemoryOK(p)'
    <3>1. now'[p] <= clock'
      BY <1>1, <2>1, Typed DEF Enqueue, LoopOK, MemoryOK, LoopTyped, CountTyped
    <3>2. \A d \in Events : mem'[p][d] \in {mem[p][d], NoFile}
      BY <1>1, Typed DEF Enqueue, DiskTyped, LoopTyped
    <3>q. QED BY <2>1, <3>1, <3>2, MemoryStays
  <2>4. ControlOK(p)'
    BY <1>1, <2>1, Typed DEF Enqueue, LoopTyped, LoopOK, ControlOK
  <2>5. NamesOK(p)'
    BY <1>1, <2>1, Typed DEF Enqueue, LoopTyped, LoopOK, ControlOK, NamesOK
  <2>6. AnswersOK(p)'
    BY <1>1, <2>1, Typed DEF Enqueue, LoopTyped, LoopOK, ControlOK, AnswersOK
  <2>7. HistoryOK' /\ LossHasCause'
    <3>1. file' = file /\ born' = born
      BY <1>1 DEF Enqueue
    <3>q. QED BY <1>hist, <3>1, DiskStays
  <2>q. QED BY <2>2, <2>3, <2>4, <2>5, <2>6, <2>7, OneLoopMoves DEF LoopOK
<1>2. ASSUME NEW p \in Procs, NEW e \in Events, EnqueueExists(p, e)
      PROVE  QueueInv'
  <2>1. LoopOK(p)
    BY <1>hist
  <2>2. OnlyMoves(p)
    BY <1>2, Typed DEF OnlyMoves, EnqueueExists, LoopTyped, DiskTyped
  <2>3. MemoryOK(p)'
    <3>1. now'[p] <= clock'
      BY <1>2, <2>1, Typed
        DEF EnqueueExists, LoopOK, MemoryOK, LoopTyped, CountTyped
    <3>2. \A d \in Events : mem'[p][d] \in {mem[p][d], NoFile}
      BY <1>2, Typed DEF EnqueueExists, DiskTyped, LoopTyped
    <3>q. QED BY <2>1, <3>1, <3>2, MemoryStays
  <2>4. ControlOK(p)'
    BY <1>2, <2>1, Typed DEF EnqueueExists, LoopTyped, LoopOK, ControlOK
  <2>5. NamesOK(p)'
    BY <1>2, <2>1, Typed
      DEF EnqueueExists, LoopTyped, LoopOK, ControlOK, NamesOK
  <2>6. AnswersOK(p)'
    BY <1>2, <2>1, Typed
      DEF EnqueueExists, LoopTyped, LoopOK, ControlOK, AnswersOK
  <2>7. HistoryOK' /\ LossHasCause'
    <3>1. file' = file /\ born' = born
      BY <1>2 DEF EnqueueExists
    <3>q. QED BY <1>hist, <3>1, DiskStays
  <2>q. QED BY <2>2, <2>3, <2>4, <2>5, <2>6, <2>7, OneLoopMoves DEF LoopOK
<1>3. ASSUME NEW p \in Procs, EnqueueWrite(p)
      PROVE  QueueInv'
  <2>1. LoopOK(p)
    BY <1>hist
  <2>2. OnlyMoves(p)
    BY <1>3, Typed DEF OnlyMoves, EnqueueWrite, LoopTyped, DiskTyped
  <2>3. MemoryOK(p)'
    <3>1. now'[p] <= clock'
      BY <1>3, <2>1, Typed
        DEF EnqueueWrite, LoopOK, MemoryOK, LoopTyped, CountTyped
    <3>2. \A d \in Events : mem'[p][d] \in {mem[p][d], NoFile}
      BY <1>3, Typed DEF EnqueueWrite, DiskTyped, LoopTyped
    <3>q. QED BY <2>1, <3>1, <3>2, MemoryStays
  <2>4. ControlOK(p)'
    BY <1>3, <2>1, Typed DEF EnqueueWrite, LoopTyped, LoopOK, ControlOK
  <2>5. NamesOK(p)'
    BY <1>3, <2>1, Typed
      DEF EnqueueWrite, LoopTyped, LoopOK, ControlOK, NamesOK
  <2>6. AnswersOK(p)'
    BY <1>3, <2>1, Typed
      DEF EnqueueWrite, LoopTyped, LoopOK, ControlOK, AnswersOK
  <2>7. HistoryOK' /\ LossHasCause'
    <3>0. PICK e \in Events : e = cur[p]
      BY <1>3, Typed DEF EnqueueWrite, LoopTyped
    <3>1. /\ e \in Events
          /\ file' = [file EXCEPT ![e] = FreshEntry]
          /\ born' = [born EXCEPT ![e] = IF @ = -1 THEN clock ELSE @]
          /\ clock' = clock
      BY <1>3, <3>0 DEF EnqueueWrite
    <3>2. clock \in Nat /\ born[e] \in Nat \union {-1} /\ refusals'[e] \in Nat
      BY <3>1, Typed, QueueAssumption DEF CountTyped
    <3>3. born'[e] = IF born[e] = -1 THEN clock ELSE born[e]
      BY <3>1, Typed DEF CountTyped
    <3>4. born[e] <= clock
      BY <1>hist, <3>1, Zenon DEF HistoryOK
    <3>5. born'[e] # -1 /\ born'[e] <= clock'
      BY <3>1, <3>2, <3>3, <3>4
    <3>6. PICK entry \in Entry : entry = FreshEntry
      BY <3>2, FreshTyped
    <3>7. EntryOK(e, entry)'
      BY <3>1, <3>2, <3>5, <3>6 DEF EntryOK, FreshEntry
    <3>8. \A d \in Events : d # e => born'[d] = born[d]
      BY <3>1, Typed DEF CountTyped
    <3>q. QED BY <1>hist, <3>1, <3>5, <3>6, <3>7, <3>8, WriteIsSafe
  <2>q. QED BY <2>2, <2>3, <2>4, <2>5, <2>6, <2>7, OneLoopMoves DEF LoopOK
<1>4. ASSUME NEW p \in Procs, BoundList(p)
      PROVE  QueueInv'
  <2>1. LoopOK(p)
    BY <1>hist
  <2>2. OnlyMoves(p)
    BY <1>4, Typed DEF OnlyMoves, BoundList, LoopTyped, DiskTyped
  <2>3. MemoryOK(p)'
    <3>1. now'[p] <= clock'
      BY <1>4, <2>1, Typed
        DEF BoundList, LoopOK, MemoryOK, LoopTyped, CountTyped
    <3>2. \A d \in Events : mem'[p][d] \in {mem[p][d], NoFile}
      BY <1>4, Typed DEF BoundList, DiskTyped, LoopTyped
    <3>q. QED BY <2>1, <3>1, <3>2, MemoryStays
  <2>4. ControlOK(p)'
    BY <1>4, <2>1, Typed DEF BoundList, LoopTyped, LoopOK, ControlOK
  <2>5. NamesOK(p)'
    <3>1. \/ pc'[p] = "idle"
          \/ pc'[p] = "date" /\ todo'[p] = Filed /\ Excess > 0
      BY <1>4, Typed, SizeNat, QueueAssumption
        DEF BoundList, Excess, Filed, LoopTyped
    <3>2. Excess > 0 => Cardinality(Filed) > MaxEvents
      BY SizeNat, QueueAssumption DEF Excess, Filed
    <3>3. Cardinality(Filed) > MaxEvents => Filed \subseteq crowded'
      BY <1>4 DEF BoundList
    <3>q. QED BY <3>1, <3>2, <3>3 DEF NamesOK
  <2>6. AnswersOK(p)'
    BY <1>4, <2>1, Typed DEF BoundList, LoopTyped, LoopOK, ControlOK, AnswersOK
  <2>7. HistoryOK' /\ LossHasCause'
    <3>1. file' = file /\ born' = born
      BY <1>4 DEF BoundList
    <3>q. QED BY <1>hist, <3>1, DiskStays
  <2>q. QED BY <2>2, <2>3, <2>4, <2>5, <2>6, <2>7, OneLoopMoves DEF LoopOK
<1>5. ASSUME NEW p \in Procs, BoundDate(p)
      PROVE  QueueInv'
  <2>1. LoopOK(p)
    BY <1>hist
  <2>2. OnlyMoves(p)
    BY <1>5, Typed DEF OnlyMoves, BoundDate, LoopTyped, DiskTyped
  <2>3. MemoryOK(p)'
    <3>1. now'[p] <= clock'
      BY <1>5, <2>1, Typed
        DEF BoundDate, LoopOK, MemoryOK, LoopTyped, CountTyped
    <3>2. \A d \in Events : mem'[p][d] \in {mem[p][d], NoFile}
      BY <1>5, Typed DEF BoundDate, DiskTyped, LoopTyped
    <3>q. QED BY <2>1, <3>1, <3>2, MemoryStays
  <2>4. ControlOK(p)'
    BY <1>5, <2>1, Typed DEF BoundDate, LoopTyped, LoopOK, ControlOK
  <2>5. NamesOK(p)'
    BY <1>5, <2>1, Typed DEF BoundDate, Oldest, LoopTyped, LoopOK, NamesOK
  <2>6. AnswersOK(p)'
    BY <1>5, <2>1, Typed DEF BoundDate, LoopTyped, LoopOK, ControlOK, AnswersOK
  <2>7. HistoryOK' /\ LossHasCause'
    <3>1. file' = file /\ born' = born
      BY <1>5 DEF BoundDate
    <3>q. QED BY <1>hist, <3>1, DiskStays
  <2>q. QED BY <2>2, <2>3, <2>4, <2>5, <2>6, <2>7, OneLoopMoves DEF LoopOK
<1>6. ASSUME NEW p \in Procs, NEW e \in Events, BoundEvict(p, e)
      PROVE  QueueInv'
  <2>1. LoopOK(p)
    BY <1>hist
  <2>2. OnlyMoves(p)
    BY <1>6, Typed DEF OnlyMoves, BoundEvict, LoopTyped, DiskTyped
  <2>3. MemoryOK(p)'
    <3>1. now'[p] <= clock'
      BY <1>6, <2>1, Typed
        DEF BoundEvict, LoopOK, MemoryOK, LoopTyped, CountTyped
    <3>2. \A d \in Events : mem'[p][d] \in {mem[p][d], NoFile}
      BY <1>6, Typed DEF BoundEvict, DiskTyped, LoopTyped
    <3>q. QED BY <2>1, <3>1, <3>2, MemoryStays
  <2>4. ControlOK(p)'
    BY <1>6, <2>1, Typed DEF BoundEvict, LoopTyped, LoopOK, ControlOK
  <2>5. NamesOK(p)'
    BY <1>6, <2>1, Typed DEF BoundEvict, LoopTyped, LoopOK, ControlOK, NamesOK
  <2>6. AnswersOK(p)'
    BY <1>6, <2>1, Typed
      DEF BoundEvict, LoopTyped, LoopOK, ControlOK, AnswersOK
  <2>7. HistoryOK' /\ LossHasCause'
    <3>1. e \in Events /\ born' = born /\ Remove(e)
      BY <1>6 DEF BoundEvict
    <3>2. e \in crowded
      BY <1>6, <2>1 DEF BoundEvict, LoopOK, NamesOK
    <3>3. born'[e] # -1 => Justified(e)'
      BY <3>2, JustifiedStays DEF Justified, HasCause, Grows
    <3>q. QED BY <1>hist, <3>1, <3>3, RemovalIsSafe
  <2>q. QED BY <2>2, <2>3, <2>4, <2>5, <2>6, <2>7, OneLoopMoves DEF LoopOK
<1>7. ASSUME NEW p \in Procs, Drain(p)
      PROVE  QueueInv'
  <2>1. LoopOK(p)
    BY <1>hist
  <2>2. OnlyMoves(p)
    BY <1>7, Typed DEF OnlyMoves, Drain, LoopTyped, DiskTyped
  <2>3. MemoryOK(p)'
    <3>1. now'[p] <= clock'
      BY <1>7, <2>1, Typed DEF Drain, LoopOK, MemoryOK, LoopTyped, CountTyped
    <3>2. \A d \in Events : mem'[p][d] \in {mem[p][d], NoFile}
      BY <1>7, Typed DEF Drain, DiskTyped, LoopTyped
    <3>q. QED BY <2>1, <3>1, <3>2, MemoryStays
  <2>4. ControlOK(p)'
    BY <1>7, <2>1, Typed DEF Drain, LoopTyped, LoopOK, ControlOK
  <2>5. NamesOK(p)'
    BY <1>7, <2>1, Typed DEF Drain, LoopTyped, LoopOK, ControlOK, NamesOK
  <2>6. AnswersOK(p)'
    BY <1>7, <2>1, Typed DEF Drain, LoopTyped, LoopOK, ControlOK, AnswersOK
  <2>7. HistoryOK' /\ LossHasCause'
    <3>1. file' = file /\ born' = born
      BY <1>7 DEF Drain
    <3>q. QED BY <1>hist, <3>1, DiskStays
  <2>q. QED BY <2>2, <2>3, <2>4, <2>5, <2>6, <2>7, OneLoopMoves DEF LoopOK
<1>8. ASSUME NEW p \in Procs, Sweep(p)
      PROVE  QueueInv'
  <2>1. LoopOK(p)
    BY <1>hist
  <2>2. OnlyMoves(p)
    BY <1>8, Typed DEF OnlyMoves, Sweep, LoopTyped, DiskTyped
  <2>3. MemoryOK(p)'
    <3>1. now'[p] <= clock'
      BY <1>8, <2>1, Typed DEF Sweep, LoopOK, MemoryOK, LoopTyped, CountTyped
    <3>2. \A d \in Events : mem'[p][d] \in {mem[p][d], NoFile}
      BY <1>8, Typed DEF Sweep, DiskTyped, LoopTyped
    <3>q. QED BY <2>1, <3>1, <3>2, MemoryStays
  <2>4. ControlOK(p)'
    BY <1>8, <2>1, Typed DEF Sweep, LoopTyped, LoopOK, ControlOK
  <2>5. NamesOK(p)'
    BY <1>8, <2>1, Typed DEF Sweep, LoopTyped, LoopOK, ControlOK, NamesOK
  <2>6. AnswersOK(p)'
    BY <1>8, <2>1, Typed DEF Sweep, LoopTyped, LoopOK, ControlOK, AnswersOK
  <2>7. HistoryOK' /\ LossHasCause'
    <3>1. file' = file /\ born' = born
      BY <1>8 DEF Sweep
    <3>q. QED BY <1>hist, <3>1, DiskStays
  <2>q. QED BY <2>2, <2>3, <2>4, <2>5, <2>6, <2>7, OneLoopMoves DEF LoopOK
<1>9. ASSUME NEW p \in Procs, ClaimStat(p)
      PROVE  QueueInv'
  <2>1. LoopOK(p)
    BY <1>hist
  <2>2. OnlyMoves(p)
    BY <1>9, Typed DEF OnlyMoves, ClaimStat, LoopTyped, DiskTyped
  <2>3. MemoryOK(p)'
    <3>1. now'[p] <= clock'
      BY <1>9, <2>1, Typed
        DEF ClaimStat, LoopOK, MemoryOK, LoopTyped, CountTyped
    <3>2. \A d \in Events : mem'[p][d] \in {mem[p][d], NoFile}
      BY <1>9, Typed DEF ClaimStat, DiskTyped, LoopTyped
    <3>q. QED BY <2>1, <3>1, <3>2, MemoryStays
  <2>4. ControlOK(p)'
    BY <1>9, <2>1, Typed DEF ClaimStat, LoopTyped, LoopOK, ControlOK
  <2>5. NamesOK(p)'
    BY <1>9, <2>1, Typed DEF ClaimStat, LoopTyped, LoopOK, ControlOK, NamesOK
  <2>6. AnswersOK(p)'
    BY <1>9, <2>1, Typed DEF ClaimStat, LoopTyped, LoopOK, ControlOK, AnswersOK
  <2>7. HistoryOK' /\ LossHasCause'
    <3>1. file' = file /\ born' = born
      BY <1>9 DEF ClaimStat
    <3>q. QED BY <1>hist, <3>1, DiskStays
  <2>q. QED BY <2>2, <2>3, <2>4, <2>5, <2>6, <2>7, OneLoopMoves DEF LoopOK
<1>10. ASSUME NEW p \in Procs, ClaimStamp(p)
      PROVE  QueueInv'
  <2>1. LoopOK(p)
    BY <1>hist
  <2>2. OnlyMoves(p)
    BY <1>10, Typed DEF OnlyMoves, ClaimStamp, LoopTyped, DiskTyped
  <2>3. MemoryOK(p)'
    <3>1. now'[p] <= clock'
      BY <1>10, <2>1, Typed
        DEF ClaimStamp, LoopOK, MemoryOK, LoopTyped, CountTyped
    <3>2. \A d \in Events : mem'[p][d] \in {mem[p][d], NoFile}
      BY <1>10, Typed DEF ClaimStamp, DiskTyped, LoopTyped
    <3>q. QED BY <2>1, <3>1, <3>2, MemoryStays
  <2>4. ControlOK(p)'
    BY <1>10, <2>1, Typed DEF ClaimStamp, LoopTyped, LoopOK, ControlOK
  <2>5. NamesOK(p)'
    BY <1>10, <1>hist, <2>1, <2>4, Typed, FiledBorn
      DEF ClaimStamp, LoopTyped, LoopOK, ControlOK, NamesOK
  <2>6. AnswersOK(p)'
    BY <1>10, <2>1, Typed
      DEF ClaimStamp, LoopTyped, LoopOK, ControlOK, AnswersOK
  <2>7. HistoryOK' /\ LossHasCause'
    <3>1. file' = file /\ born' = born
      BY <1>10 DEF ClaimStamp
    <3>q. QED BY <1>hist, <3>1, DiskStays
  <2>q. QED BY <2>2, <2>3, <2>4, <2>5, <2>6, <2>7, OneLoopMoves DEF LoopOK
<1>11. ASSUME NEW p \in Procs, CollectList(p)
      PROVE  QueueInv'
  <2>1. LoopOK(p)
    BY <1>hist
  <2>2. OnlyMoves(p)
    BY <1>11, Typed DEF OnlyMoves, CollectList, LoopDone, LoopTyped, DiskTyped
  <2>3. MemoryOK(p)'
    <3>1. now'[p] <= clock'
      BY <1>11, <2>1, Typed
        DEF CollectList, LoopDone, LoopOK, MemoryOK, LoopTyped, CountTyped
    <3>2. \A d \in Events : mem'[p][d] \in {mem[p][d], NoFile}
      BY <1>11, Typed DEF CollectList, LoopDone, DiskTyped, LoopTyped
    <3>q. QED BY <2>1, <3>1, <3>2, MemoryStays
  <2>4. ControlOK(p)'
    BY <1>11, <2>1, Typed
      DEF CollectList, LoopDone, LoopTyped, LoopOK, ControlOK
  <2>5. NamesOK(p)'
    BY <1>11, <1>hist, <2>1, <2>4, Typed, FiledBorn
      DEF CollectList, LoopDone, LoopTyped, LoopOK, ControlOK, NamesOK
  <2>6. AnswersOK(p)'
    BY <1>11, <2>1, Typed
      DEF CollectList, LoopDone, LoopTyped, LoopOK, ControlOK, AnswersOK
  <2>7. HistoryOK' /\ LossHasCause'
    <3>1. file' = file /\ born' = born
      BY <1>11 DEF CollectList
    <3>q. QED BY <1>hist, <3>1, DiskStays
  <2>q. QED BY <2>2, <2>3, <2>4, <2>5, <2>6, <2>7, OneLoopMoves DEF LoopOK
<1>12. ASSUME NEW p \in Procs, NEW e \in Events, ReadEntry(p, e)
      PROVE  QueueInv'
  <2>1. LoopOK(p)
    BY <1>hist
  <2>2. OnlyMoves(p)
    BY <1>12, Typed DEF OnlyMoves, ReadEntry, LoopTyped, DiskTyped
  <2>3. MemoryOK(p)'
    <3>1. now'[p] <= clock'
      BY <1>12, <2>1 DEF ReadEntry, LoopOK, MemoryOK
    <3>2. mem' = mem \/ mem' = [mem EXCEPT ![p][e] = file[e]]
      BY <1>12 DEF ReadEntry
    <3>3. file' = file
      BY <1>12 DEF ReadEntry
    <3>4. CASE mem' = mem
      BY <2>1, <3>1, <3>4, MemoryStays
    <3>5. CASE mem' = [mem EXCEPT ![p][e] = file[e]]
      <4>1. \A d \in Events \ {e} : EntryOK(d, mem[p][d])'
        <5> SUFFICES ASSUME NEW d \in Events \ {e}
                     PROVE  EntryOK(d, mem[p][d])'
          OBVIOUS
        <5>1. mem'[p][d] = mem[p][d] /\ mem[p][d] \in Entry \union {NoFile}
          BY <3>5 DEF TypeOK
        <5>2. EntryOK(d, mem[p][d])
          BY <2>1 DEF LoopOK, MemoryOK
        <5>q. QED BY <5>1, <5>2, EntryStays DEF EntryOK
      <4>2. EntryOK(e, mem[p][e])'
        <5>1. mem'[p][e] = file[e] /\ file[e] \in Entry \union {NoFile}
          BY <3>5 DEF TypeOK
        <5>2. EntryOK(e, file[e])
          BY <1>hist DEF HistoryOK
        <5>q. QED BY <5>1, <5>2, EntryStays DEF EntryOK
      <4>q. QED BY <3>1, <4>1, <4>2 DEF MemoryOK
    <3>q. QED BY <3>2, <3>4, <3>5
  <2>4. ControlOK(p)'
    BY <1>12, <2>1, Typed DEF ReadEntry, LoopTyped, LoopOK, ControlOK
  <2>5. NamesOK(p)'
    <3>1. pc[p] \in {"walk", "collect"} /\ pc' = pc /\ born' = born /\ e \in todo[p]
      BY <1>12 DEF ReadEntry
    <3>2. todo'[p] \subseteq todo[p]
      BY <1>12, Typed DEF ReadEntry, LoopTyped
    <3>3. cur'[p] # NoEvent => cur'[p] = e /\ (~Sendable(file[e], now[p]) \/ e \in spoiled')
      BY <1>12, Typed DEF ReadEntry, LoopTyped
    <3>4. born[e] # -1
      BY <2>1, <3>1 DEF LoopOK, NamesOK
    <3>5. now[p] \in Nat /\ now[p] <= clock
      BY <2>1, Typed DEF LoopOK, MemoryOK, LoopTyped
    <3>6. ~Sendable(file[e], now[p]) => Justified(e)'
      BY <1>hist, <3>4, <3>5, UnsendableJustified, JustifiedStays
    <3>7. e \in spoiled' => Justified(e)'
      BY <3>1, <3>4 DEF Justified, HasCause
    <3>8. cur'[p] # NoEvent => cur'[p] = e /\ Justified(e)'
      BY <3>3, <3>6, <3>7
    <3>9. \A d \in todo'[p] : born'[d] # -1
      BY <2>1, <3>1, <3>2 DEF LoopOK, NamesOK
    <3>q. QED BY <3>1, <3>8, <3>9 DEF NamesOK, Justified
  <2>6. AnswersOK(p)'
    BY <1>12, <2>1, Typed
      DEF ReadEntry, LoopTyped, LoopOK, ControlOK, AnswersOK
  <2>7. HistoryOK' /\ LossHasCause'
    <3>1. file' = file /\ born' = born
      BY <1>12 DEF ReadEntry
    <3>q. QED BY <1>hist, <3>1, DiskStays
  <2>q. QED BY <2>2, <2>3, <2>4, <2>5, <2>6, <2>7, OneLoopMoves DEF LoopOK
<1>13. ASSUME NEW p \in Procs, RemoveUnsendable(p)
      PROVE  QueueInv'
  <2>1. LoopOK(p)
    BY <1>hist
  <2>2. OnlyMoves(p)
    BY <1>13, Typed DEF OnlyMoves, RemoveUnsendable, LoopTyped, DiskTyped
  <2>3. MemoryOK(p)'
    <3>1. now'[p] <= clock'
      BY <1>13, <2>1, Typed
        DEF RemoveUnsendable, LoopOK, MemoryOK, LoopTyped, CountTyped
    <3>2. \A d \in Events : mem'[p][d] \in {mem[p][d], NoFile}
      BY <1>13, Typed DEF RemoveUnsendable, DiskTyped, LoopTyped
    <3>q. QED BY <2>1, <3>1, <3>2, MemoryStays
  <2>4. ControlOK(p)'
    BY <1>13, <2>1, Typed DEF RemoveUnsendable, LoopTyped, LoopOK, ControlOK
  <2>5. NamesOK(p)'
    BY <1>13, <2>1, Typed
      DEF RemoveUnsendable, LoopTyped, LoopOK, ControlOK, NamesOK
  <2>6. AnswersOK(p)'
    BY <1>13, <2>1, Typed
      DEF RemoveUnsendable, LoopTyped, LoopOK, ControlOK, AnswersOK
  <2>7. HistoryOK' /\ LossHasCause'
    <3>1. PICK e \in Events : e = cur[p]
      BY <1>13, Typed DEF RemoveUnsendable, LoopTyped, CountTyped
    <3>2. Justified(e)
      BY <1>13, <2>1, <3>1 DEF RemoveUnsendable, LoopOK, NamesOK
    <3>3. born'[e] # -1 => Justified(e)'
      BY <3>2, JustifiedStays
    <3>4. born' = born /\ Remove(e)
      BY <1>13, <3>1 DEF RemoveUnsendable
    <3>q. QED BY <1>hist, <3>3, <3>4, RemovalIsSafe
  <2>q. QED BY <2>2, <2>3, <2>4, <2>5, <2>6, <2>7, OneLoopMoves DEF LoopOK
<1>14. ASSUME NEW p \in Procs, SendAccepted(p)
      PROVE  QueueInv'
  <2>1. LoopOK(p)
    BY <1>hist
  <2>2. OnlyMoves(p)
    BY <1>14, Typed
      DEF OnlyMoves, SendAccepted, Sending, LoopDone, LoopTyped, DiskTyped
  <2>3. MemoryOK(p)'
    <3>1. now'[p] <= clock'
      BY <1>14, <2>1, Typed
        DEF SendAccepted, Sending, LoopDone, LoopOK, MemoryOK, LoopTyped,
            CountTyped
    <3>2. \A d \in Events : mem'[p][d] \in {mem[p][d], NoFile}
      BY <1>14, Typed DEF SendAccepted, Sending, LoopDone, DiskTyped, LoopTyped
    <3>q. QED BY <2>1, <3>1, <3>2, MemoryStays
  <2>4. ControlOK(p)'
    BY <1>14, <2>1, Typed
      DEF SendAccepted, Sending, LoopDone, LoopTyped, LoopOK, ControlOK
  <2>5. NamesOK(p)'
    BY <1>14, <2>1, Typed
      DEF SendAccepted, Sending, LoopDone, LoopTyped, LoopOK, ControlOK,
          NamesOK
  <2>6. AnswersOK(p)'
    <3>1. Batch(p)' = Batch(p) /\ mem' = mem
      BY <1>14 DEF SendAccepted, Batch
    <3>2. pc'[p] = "clear" /\ Batch(p) \subseteq accepted'
      BY <1>14, Typed DEF SendAccepted, LoopTyped
    <3>q. QED BY <3>1, <3>2 DEF AnswersOK
  <2>7. HistoryOK' /\ LossHasCause'
    <3>1. file' = file /\ born' = born
      BY <1>14 DEF SendAccepted
    <3>q. QED BY <1>hist, <3>1, DiskStays
  <2>q. QED BY <2>2, <2>3, <2>4, <2>5, <2>6, <2>7, OneLoopMoves DEF LoopOK
<1>15. ASSUME NEW p \in Procs, SendUncharged(p)
      PROVE  QueueInv'
  <2>1. LoopOK(p)
    BY <1>hist
  <2>2. OnlyMoves(p)
    BY <1>15, Typed
      DEF OnlyMoves, SendUncharged, Sending, LoopDone, LoopTyped, DiskTyped
  <2>3. MemoryOK(p)'
    <3>1. now'[p] <= clock'
      BY <1>15, <2>1, Typed
        DEF SendUncharged, Sending, LoopDone, LoopOK, MemoryOK, LoopTyped,
            CountTyped
    <3>2. \A d \in Events : mem'[p][d] \in {mem[p][d], NoFile}
      BY <1>15, Typed
        DEF SendUncharged, Sending, LoopDone, NoBatch, DiskTyped, LoopTyped
    <3>q. QED BY <2>1, <3>1, <3>2, MemoryStays
  <2>4. ControlOK(p)'
    BY <1>15, <2>1, Typed
      DEF SendUncharged, Sending, LoopDone, LoopTyped, LoopOK, ControlOK
  <2>5. NamesOK(p)'
    BY <1>15, <2>1, Typed
      DEF SendUncharged, Sending, LoopDone, LoopTyped, LoopOK, ControlOK,
          NamesOK
  <2>6. AnswersOK(p)'
    BY <1>15, <2>1, Typed
      DEF SendUncharged, Sending, LoopDone, LoopTyped, LoopOK, ControlOK,
          AnswersOK
  <2>7. HistoryOK' /\ LossHasCause'
    <3>1. file' = file /\ born' = born
      BY <1>15 DEF SendUncharged
    <3>q. QED BY <1>hist, <3>1, DiskStays
  <2>q. QED BY <2>2, <2>3, <2>4, <2>5, <2>6, <2>7, OneLoopMoves DEF LoopOK
<1>16. ASSUME NEW p \in Procs, SendFailed(p)
      PROVE  QueueInv'
  <2>1. LoopOK(p)
    BY <1>hist
  <2>2. OnlyMoves(p)
    BY <1>16, Typed
      DEF OnlyMoves, SendFailed, Sending, LoopDone, LoopTyped, DiskTyped
  <2>3. MemoryOK(p)'
    <3>1. now'[p] <= clock'
      BY <1>16, <2>1, Typed
        DEF SendFailed, Sending, LoopDone, LoopOK, MemoryOK, LoopTyped,
            CountTyped
    <3>2. \A d \in Events : mem'[p][d] \in {mem[p][d], NoFile}
      BY <1>16, Typed DEF SendFailed, Sending, LoopDone, DiskTyped, LoopTyped
    <3>q. QED BY <2>1, <3>1, <3>2, MemoryStays
  <2>4. ControlOK(p)'
    BY <1>16, <2>1, Typed
      DEF SendFailed, Sending, LoopDone, LoopTyped, LoopOK, ControlOK
  <2>5. NamesOK(p)'
    BY <1>16, <2>1, Typed
      DEF SendFailed, Sending, LoopDone, LoopTyped, LoopOK, ControlOK, NamesOK
  <2>6. AnswersOK(p)'
    <3>1. Batch(p)' = Batch(p) /\ mem' = mem
      BY <1>16 DEF SendFailed, Batch
    <3>2. \A d \in Batch(p) : mem[p][d].attempts + 1 <= refusals'[d]
      BY <1>16, <2>1, RefusalCharges DEF SendFailed
    <3>3. pc'[p] \in {"fail", "probe"}
      BY <1>16, Typed DEF SendFailed, LoopTyped
    <3>q. QED BY <3>1, <3>2, <3>3 DEF AnswersOK
  <2>7. HistoryOK' /\ LossHasCause'
    <3>1. file' = file /\ born' = born
      BY <1>16 DEF SendFailed
    <3>q. QED BY <1>hist, <3>1, DiskStays
  <2>q. QED BY <2>2, <2>3, <2>4, <2>5, <2>6, <2>7, OneLoopMoves DEF LoopOK
<1>17. ASSUME NEW p \in Procs, SendRefused(p)
      PROVE  QueueInv'
  <2>1. LoopOK(p)
    BY <1>hist
  <2>2. OnlyMoves(p)
    BY <1>17, Typed
      DEF OnlyMoves, SendRefused, Sending, LoopDone, LoopTyped, DiskTyped
  <2>3. MemoryOK(p)'
    <3>1. now'[p] <= clock'
      BY <1>17, <2>1, Typed
        DEF SendRefused, Sending, LoopDone, LoopOK, MemoryOK, LoopTyped,
            CountTyped
    <3>2. \A d \in Events : mem'[p][d] \in {mem[p][d], NoFile}
      BY <1>17, Typed DEF SendRefused, Sending, LoopDone, DiskTyped, LoopTyped
    <3>q. QED BY <2>1, <3>1, <3>2, MemoryStays
  <2>4. ControlOK(p)'
    BY <1>17, <2>1, Typed
      DEF SendRefused, Sending, LoopDone, LoopTyped, LoopOK, ControlOK
  <2>5. NamesOK(p)'
    BY <1>17, <2>1, Typed
      DEF SendRefused, Sending, LoopDone, LoopTyped, LoopOK, ControlOK, NamesOK
  <2>6. AnswersOK(p)'
    <3>1. Batch(p)' = Batch(p) /\ mem' = mem
      BY <1>17 DEF SendRefused, Batch
    <3>2. \A d \in Batch(p) : mem[p][d].attempts + 1 <= refusals'[d]
      BY <1>17, <2>1, RefusalCharges DEF SendRefused
    <3>3. pc'[p] \in {"fail", "probe"}
      BY <1>17, Typed DEF SendRefused, LoopTyped
    <3>q. QED BY <3>1, <3>2, <3>3 DEF AnswersOK
  <2>7. HistoryOK' /\ LossHasCause'
    <3>1. file' = file /\ born' = born
      BY <1>17 DEF SendRefused
    <3>q. QED BY <1>hist, <3>1, DiskStays
  <2>q. QED BY <2>2, <2>3, <2>4, <2>5, <2>6, <2>7, OneLoopMoves DEF LoopOK
<1>18. ASSUME NEW p \in Procs, NEW e \in Events, ClearSent(p, e)
      PROVE  QueueInv'
  <2>1. LoopOK(p)
    BY <1>hist
  <2>2. OnlyMoves(p)
    BY <1>18, Typed DEF OnlyMoves, ClearSent, LoopTyped, DiskTyped
  <2>3. MemoryOK(p)'
    <3>1. now'[p] <= clock'
      BY <1>18, <2>1, Typed
        DEF ClearSent, LoopOK, MemoryOK, LoopTyped, CountTyped
    <3>2. \A d \in Events : mem'[p][d] \in {mem[p][d], NoFile}
      BY <1>18, Typed DEF ClearSent, DiskTyped, LoopTyped
    <3>q. QED BY <2>1, <3>1, <3>2, MemoryStays
  <2>4. ControlOK(p)'
    BY <1>18, <2>1, Typed DEF ClearSent, LoopTyped, LoopOK, ControlOK
  <2>5. NamesOK(p)'
    BY <1>18, <2>1, Typed DEF ClearSent, LoopTyped, LoopOK, ControlOK, NamesOK
  <2>6. AnswersOK(p)'
    <3>1. \A d \in Events : mem'[p][d] \in {mem[p][d], NoFile}
      BY <1>18, Typed DEF ClearSent, DiskTyped
    <3>2. Batch(p)' \subseteq Batch(p)
      BY <3>1, BatchShrinks
    <3>3. pc[p] = "clear" /\ pc' = pc /\ accepted' = accepted
      BY <1>18 DEF ClearSent
    <3>q. QED BY <2>1, <3>2, <3>3 DEF LoopOK, AnswersOK
  <2>7. HistoryOK' /\ LossHasCause'
    <3>1. e \in Events /\ born' = born /\ Remove(e)
      BY <1>18 DEF ClearSent
    <3>2. e \in accepted
      BY <1>18, <2>1 DEF ClearSent, LoopOK, AnswersOK
    <3>3. born'[e] # -1 => Justified(e)'
      BY <3>2 DEF Justified, Grows
    <3>q. QED BY <1>hist, <3>1, <3>3, RemovalIsSafe
  <2>q. QED BY <2>2, <2>3, <2>4, <2>5, <2>6, <2>7, OneLoopMoves DEF LoopOK
<1>19. ASSUME NEW p \in Procs, NEW e \in Events, ProbeAccepted(p, e)
      PROVE  QueueInv'
  <2>1. LoopOK(p)
    BY <1>hist
  <2>2. OnlyMoves(p)
    BY <1>19, Typed DEF OnlyMoves, ProbeAccepted, Probing, LoopTyped, DiskTyped
  <2>3. MemoryOK(p)'
    <3>1. now'[p] <= clock'
      BY <1>19, <2>1, Typed
        DEF ProbeAccepted, Probing, LoopOK, MemoryOK, LoopTyped, CountTyped
    <3>2. \A d \in Events : mem'[p][d] \in {mem[p][d], NoFile}
      BY <1>19, Typed DEF ProbeAccepted, Probing, DiskTyped, LoopTyped
    <3>q. QED BY <2>1, <3>1, <3>2, MemoryStays
  <2>4. ControlOK(p)'
    BY <1>19, <2>1, Typed
      DEF ProbeAccepted, Probing, LoopTyped, LoopOK, ControlOK
  <2>5. NamesOK(p)'
    BY <1>19, <2>1, Typed
      DEF ProbeAccepted, Probing, LoopTyped, LoopOK, ControlOK, NamesOK
  <2>6. AnswersOK(p)'
    <3>1. \A d \in Events : mem'[p][d] \in {mem[p][d], NoFile}
      BY <1>19, Typed DEF ProbeAccepted, Probing, DiskTyped
    <3>2. Batch(p)' \subseteq Batch(p)
      BY <3>1, BatchShrinks
    <3>3. /\ pc[p] = "probe" /\ pc'[p] = "probe-clear"
          /\ cur'[p] = e /\ e \in accepted'
      BY <1>19, Typed DEF ProbeAccepted, Probing, LoopTyped
    <3>4. \A d \in Batch(p)' : mem'[p][d].attempts + 1 <= refusals'[d]
      BY <2>1, <3>1, <3>2, <3>3, BatchShrinks DEF LoopOK, AnswersOK
    <3>q. QED BY <3>3, <3>4 DEF AnswersOK
  <2>7. HistoryOK' /\ LossHasCause'
    <3>1. file' = file /\ born' = born
      BY <1>19 DEF ProbeAccepted
    <3>q. QED BY <1>hist, <3>1, DiskStays
  <2>q. QED BY <2>2, <2>3, <2>4, <2>5, <2>6, <2>7, OneLoopMoves DEF LoopOK
<1>20. ASSUME NEW p \in Procs, NEW e \in Events, ProbeUncharged(p, e)
      PROVE  QueueInv'
  <2>1. LoopOK(p)
    BY <1>hist
  <2>2. OnlyMoves(p)
    BY <1>20, Typed
      DEF OnlyMoves, ProbeUncharged, Probing, LoopTyped, DiskTyped
  <2>3. MemoryOK(p)'
    <3>1. now'[p] <= clock'
      BY <1>20, <2>1, Typed
        DEF ProbeUncharged, Probing, LoopOK, MemoryOK, LoopTyped, CountTyped
    <3>2. \A d \in Events : mem'[p][d] \in {mem[p][d], NoFile}
      BY <1>20, Typed
        DEF ProbeUncharged, Probing, NoBatch, DiskTyped, LoopTyped
    <3>q. QED BY <2>1, <3>1, <3>2, MemoryStays
  <2>4. ControlOK(p)'
    BY <1>20, <2>1, Typed
      DEF ProbeUncharged, Probing, LoopTyped, LoopOK, ControlOK
  <2>5. NamesOK(p)'
    BY <1>20, <2>1, Typed
      DEF ProbeUncharged, Probing, LoopTyped, LoopOK, ControlOK, NamesOK
  <2>6. AnswersOK(p)'
    BY <1>20, <2>1, Typed
      DEF ProbeUncharged, Probing, LoopTyped, LoopOK, ControlOK, AnswersOK
  <2>7. HistoryOK' /\ LossHasCause'
    <3>1. file' = file /\ born' = born
      BY <1>20 DEF ProbeUncharged
    <3>q. QED BY <1>hist, <3>1, DiskStays
  <2>q. QED BY <2>2, <2>3, <2>4, <2>5, <2>6, <2>7, OneLoopMoves DEF LoopOK
<1>21. ASSUME NEW p \in Procs, NEW e \in Events, ProbeFailed(p, e)
      PROVE  QueueInv'
  <2>1. LoopOK(p)
    BY <1>hist
  <2>2. OnlyMoves(p)
    BY <1>21, Typed DEF OnlyMoves, ProbeFailed, Probing, LoopTyped, DiskTyped
  <2>3. MemoryOK(p)'
    <3>1. now'[p] <= clock'
      BY <1>21, <2>1, Typed
        DEF ProbeFailed, Probing, LoopOK, MemoryOK, LoopTyped, CountTyped
    <3>2. \A d \in Events : mem'[p][d] \in {mem[p][d], NoFile}
      BY <1>21, Typed DEF ProbeFailed, Probing, DiskTyped, LoopTyped
    <3>q. QED BY <2>1, <3>1, <3>2, MemoryStays
  <2>4. ControlOK(p)'
    BY <1>21, <2>1, Typed
      DEF ProbeFailed, Probing, LoopTyped, LoopOK, ControlOK
  <2>5. NamesOK(p)'
    BY <1>21, <2>1, Typed
      DEF ProbeFailed, Probing, LoopTyped, LoopOK, ControlOK, NamesOK
  <2>6. AnswersOK(p)'
    <3>1. \A d \in Events : mem'[p][d] \in {mem[p][d], NoFile}
      BY <1>21, Typed DEF ProbeFailed, Probing, DiskTyped
    <3>2. Batch(p)' \subseteq Batch(p)
      BY <3>1, BatchShrinks
    <3>3. /\ pc[p] = "probe" /\ pc'[p] = "probe-fail"
          /\ cur'[p] = e
      BY <1>21, Typed DEF ProbeFailed, Probing, LoopTyped
    <3>4. \A d \in Batch(p)' : mem'[p][d].attempts + 1 <= refusals'[d]
      BY <2>1, <3>1, <3>2, <3>3, BatchShrinks DEF LoopOK, AnswersOK
    <3>q. QED BY <3>3, <3>4 DEF AnswersOK
  <2>7. HistoryOK' /\ LossHasCause'
    <3>1. file' = file /\ born' = born
      BY <1>21 DEF ProbeFailed
    <3>q. QED BY <1>hist, <3>1, DiskStays
  <2>q. QED BY <2>2, <2>3, <2>4, <2>5, <2>6, <2>7, OneLoopMoves DEF LoopOK
<1>22. ASSUME NEW p \in Procs, ProbeClear(p)
      PROVE  QueueInv'
  <2>1. LoopOK(p)
    BY <1>hist
  <2>2. OnlyMoves(p)
    BY <1>22, Typed DEF OnlyMoves, ProbeClear, LoopTyped, DiskTyped
  <2>3. MemoryOK(p)'
    <3>1. now'[p] <= clock'
      BY <1>22, <2>1, Typed
        DEF ProbeClear, LoopOK, MemoryOK, LoopTyped, CountTyped
    <3>2. \A d \in Events : mem'[p][d] \in {mem[p][d], NoFile}
      BY <1>22, Typed DEF ProbeClear, DiskTyped, LoopTyped
    <3>q. QED BY <2>1, <3>1, <3>2, MemoryStays
  <2>4. ControlOK(p)'
    BY <1>22, <2>1, Typed DEF ProbeClear, LoopTyped, LoopOK, ControlOK
  <2>5. NamesOK(p)'
    BY <1>22, <2>1, Typed DEF ProbeClear, LoopTyped, LoopOK, ControlOK, NamesOK
  <2>6. AnswersOK(p)'
    <3>1. \A d \in Events : mem'[p][d] \in {mem[p][d], NoFile}
      BY <1>22, Typed DEF ProbeClear, DiskTyped
    <3>2. Batch(p)' \subseteq Batch(p)
      BY <3>1, BatchShrinks
    <3>3. /\ pc[p] \in {"fail", "probe", "probe-clear", "probe-fail"}
          /\ pc'[p] \in {"fail", "probe"}
      BY <1>22, Typed DEF ProbeClear, LoopTyped
    <3>4. \A d \in Batch(p)' : mem'[p][d].attempts + 1 <= refusals'[d]
      BY <2>1, <3>1, <3>2, <3>3, BatchShrinks DEF LoopOK, AnswersOK
    <3>q. QED BY <3>3, <3>4 DEF AnswersOK
  <2>7. HistoryOK' /\ LossHasCause'
    <3>1. PICK e \in Events : e = cur[p]
      BY <1>22, Typed, <2>1
        DEF ProbeClear, LoopOK, AnswersOK, LoopTyped, CountTyped
    <3>2. e \in accepted
      BY <1>22, <2>1, <3>1 DEF ProbeClear, LoopOK, AnswersOK
    <3>3. born'[e] # -1 => Justified(e)'
      BY <3>2 DEF Justified, Grows
    <3>4. born' = born /\ Remove(e)
      BY <1>22, <3>1 DEF ProbeClear
    <3>q. QED BY <1>hist, <3>3, <3>4, RemovalIsSafe
  <2>q. QED BY <2>2, <2>3, <2>4, <2>5, <2>6, <2>7, OneLoopMoves DEF LoopOK
<1>23. ASSUME NEW p \in Procs, NEW e \in Events, RecordFailure(p, e)
      PROVE  QueueInv'
  <2>1. LoopOK(p)
    BY <1>hist
  <2>2. OnlyMoves(p)
    BY <1>23, Typed DEF OnlyMoves, RecordFailure, LoopTyped, DiskTyped
  <2>3. MemoryOK(p)'
    <3>1. now'[p] <= clock'
      BY <1>23, <2>1, Typed
        DEF RecordFailure, LoopOK, MemoryOK, LoopTyped, CountTyped
    <3>2. \A d \in Events : mem'[p][d] \in {mem[p][d], NoFile}
      BY <1>23, Typed DEF RecordFailure, DiskTyped, LoopTyped
    <3>q. QED BY <2>1, <3>1, <3>2, MemoryStays
  <2>4. ControlOK(p)'
    BY <1>23, <2>1, Typed DEF RecordFailure, LoopTyped, LoopOK, ControlOK
  <2>5. NamesOK(p)'
    BY <1>23, <2>1, Typed
      DEF RecordFailure, LoopTyped, LoopOK, ControlOK, NamesOK
  <2>6. AnswersOK(p)'
    <3>1. \A d \in Events : mem'[p][d] \in {mem[p][d], NoFile}
      BY <1>23, Typed DEF RecordFailure, DiskTyped
    <3>2. Batch(p)' \subseteq Batch(p)
      BY <3>1, BatchShrinks
    <3>3. /\ pc[p] \in {"fail", "probe", "probe-clear", "probe-fail"}
          /\ pc'[p] \in {"fail", "probe"}
      BY <1>23, Typed DEF RecordFailure, LoopTyped
    <3>4. \A d \in Batch(p)' : mem'[p][d].attempts + 1 <= refusals'[d]
      BY <2>1, <3>1, <3>2, <3>3, BatchShrinks DEF LoopOK, AnswersOK
    <3>q. QED BY <3>3, <3>4 DEF AnswersOK
  <2>7. HistoryOK' /\ LossHasCause'
    <3>1. /\ mem[p][e] \in Entry /\ mem[p][e] # NoFile /\ Charge(p, e) /\ born' = born
          /\ refusals' = refusals /\ pc[p] \in {"fail", "probe", "probe-fail"}
      BY <1>23, Typed DEF RecordFailure, Batch, DiskTyped
    <3>2. EntryOK(e, mem[p][e])
      BY <2>1 DEF LoopOK, MemoryOK
    <3>3. mem[p][e].attempts + 1 <= refusals[e]
      BY <1>23, <2>1, <3>1 DEF LoopOK, AnswersOK, RecordFailure
    <3>4. CASE mem[p][e].attempts + 1 >= MaxAttempts
      <4>1. Remove(e)
        BY <3>1, <3>4 DEF Charge
      <4>2. Justified(e)'
        BY <3>1, <3>2, <3>3, <3>4, LastRefusalJustifies, JustifiedStays
      <4>q. QED BY <1>hist, <3>1, <4>1, <4>2, RemovalIsSafe
    <3>5. CASE ~(mem[p][e].attempts + 1 >= MaxAttempts)
      <4>1. PICK delay \in Backoffs :
              file' = [file EXCEPT ![e] = [mem[p][e] EXCEPT
                  !.attempts = mem[p][e].attempts + 1, !.next = now[p] + delay]]
        BY <3>1, <3>5 DEF Charge
      <4> DEFINE charged == [mem[p][e] EXCEPT
                  !.attempts = mem[p][e].attempts + 1, !.next = now[p] + delay]
      <4>2. now[p] + delay \in Nat /\ mem[p][e].attempts + 1 \in 0..(MaxAttempts - 1)
        BY <3>1, <3>5, Typed, QueueAssumption DEF LoopTyped, Entry
      <4>3. PICK entry \in Entry : entry = charged
        BY <3>1, <4>2 DEF Entry
      <4>4. /\ entry.attempts = mem[p][e].attempts + 1
            /\ entry.first = mem[p][e].first /\ entry.readable = mem[p][e].readable
        BY <3>1, <4>3 DEF Entry
      <4>5. /\ born[e] # -1 /\ born[e] <= entry.first
            /\ entry.attempts <= refusals[e]
            /\ mem[p][e].readable \/ e \in spoiled
        BY <3>1, <3>2, <3>3, <4>4 DEF EntryOK
      <4>6. EntryOK(e, entry)
        BY <4>4, <4>5 DEF EntryOK
      <4>7. EntryOK(e, entry)'
        BY <4>3, <4>6, EntryStays
      <4>8. born'[e] <= clock'
        <5>1. born[e] <= clock
          BY <1>hist, Zenon DEF HistoryOK
        <5>q. QED BY <3>1, <5>1, Typed DEF CountTyped, Grows
      <4>9. file' = [file EXCEPT ![e] = entry]
        BY <4>1, <4>3
      <4>q. QED BY <1>hist, <3>1, <4>3, <4>7, <4>8, <4>9, WriteIsSafe
    <3>q. QED BY <3>4, <3>5
  <2>q. QED BY <2>2, <2>3, <2>4, <2>5, <2>6, <2>7, OneLoopMoves DEF LoopOK
<1>24. ASSUME NEW p \in Procs, Report(p)
      PROVE  QueueInv'
  <2>1. LoopOK(p)
    BY <1>hist
  <2>2. OnlyMoves(p)
    BY <1>24, Typed DEF OnlyMoves, Report, LoopTyped, DiskTyped
  <2>3. MemoryOK(p)'
    <3>1. now'[p] <= clock'
      BY <1>24, <2>1, Typed DEF Report, LoopOK, MemoryOK, LoopTyped, CountTyped
    <3>2. \A d \in Events : mem'[p][d] \in {mem[p][d], NoFile}
      BY <1>24, Typed DEF Report, DiskTyped, LoopTyped
    <3>q. QED BY <2>1, <3>1, <3>2, MemoryStays
  <2>4. ControlOK(p)'
    BY <1>24, <2>1, Typed
      DEF Report, LoopTyped, PassDone, LoopDone, Batch, LoopOK, ControlOK
  <2>5. NamesOK(p)'
    BY <1>24, <2>1, Typed
      DEF Report, LoopTyped, PassDone, LoopDone, Batch, LoopOK, ControlOK,
          NamesOK
  <2>6. AnswersOK(p)'
    BY <1>24, <2>1, Typed
      DEF Report, LoopTyped, PassDone, LoopDone, Batch, LoopOK, ControlOK,
          AnswersOK
  <2>7. HistoryOK' /\ LossHasCause'
    <3>1. file' = file /\ born' = born
      BY <1>24 DEF Report
    <3>q. QED BY <1>hist, <3>1, DiskStays
  <2>q. QED BY <2>2, <2>3, <2>4, <2>5, <2>6, <2>7, OneLoopMoves DEF LoopOK
<1>25. ASSUME NEW p \in Procs, Release(p)
      PROVE  QueueInv'
  <2>1. LoopOK(p)
    BY <1>hist
  <2>2. OnlyMoves(p)
    BY <1>25, Typed DEF OnlyMoves, Release, LoopTyped, DiskTyped
  <2>3. MemoryOK(p)'
    <3>1. now'[p] <= clock'
      BY <1>25, <2>1, Typed
        DEF Release, LoopOK, MemoryOK, LoopTyped, CountTyped
    <3>2. \A d \in Events : mem'[p][d] \in {mem[p][d], NoFile}
      BY <1>25, Typed DEF Release, DiskTyped, LoopTyped
    <3>q. QED BY <2>1, <3>1, <3>2, MemoryStays
  <2>4. ControlOK(p)'
    BY <1>25, <2>1, Typed DEF Release, LoopTyped, LoopOK, ControlOK
  <2>5. NamesOK(p)'
    BY <1>25, <2>1, Typed DEF Release, LoopTyped, LoopOK, ControlOK, NamesOK
  <2>6. AnswersOK(p)'
    BY <1>25, <2>1, Typed DEF Release, LoopTyped, LoopOK, ControlOK, AnswersOK
  <2>7. HistoryOK' /\ LossHasCause'
    <3>1. file' = file /\ born' = born
      BY <1>25 DEF Release
    <3>q. QED BY <1>hist, <3>1, DiskStays
  <2>q. QED BY <2>2, <2>3, <2>4, <2>5, <2>6, <2>7, OneLoopMoves DEF LoopOK
<1>26. ASSUME NEW p \in Procs, Crash(p)
      PROVE  QueueInv'
  <2>1. LoopOK(p)
    BY <1>hist
  <2>2. OnlyMoves(p)
    BY <1>26, Typed DEF OnlyMoves, Crash, LoopTyped, DiskTyped
  <2>3. MemoryOK(p)'
    <3>1. now'[p] <= clock'
      BY <1>26, <2>1, Typed DEF Crash, LoopOK, MemoryOK, LoopTyped, CountTyped
    <3>2. \A d \in Events : mem'[p][d] \in {mem[p][d], NoFile}
      BY <1>26, Typed DEF Crash, NoBatch, DiskTyped, LoopTyped
    <3>q. QED BY <2>1, <3>1, <3>2, MemoryStays
  <2>4. ControlOK(p)'
    BY <1>26, <2>1, Typed DEF Crash, LoopTyped, LoopOK, ControlOK
  <2>5. NamesOK(p)'
    BY <1>26, <2>1, Typed DEF Crash, LoopTyped, LoopOK, ControlOK, NamesOK
  <2>6. AnswersOK(p)'
    BY <1>26, <2>1, Typed DEF Crash, LoopTyped, LoopOK, ControlOK, AnswersOK
  <2>7. HistoryOK' /\ LossHasCause'
    <3>1. file' = file /\ born' = born
      BY <1>26 DEF Crash
    <3>q. QED BY <1>hist, <3>1, DiskStays
  <2>q. QED BY <2>2, <2>3, <2>4, <2>5, <2>6, <2>7, OneLoopMoves DEF LoopOK
<1>27. CASE Tick
  <2>1. /\ file' = file /\ born' = born
        /\ pc' = pc /\ now' = now /\ todo' = todo /\ cur' = cur /\ mem' = mem
    BY <1>27 DEF Tick
  <2>2. \A p \in Procs : LoopOK(p)'
    BY <1>hist, <2>1, LoopStays
  <2>3. HistoryOK' /\ LossHasCause'
    BY <1>hist, <2>1, DiskStays
  <2>q. QED BY <2>2, <2>3 DEF QueueInv
<1>28. CASE BreakLock
  <2>1. /\ file' = file /\ born' = born
        /\ pc' = pc /\ now' = now /\ todo' = todo /\ cur' = cur /\ mem' = mem
    BY <1>28 DEF BreakLock
  <2>2. \A p \in Procs : LoopOK(p)'
    BY <1>hist, <2>1, LoopStays
  <2>3. HistoryOK' /\ LossHasCause'
    BY <1>hist, <2>1, DiskStays
  <2>q. QED BY <2>2, <2>3 DEF QueueInv
<1>29. CASE UNCHANGED vars
  <2>1. /\ file' = file /\ born' = born
        /\ pc' = pc /\ now' = now /\ todo' = todo /\ cur' = cur /\ mem' = mem
    BY <1>29 DEF vars
  <2>2. \A p \in Procs : LoopOK(p)'
    BY <1>hist, <2>1, LoopStays
  <2>3. HistoryOK' /\ LossHasCause'
    BY <1>hist, <2>1, DiskStays
  <2>q. QED BY <2>2, <2>3 DEF QueueInv
<1>q. QED
  BY <1>1, <1>2, <1>3, <1>4, <1>5, <1>6, <1>7, <1>8, <1>9, <1>10, <1>11,
       <1>12, <1>13, <1>14, <1>15, <1>16, <1>17, <1>18, <1>19, <1>20, <1>21,
        <1>22, <1>23, <1>24, <1>25, <1>26, <1>27, <1>28, <1>29
  DEF Next, Continue

LEMMA QueueInvInit == Init => QueueInv
<1> SUFFICES ASSUME Init PROVE QueueInv
  OBVIOUS
<1>1. TypeOK
  BY InitTyped
<1>2. ASSUME NEW e \in Events
      PROVE  /\ file[e] = NoFile \/ file[e] = LegacyEntry
             /\ born[e] = IF file[e] = NoFile THEN -1 ELSE 0
             /\ file[e] # NoFile => e \in spoiled
  <2>1. PICK old \in SUBSET Legacy :
          file = [d \in Events |-> IF d \in old THEN LegacyEntry ELSE NoFile]
    BY DEF Init
  <2>2. born = [d \in Events |-> IF file[d] = NoFile THEN -1 ELSE 0] /\ spoiled = Filed
    BY DEF Init
  <2>q. QED BY <2>1, <2>2 DEF Filed
<1>3. HistoryOK
  <2> SUFFICES ASSUME NEW e \in Events
               PROVE  born[e] <= clock /\ EntryOK(e, file[e])
    BY DEF HistoryOK
  <2>1. clock = 0 /\ refusals[e] = 0
    BY DEF Init
  <2>2. born[e] = -1 \/ born[e] = 0
    BY <1>2, Zenon
  <2>3. born[e] <= clock
    BY <2>1, <2>2
  <2>4. EntryOK(e, file[e])
    <3>1. CASE file[e] = NoFile
      BY <3>1 DEF EntryOK
    <3>2. CASE file[e] = LegacyEntry /\ file[e] # NoFile
      <4>1. born[e] = 0 /\ e \in spoiled
        BY <1>2, <3>2
      <4>2. file[e].attempts = 0 /\ file[e].first = 0
        BY <3>2 DEF LegacyEntry
      <4>q. QED BY <4>1, <4>2, <2>1 DEF EntryOK
    <3>q. QED BY <1>2, <3>1, <3>2
  <2>q. QED BY <2>3, <2>4
<1>4. LossHasCause
  BY <1>2 DEF LossHasCause, Lost
<1>5. \A p \in Procs : LoopOK(p)
  BY
    DEF Init, LoopOK, MemoryOK, ControlOK, NamesOK, AnswersOK, EntryOK, NoBatch
<1>q. QED BY <1>3, <1>4, <1>5 DEF QueueInv

(* The inductive invariant that every removal rests on: see EventQueue.    *)
THEOREM QueueInvariance == Spec => []QueueInv
<1>1. TypeOK /\ QueueInv /\ [Next]_vars => (TypeOK /\ QueueInv)'
  BY StepTyped, HistoryGrows, QueueInvStep
<1>q. QED BY <1>1, InitTyped, QueueInvInit, PTL DEF Spec

(* An event that was queued disappears undelivered only with a cause: its  *)
(* age, maxAttempts refusals, an overfull queue, or a file that could not  *)
(* be read; whatever enqueues, drains, sweeps, crashes and broken locks    *)
(* interleave.                                                             *)
THEOREM LossJustified == Spec => []LossHasCause
BY QueueInvariance, PTL DEF QueueInv

(* No entry on disk has been charged more attempts than its event was      *)
(* refused: what was not an answer from the backend spends none.           *)
THEOREM NotOvercharged == Spec => []NeverOvercharged
<1>1. TypeOK /\ QueueInv => NeverOvercharged
  BY DEF QueueInv, HistoryOK, EntryOK, NeverOvercharged, Filed
<1>q. QED BY <1>1, TypeCorrect, QueueInvariance, PTL

-----------------------------------------------------------------------------
(* The drain lock: only a drain past collectDue has entries in memory, and *)
(* while no lock was broken at most one process is draining.               *)
Holding == {"collect", "clear", "fail", "probe", "probe-clear", "probe-fail"}

DrainInv ==
    /\ \A p \in Procs : Batch(p) # {} => pc[p] \in Holding
    /\ \A p \in Procs : pc[p] \in Holding => draining[p]
    /\ ~broken => /\ \A p, q \in Procs : draining[p] /\ draining[q] => p = q
                  /\ (\E p \in Procs : draining[p]) => present

LEMMA DrainInvStep == TypeOK /\ DrainInv /\ [Next]_vars => DrainInv'
<1> SUFFICES ASSUME TypeOK, DrainInv, [Next]_vars
             PROVE  DrainInv'
  OBVIOUS
<1> USE Typed DEF Goto, Done, Handled, CountDrop, local, history, lock
<1>keep. ASSUME lock' = lock, draining' = draining, NEW p \in Procs,
                \A q \in Procs \ {p} : pc'[q] = pc[q] /\ mem'[q] = mem[q],
                Batch(p)' # {} => pc'[p] \in Holding,
                pc'[p] \in Holding => draining[p]
         PROVE  DrainInv'
  <2>1. \A q \in Procs \ {p} : Batch(q)' = Batch(q)
    BY <1>keep DEF Batch
  <2>q. QED BY <1>keep, <2>1 DEF DrainInv
<1>1. ASSUME NEW p \in Procs, NEW events \in SUBSET Events, Enqueue(p, events)
      PROVE  DrainInv'
  <2>1. /\ lock' = lock /\ draining' = draining
        /\ \A q \in Procs \ {p} : pc'[q] = pc[q] /\ mem'[q] = mem[q]
    BY <1>1 DEF Enqueue, LoopTyped, DiskTyped
  <2>2. Batch(p)' \subseteq Batch(p)
    BY <1>1 DEF Enqueue, Batch, DiskTyped
  <2>3. Batch(p)' # {} => pc'[p] \in Holding
    BY <1>1, <2>2 DEF Enqueue, LoopTyped, DrainInv, Holding
  <2>4. pc'[p] \in Holding => draining[p]
    BY <1>1 DEF Enqueue, LoopTyped, DrainInv, Holding
  <2>q. QED BY <2>1, <2>3, <2>4, <1>keep
<1>2. ASSUME NEW p \in Procs, NEW e \in Events, EnqueueExists(p, e)
      PROVE  DrainInv'
  <2>1. /\ lock' = lock /\ draining' = draining
        /\ \A q \in Procs \ {p} : pc'[q] = pc[q] /\ mem'[q] = mem[q]
    BY <1>2 DEF EnqueueExists, LoopTyped, DiskTyped
  <2>2. Batch(p)' \subseteq Batch(p)
    BY <1>2 DEF EnqueueExists, Batch, DiskTyped
  <2>3. Batch(p)' # {} => pc'[p] \in Holding
    BY <1>2, <2>2 DEF EnqueueExists, LoopTyped, DrainInv, Holding
  <2>4. pc'[p] \in Holding => draining[p]
    BY <1>2 DEF EnqueueExists, LoopTyped, DrainInv, Holding
  <2>q. QED BY <2>1, <2>3, <2>4, <1>keep
<1>3. ASSUME NEW p \in Procs, EnqueueWrite(p)
      PROVE  DrainInv'
  <2>1. /\ lock' = lock /\ draining' = draining
        /\ \A q \in Procs \ {p} : pc'[q] = pc[q] /\ mem'[q] = mem[q]
    BY <1>3 DEF EnqueueWrite, LoopTyped, DiskTyped
  <2>2. Batch(p)' \subseteq Batch(p)
    BY <1>3 DEF EnqueueWrite, Batch, DiskTyped
  <2>3. Batch(p)' # {} => pc'[p] \in Holding
    BY <1>3, <2>2 DEF EnqueueWrite, LoopTyped, DrainInv, Holding
  <2>4. pc'[p] \in Holding => draining[p]
    BY <1>3 DEF EnqueueWrite, LoopTyped, DrainInv, Holding
  <2>q. QED BY <2>1, <2>3, <2>4, <1>keep
<1>4. ASSUME NEW p \in Procs, BoundList(p)
      PROVE  DrainInv'
  <2>1. /\ lock' = lock /\ draining' = draining
        /\ \A q \in Procs \ {p} : pc'[q] = pc[q] /\ mem'[q] = mem[q]
    BY <1>4 DEF BoundList, LoopTyped, DiskTyped
  <2>2. Batch(p)' \subseteq Batch(p)
    BY <1>4 DEF BoundList, Batch, DiskTyped
  <2>3. Batch(p)' # {} => pc'[p] \in Holding
    BY <1>4, <2>2 DEF BoundList, LoopTyped, DrainInv, Holding
  <2>4. pc'[p] \in Holding => draining[p]
    BY <1>4 DEF BoundList, LoopTyped, DrainInv, Holding
  <2>q. QED BY <2>1, <2>3, <2>4, <1>keep
<1>5. ASSUME NEW p \in Procs, BoundDate(p)
      PROVE  DrainInv'
  <2>1. /\ lock' = lock /\ draining' = draining
        /\ \A q \in Procs \ {p} : pc'[q] = pc[q] /\ mem'[q] = mem[q]
    BY <1>5 DEF BoundDate, LoopTyped, DiskTyped
  <2>2. Batch(p)' \subseteq Batch(p)
    BY <1>5 DEF BoundDate, Batch, DiskTyped
  <2>3. Batch(p)' # {} => pc'[p] \in Holding
    BY <1>5, <2>2 DEF BoundDate, LoopTyped, DrainInv, Holding
  <2>4. pc'[p] \in Holding => draining[p]
    BY <1>5 DEF BoundDate, LoopTyped, DrainInv, Holding
  <2>q. QED BY <2>1, <2>3, <2>4, <1>keep
<1>6. ASSUME NEW p \in Procs, NEW e \in Events, BoundEvict(p, e)
      PROVE  DrainInv'
  <2>1. /\ lock' = lock /\ draining' = draining
        /\ \A q \in Procs \ {p} : pc'[q] = pc[q] /\ mem'[q] = mem[q]
    BY <1>6 DEF BoundEvict, LoopTyped, DiskTyped
  <2>2. Batch(p)' \subseteq Batch(p)
    BY <1>6 DEF BoundEvict, Batch, DiskTyped
  <2>3. Batch(p)' # {} => pc'[p] \in Holding
    BY <1>6, <2>2 DEF BoundEvict, LoopTyped, DrainInv, Holding
  <2>4. pc'[p] \in Holding => draining[p]
    BY <1>6 DEF BoundEvict, LoopTyped, DrainInv, Holding
  <2>q. QED BY <2>1, <2>3, <2>4, <1>keep
<1>7. ASSUME NEW p \in Procs, Drain(p)
      PROVE  DrainInv'
  <2>1. mem' = mem
    BY <1>7 DEF Drain
  <2>2. \A q \in Procs : Batch(q)' # {} => Batch(q) # {}
    BY <2>1 DEF Batch
  <2>3. /\ draining' = [draining EXCEPT ![p] = TRUE] /\ ~present /\ present' /\ broken' = broken
        /\ pc' = [pc EXCEPT ![p] = "claim"] /\ pc[p] = "idle"
    BY <1>7 DEF Drain, Lock!Acquire
  <2>4. \A q \in Procs : /\ Batch(q)' # {} => pc'[q] \in Holding
                         /\ pc'[q] \in Holding => draining'[q]
    BY <2>2, <2>3 DEF DrainInv, LockTyped, LoopTyped, Holding
  <2>5. ~broken' => /\ \A q, r \in Procs : draining'[q] /\ draining'[r] => q = r
                    /\ (\E q \in Procs : draining'[q]) => present'
    BY <2>3 DEF DrainInv, LockTyped
  <2>q. QED BY <2>4, <2>5 DEF DrainInv
<1>8. ASSUME NEW p \in Procs, Sweep(p)
      PROVE  DrainInv'
  <2>1. /\ lock' = lock /\ draining' = draining
        /\ \A q \in Procs \ {p} : pc'[q] = pc[q] /\ mem'[q] = mem[q]
    BY <1>8 DEF Sweep, LoopTyped, DiskTyped
  <2>2. Batch(p)' \subseteq Batch(p)
    BY <1>8 DEF Sweep, Batch, DiskTyped
  <2>3. Batch(p)' # {} => pc'[p] \in Holding
    BY <1>8, <2>2 DEF Sweep, LoopTyped, DrainInv, Holding
  <2>4. pc'[p] \in Holding => draining[p]
    BY <1>8 DEF Sweep, LoopTyped, DrainInv, Holding
  <2>q. QED BY <2>1, <2>3, <2>4, <1>keep
<1>9. ASSUME NEW p \in Procs, ClaimStat(p)
      PROVE  DrainInv'
  <2>1. /\ lock' = lock /\ draining' = draining
        /\ \A q \in Procs \ {p} : pc'[q] = pc[q] /\ mem'[q] = mem[q]
    BY <1>9 DEF ClaimStat, LoopTyped, DiskTyped
  <2>2. Batch(p)' \subseteq Batch(p)
    BY <1>9 DEF ClaimStat, Batch, DiskTyped
  <2>3. Batch(p)' # {} => pc'[p] \in Holding
    BY <1>9, <2>2 DEF ClaimStat, LoopTyped, DrainInv, Holding
  <2>4. pc'[p] \in Holding => draining[p]
    BY <1>9 DEF ClaimStat, LoopTyped, DrainInv, Holding
  <2>q. QED BY <2>1, <2>3, <2>4, <1>keep
<1>10. ASSUME NEW p \in Procs, ClaimStamp(p)
      PROVE  DrainInv'
  <2>1. /\ lock' = lock /\ draining' = draining
        /\ \A q \in Procs \ {p} : pc'[q] = pc[q] /\ mem'[q] = mem[q]
    BY <1>10 DEF ClaimStamp, LoopTyped, DiskTyped
  <2>2. Batch(p)' \subseteq Batch(p)
    BY <1>10 DEF ClaimStamp, Batch, DiskTyped
  <2>3. Batch(p)' # {} => pc'[p] \in Holding
    BY <1>10, <2>2 DEF ClaimStamp, LoopTyped, DrainInv, Holding
  <2>4. pc'[p] \in Holding => draining[p]
    BY <1>10 DEF ClaimStamp, LoopTyped, DrainInv, Holding
  <2>q. QED BY <2>1, <2>3, <2>4, <1>keep
<1>11. ASSUME NEW p \in Procs, CollectList(p)
      PROVE  DrainInv'
  <2>1. /\ lock' = lock /\ draining' = draining
        /\ \A q \in Procs \ {p} : pc'[q] = pc[q] /\ mem'[q] = mem[q]
    BY <1>11 DEF CollectList, LoopDone, LoopTyped, DiskTyped
  <2>2. Batch(p)' \subseteq Batch(p)
    BY <1>11 DEF CollectList, LoopDone, Batch, DiskTyped
  <2>3. Batch(p)' # {} => pc'[p] \in Holding
    BY <1>11, <2>2 DEF CollectList, LoopDone, LoopTyped, DrainInv, Holding
  <2>4. pc'[p] \in Holding => draining[p]
    BY <1>11 DEF CollectList, LoopDone, LoopTyped, DrainInv, Holding
  <2>q. QED BY <2>1, <2>3, <2>4, <1>keep
<1>12. ASSUME NEW p \in Procs, NEW e \in Events, ReadEntry(p, e)
      PROVE  DrainInv'
  <2>1. /\ lock' = lock /\ draining' = draining
        /\ \A q \in Procs \ {p} : pc'[q] = pc[q] /\ mem'[q] = mem[q]
    BY <1>12 DEF ReadEntry, LoopTyped, DiskTyped
  <2>2. pc' = pc /\ (mem' = mem \/ pc[p] = "collect")
    BY <1>12 DEF ReadEntry
  <2>3. Batch(p)' # {} => Batch(p) # {} \/ pc[p] = "collect"
    BY <2>2 DEF Batch
  <2>q. QED BY <2>1, <2>2, <2>3, <1>keep DEF DrainInv, Holding
<1>13. ASSUME NEW p \in Procs, RemoveUnsendable(p)
      PROVE  DrainInv'
  <2>1. /\ lock' = lock /\ draining' = draining
        /\ \A q \in Procs \ {p} : pc'[q] = pc[q] /\ mem'[q] = mem[q]
    BY <1>13 DEF RemoveUnsendable, LoopTyped, DiskTyped
  <2>2. Batch(p)' \subseteq Batch(p)
    BY <1>13 DEF RemoveUnsendable, Batch, DiskTyped
  <2>3. Batch(p)' # {} => pc'[p] \in Holding
    BY <1>13, <2>2 DEF RemoveUnsendable, LoopTyped, DrainInv, Holding
  <2>4. pc'[p] \in Holding => draining[p]
    BY <1>13 DEF RemoveUnsendable, LoopTyped, DrainInv, Holding
  <2>q. QED BY <2>1, <2>3, <2>4, <1>keep
<1>14. ASSUME NEW p \in Procs, SendAccepted(p)
      PROVE  DrainInv'
  <2>1. /\ lock' = lock /\ draining' = draining
        /\ \A q \in Procs \ {p} : pc'[q] = pc[q] /\ mem'[q] = mem[q]
    BY <1>14 DEF SendAccepted, Sending, LoopDone, LoopTyped, DiskTyped
  <2>2. Batch(p)' \subseteq Batch(p)
    BY <1>14 DEF SendAccepted, Sending, LoopDone, Batch, DiskTyped
  <2>3. Batch(p)' # {} => pc'[p] \in Holding
    BY <1>14, <2>2
      DEF SendAccepted, Sending, LoopDone, LoopTyped, DrainInv, Holding
  <2>4. pc'[p] \in Holding => draining[p]
    BY <1>14 DEF SendAccepted, Sending, LoopDone, LoopTyped, DrainInv, Holding
  <2>q. QED BY <2>1, <2>3, <2>4, <1>keep
<1>15. ASSUME NEW p \in Procs, SendUncharged(p)
      PROVE  DrainInv'
  <2>1. /\ lock' = lock /\ draining' = draining
        /\ \A q \in Procs \ {p} : pc'[q] = pc[q] /\ mem'[q] = mem[q]
    BY <1>15 DEF SendUncharged, Sending, LoopDone, LoopTyped, DiskTyped
  <2>2. Batch(p)' = {}
    BY <1>15 DEF SendUncharged, Sending, LoopDone, Batch, DiskTyped, NoBatch
  <2>3. Batch(p)' # {} => pc'[p] \in Holding
    BY <1>15, <2>2
      DEF SendUncharged, Sending, LoopDone, LoopTyped, DrainInv, Holding
  <2>4. pc'[p] \in Holding => draining[p]
    BY <1>15 DEF SendUncharged, Sending, LoopDone, LoopTyped, DrainInv, Holding
  <2>q. QED BY <2>1, <2>3, <2>4, <1>keep
<1>16. ASSUME NEW p \in Procs, SendFailed(p)
      PROVE  DrainInv'
  <2>1. /\ lock' = lock /\ draining' = draining
        /\ \A q \in Procs \ {p} : pc'[q] = pc[q] /\ mem'[q] = mem[q]
    BY <1>16 DEF SendFailed, Sending, LoopDone, LoopTyped, DiskTyped
  <2>2. Batch(p)' \subseteq Batch(p)
    BY <1>16 DEF SendFailed, Sending, LoopDone, Batch, DiskTyped
  <2>3. Batch(p)' # {} => pc'[p] \in Holding
    BY <1>16, <2>2
      DEF SendFailed, Sending, LoopDone, LoopTyped, DrainInv, Holding
  <2>4. pc'[p] \in Holding => draining[p]
    BY <1>16 DEF SendFailed, Sending, LoopDone, LoopTyped, DrainInv, Holding
  <2>q. QED BY <2>1, <2>3, <2>4, <1>keep
<1>17. ASSUME NEW p \in Procs, SendRefused(p)
      PROVE  DrainInv'
  <2>1. /\ lock' = lock /\ draining' = draining
        /\ \A q \in Procs \ {p} : pc'[q] = pc[q] /\ mem'[q] = mem[q]
    BY <1>17 DEF SendRefused, Sending, LoopDone, LoopTyped, DiskTyped
  <2>2. Batch(p)' \subseteq Batch(p)
    BY <1>17 DEF SendRefused, Sending, LoopDone, Batch, DiskTyped
  <2>3. Batch(p)' # {} => pc'[p] \in Holding
    BY <1>17, <2>2
      DEF SendRefused, Sending, LoopDone, LoopTyped, DrainInv, Holding
  <2>4. pc'[p] \in Holding => draining[p]
    BY <1>17 DEF SendRefused, Sending, LoopDone, LoopTyped, DrainInv, Holding
  <2>q. QED BY <2>1, <2>3, <2>4, <1>keep
<1>18. ASSUME NEW p \in Procs, NEW e \in Events, ClearSent(p, e)
      PROVE  DrainInv'
  <2>1. /\ lock' = lock /\ draining' = draining
        /\ \A q \in Procs \ {p} : pc'[q] = pc[q] /\ mem'[q] = mem[q]
    BY <1>18 DEF ClearSent, LoopTyped, DiskTyped
  <2>2. Batch(p)' \subseteq Batch(p)
    BY <1>18 DEF ClearSent, Batch, DiskTyped
  <2>3. Batch(p)' # {} => pc'[p] \in Holding
    BY <1>18, <2>2 DEF ClearSent, LoopTyped, DrainInv, Holding
  <2>4. pc'[p] \in Holding => draining[p]
    BY <1>18 DEF ClearSent, LoopTyped, DrainInv, Holding
  <2>q. QED BY <2>1, <2>3, <2>4, <1>keep
<1>19. ASSUME NEW p \in Procs, NEW e \in Events, ProbeAccepted(p, e)
      PROVE  DrainInv'
  <2>1. /\ lock' = lock /\ draining' = draining
        /\ \A q \in Procs \ {p} : pc'[q] = pc[q] /\ mem'[q] = mem[q]
    BY <1>19 DEF ProbeAccepted, Probing, LoopTyped, DiskTyped
  <2>2. Batch(p)' \subseteq Batch(p)
    BY <1>19 DEF ProbeAccepted, Probing, Batch, DiskTyped
  <2>3. Batch(p)' # {} => pc'[p] \in Holding
    BY <1>19, <2>2 DEF ProbeAccepted, Probing, LoopTyped, DrainInv, Holding
  <2>4. pc'[p] \in Holding => draining[p]
    BY <1>19 DEF ProbeAccepted, Probing, LoopTyped, DrainInv, Holding
  <2>q. QED BY <2>1, <2>3, <2>4, <1>keep
<1>20. ASSUME NEW p \in Procs, NEW e \in Events, ProbeUncharged(p, e)
      PROVE  DrainInv'
  <2>1. /\ lock' = lock /\ draining' = draining
        /\ \A q \in Procs \ {p} : pc'[q] = pc[q] /\ mem'[q] = mem[q]
    BY <1>20 DEF ProbeUncharged, Probing, LoopTyped, DiskTyped
  <2>2. Batch(p)' = {}
    BY <1>20 DEF ProbeUncharged, Probing, Batch, DiskTyped, NoBatch
  <2>3. Batch(p)' # {} => pc'[p] \in Holding
    BY <1>20, <2>2 DEF ProbeUncharged, Probing, LoopTyped, DrainInv, Holding
  <2>4. pc'[p] \in Holding => draining[p]
    BY <1>20 DEF ProbeUncharged, Probing, LoopTyped, DrainInv, Holding
  <2>q. QED BY <2>1, <2>3, <2>4, <1>keep
<1>21. ASSUME NEW p \in Procs, NEW e \in Events, ProbeFailed(p, e)
      PROVE  DrainInv'
  <2>1. /\ lock' = lock /\ draining' = draining
        /\ \A q \in Procs \ {p} : pc'[q] = pc[q] /\ mem'[q] = mem[q]
    BY <1>21 DEF ProbeFailed, Probing, LoopTyped, DiskTyped
  <2>2. Batch(p)' \subseteq Batch(p)
    BY <1>21 DEF ProbeFailed, Probing, Batch, DiskTyped
  <2>3. Batch(p)' # {} => pc'[p] \in Holding
    BY <1>21, <2>2 DEF ProbeFailed, Probing, LoopTyped, DrainInv, Holding
  <2>4. pc'[p] \in Holding => draining[p]
    BY <1>21 DEF ProbeFailed, Probing, LoopTyped, DrainInv, Holding
  <2>q. QED BY <2>1, <2>3, <2>4, <1>keep
<1>22. ASSUME NEW p \in Procs, ProbeClear(p)
      PROVE  DrainInv'
  <2>1. /\ lock' = lock /\ draining' = draining
        /\ \A q \in Procs \ {p} : pc'[q] = pc[q] /\ mem'[q] = mem[q]
    BY <1>22 DEF ProbeClear, LoopTyped, DiskTyped
  <2>2. Batch(p)' \subseteq Batch(p)
    BY <1>22 DEF ProbeClear, Batch, DiskTyped
  <2>3. Batch(p)' # {} => pc'[p] \in Holding
    BY <1>22, <2>2 DEF ProbeClear, LoopTyped, DrainInv, Holding
  <2>4. pc'[p] \in Holding => draining[p]
    BY <1>22 DEF ProbeClear, LoopTyped, DrainInv, Holding
  <2>q. QED BY <2>1, <2>3, <2>4, <1>keep
<1>23. ASSUME NEW p \in Procs, NEW e \in Events, RecordFailure(p, e)
      PROVE  DrainInv'
  <2>1. /\ lock' = lock /\ draining' = draining
        /\ \A q \in Procs \ {p} : pc'[q] = pc[q] /\ mem'[q] = mem[q]
    BY <1>23 DEF RecordFailure, LoopTyped, DiskTyped
  <2>2. Batch(p)' \subseteq Batch(p)
    BY <1>23 DEF RecordFailure, Batch, DiskTyped
  <2>3. Batch(p)' # {} => pc'[p] \in Holding
    BY <1>23, <2>2 DEF RecordFailure, LoopTyped, DrainInv, Holding
  <2>4. pc'[p] \in Holding => draining[p]
    BY <1>23 DEF RecordFailure, LoopTyped, DrainInv, Holding
  <2>q. QED BY <2>1, <2>3, <2>4, <1>keep
<1>24. ASSUME NEW p \in Procs, Report(p)
      PROVE  DrainInv'
  <2>1. /\ lock' = lock /\ draining' = draining
        /\ \A q \in Procs \ {p} : pc'[q] = pc[q] /\ mem'[q] = mem[q]
    BY <1>24 DEF Report, LoopTyped, DiskTyped
  <2>2. Batch(p)' \subseteq Batch(p)
    BY <1>24 DEF Report, Batch, DiskTyped
  <2>3. Batch(p)' # {} => pc'[p] \in Holding
    BY <1>24, <2>2 DEF Report, PassDone, LoopDone, LoopTyped, DrainInv, Holding
  <2>4. pc'[p] \in Holding => draining[p]
    BY <1>24 DEF Report, LoopTyped, DrainInv, Holding
  <2>q. QED BY <2>1, <2>3, <2>4, <1>keep
<1>25. ASSUME NEW p \in Procs, Release(p)
      PROVE  DrainInv'
  <2>1. mem' = mem
    BY <1>25 DEF Release
  <2>2. \A q \in Procs : Batch(q)' # {} => Batch(q) # {}
    BY <2>1 DEF Batch
  <2>3. /\ draining' = [draining EXCEPT ![p] = FALSE] /\ broken' = broken
        /\ pc' = [pc EXCEPT ![p] = "idle"] /\ pc[p] = "release" /\ draining[p]
    BY <1>25 DEF Release, Lock!Release, Drainers
  <2>4. \A q \in Procs : /\ Batch(q)' # {} => pc'[q] \in Holding
                         /\ pc'[q] \in Holding => draining'[q]
    BY <2>2, <2>3 DEF DrainInv, LockTyped, LoopTyped, Holding
  <2>5. ~broken' => /\ \A q, r \in Procs : draining'[q] /\ draining'[r] => q = r
                    /\ (\E q \in Procs : draining'[q]) => present'
    BY <2>3 DEF DrainInv, LockTyped
  <2>q. QED BY <2>4, <2>5 DEF DrainInv
<1>26. ASSUME NEW p \in Procs, Crash(p)
      PROVE  DrainInv'
  <2>1. mem' = [mem EXCEPT ![p] = NoBatch]
    BY <1>26 DEF Crash
  <2>2. \A q \in Procs : Batch(q)' # {} => Batch(q) # {} /\ q # p
    BY <2>1 DEF Batch, NoBatch, DiskTyped
  <2>3. /\ draining' = [draining EXCEPT ![p] = FALSE] /\ broken' = broken /\ present' = present
        /\ pc' = [pc EXCEPT ![p] = "idle"]
    BY <1>26 DEF Crash
  <2>4. \A q \in Procs : /\ Batch(q)' # {} => pc'[q] \in Holding
                         /\ pc'[q] \in Holding => draining'[q]
    BY <2>2, <2>3 DEF DrainInv, LockTyped, LoopTyped, Holding
  <2>5. ~broken' => /\ \A q, r \in Procs : draining'[q] /\ draining'[r] => q = r
                    /\ (\E q \in Procs : draining'[q]) => present'
    BY <2>3 DEF DrainInv, LockTyped
  <2>q. QED BY <2>4, <2>5 DEF DrainInv
<1>27. CASE Tick
  BY <1>27 DEF Tick, DrainInv, Batch
<1>28. CASE BreakLock
  <2>1. mem' = mem /\ pc' = pc /\ draining' = draining /\ broken'
    BY <1>28 DEF BreakLock, Lock!Break
  <2>2. \A p \in Procs : Batch(p)' = Batch(p)
    BY <2>1 DEF Batch
  <2>q. QED BY <2>1, <2>2 DEF DrainInv
<1>29. CASE UNCHANGED vars
  BY <1>29 DEF vars, DrainInv, Batch
<1>q. QED
  BY <1>1, <1>2, <1>3, <1>4, <1>5, <1>6, <1>7, <1>8, <1>9, <1>10, <1>11,
       <1>12, <1>13, <1>14, <1>15, <1>16, <1>17, <1>18, <1>19, <1>20, <1>21,
        <1>22, <1>23, <1>24, <1>25, <1>26, <1>27, <1>28, <1>29
  DEF Next, Continue

(* Unless the drain lock was broken, an event is in one drain's hands at a *)
(* time (drain, queue.ts:128-152).                                         *)
THEOREM OneDrain == Spec => []OneDrainPerEvent
<1>1. Init => DrainInv
  BY DEF Init, DrainInv, Batch, NoBatch, Holding
<1>2. DrainInv => OneDrainPerEvent
  BY DEF DrainInv, OneDrainPerEvent
<1>q. QED BY <1>1, <1>2, DrainInvStep, TypeCorrect, PTL DEF Spec

-----------------------------------------------------------------------------
(* Losses and the counter.  A drop that a pass has counted and not yet     *)
(* reported is a pair in Dropped.                                          *)
LostEvents == {e \in Events : Lost(e)}
CountInv == IsFiniteSet(Dropped) /\ LossIsCounted

LEMMA LostFinite ==
    IsFiniteSet(LostEvents) /\ IsFiniteSet(LostEvents') /\ LostEvents \subseteq Events /\ LostEvents' \subseteq Events
BY FS_Subset, QueueAssumption DEF LostEvents

(* A pass counts one more.                                                 *)
LEMMA DropCounted ==
    ASSUME drops \in [Procs -> Nat], NEW p \in Procs, CountDrop(p), IsFiniteSet(Dropped)
    PROVE  IsFiniteSet(Dropped') /\ Cardinality(Dropped') = Cardinality(Dropped) + 1
<1> DEFINE new == <<p, drops[p] + 1>>
<1>1. \A q \in Procs : drops'[q] = IF q = p THEN drops[p] + 1 ELSE drops[q]
  BY DEF CountDrop
<1>2. ASSUME NEW q \in Procs, NEW i \in Nat
      PROVE  <<q, i>> \in Dropped' <=> <<q, i>> \in Dropped \/ <<q, i>> = new
  BY <1>1 DEF Dropped
<1>3. Dropped' = Dropped \union {new}
  <2>1. /\ \A x \in Dropped : \E q \in Procs, i \in Nat : x = <<q, i>>
        /\ \A x \in Dropped' : \E q \in Procs, i \in Nat : x = <<q, i>>
    BY <1>1 DEF Dropped
  <2>2. new = <<p, drops[p] + 1>> /\ drops[p] + 1 \in Nat
    OBVIOUS
  <2> HIDE DEF new
  <2>3. \A x \in Dropped : x \in Dropped'
    BY <1>2, <2>1
  <2>4. \A x \in Dropped' : x \in Dropped \/ x = new
    BY <1>2, <2>1
  <2>5. new \in Dropped'
    BY <1>2, <2>2
  <2>q. QED BY <2>3, <2>4, <2>5
<1>4. new \notin Dropped
  BY DEF Dropped
<1>q. QED BY <1>3, <1>4, FS_AddElement

(* A pass reports what it counted, or dies with it.                        *)
LEMMA DropsSettled ==
    ASSUME drops \in [Procs -> Nat], NEW p \in Procs, drops' = [drops EXCEPT ![p] = 0], IsFiniteSet(Dropped)
    PROVE  IsFiniteSet(Dropped') /\ Cardinality(Dropped) = Cardinality(Dropped') + drops[p]
<1> DEFINE own == {p} \X (1..drops[p])
<1>1. \A q \in Procs : drops'[q] = IF q = p THEN 0 ELSE drops[q]
  OBVIOUS
<1>2. Dropped = Dropped' \union own /\ Dropped' \intersect own = {}
  BY <1>1 DEF Dropped
<1>3. IsFiniteSet(own) /\ Cardinality(own) = drops[p]
  <2>1. IsFiniteSet({p}) /\ Cardinality({p}) = 1
    BY FS_Singleton
  <2>2. IsFiniteSet(1..drops[p]) /\ Cardinality(1..drops[p]) = drops[p]
    BY FS_Interval
  <2>3. \A T : IsFiniteSet(T) =>
            IsFiniteSet({p} \X T) /\ Cardinality({p} \X T) = Cardinality({p}) * Cardinality(T)
    BY <2>1, FS_Product
  <2>4. IsFiniteSet(own) /\ Cardinality(own) = Cardinality({p}) * Cardinality(1..drops[p])
    BY <2>2, <2>3
  <2>q. QED BY <2>1, <2>2, <2>4
<1>4. IsFiniteSet(Dropped')
  BY <1>2, FS_Subset
<1>5. Cardinality(Dropped) = Cardinality(Dropped') + Cardinality(own) - Cardinality({})
  BY <1>2, <1>3, <1>4, FS_Union
<1>q. QED BY <1>3, <1>4, <1>5, FS_EmptySet, FS_CardinalityType

(* What a step can lose.                                                   *)
LEMMA NoneLost ==
    ASSUME Grows, file' = file, born' = born
    PROVE  LostEvents' \subseteq LostEvents
BY DEF LostEvents, Lost, Grows

LEMMA OneLost ==
    ASSUME TypeOK, Grows, born' = born, NEW e \in Events, Remove(e)
    PROVE  /\ LostEvents' \subseteq LostEvents \union {e}
           /\ e \in accepted' => LostEvents' \subseteq LostEvents
BY DEF LostEvents, Lost, Grows, Remove, TypeOK

LEMMA NoneLostByWriting ==
    ASSUME TypeOK, Grows, NEW e \in Events, NEW entry \in Entry, file' = [file EXCEPT ![e] = entry],
           \A d \in Events : d # e => born'[d] = born[d]
    PROVE  LostEvents' \subseteq LostEvents
BY NoFileAssumption DEF LostEvents, Lost, Grows, TypeOK

(* A step that loses no event, and changes no counter.                     *)
LEMMA NothingLostCounts ==
    ASSUME CountInv, UNCHANGED <<drops, tally, uncounted>>, LostEvents' \subseteq LostEvents, CountTyped
    PROVE  CountInv'
<1>1. Cardinality(LostEvents') <= Cardinality(LostEvents)
  BY LostFinite, FS_Subset
<1>2. Dropped' = Dropped
  BY DEF Dropped
<1>3. Cardinality(LostEvents) \in Nat /\ Cardinality(LostEvents') \in Nat /\ Cardinality(Dropped) \in Nat
  BY LostFinite, FS_CardinalityType DEF CountInv
<1>q. QED BY <1>1, <1>2, <1>3 DEF CountInv, LossIsCounted, Unreported, LostEvents, CountTyped

(* A step that loses one event at the most, and counts it.                 *)
LEMMA LossCounts ==
    ASSUME CountInv, TypeOK, NEW p \in Procs, CountDrop(p), UNCHANGED <<tally, uncounted>>,
           NEW e, LostEvents' \subseteq LostEvents \union {e}
    PROVE  CountInv'
<1>1. IsFiniteSet(Dropped') /\ Cardinality(Dropped') = Cardinality(Dropped) + 1
  BY DropCounted DEF CountInv, TypeOK
<1>2. Cardinality(LostEvents') <= Cardinality(LostEvents) + 1
  <2>1. /\ IsFiniteSet(LostEvents \union {e})
        /\ Cardinality(LostEvents \union {e}) <= Cardinality(LostEvents) + 1
    <3> DEFINE lost == LostEvents
    <3>1. IsFiniteSet(lost) /\ Cardinality(lost) \in Nat
      BY LostFinite, FS_CardinalityType
    <3> HIDE DEF lost
    <3>2. /\ IsFiniteSet(lost \union {e})
          /\ Cardinality(lost \union {e}) = IF e \in lost THEN Cardinality(lost) ELSE Cardinality(lost) + 1
      BY <3>1, FS_AddElement
    <3>q. QED BY <3>1, <3>2 DEF lost
  <2>2. Cardinality(LostEvents') <= Cardinality(LostEvents \union {e})
    BY <2>1, FS_Subset
  <2>q. QED BY <2>1, <2>2, LostFinite, FS_CardinalityType
<1>3. Cardinality(LostEvents) \in Nat /\ Cardinality(LostEvents') \in Nat /\ Cardinality(Dropped) \in Nat
  BY LostFinite, FS_CardinalityType DEF CountInv
<1>4. tally \in Nat /\ uncounted \in Nat
  BY DEF TypeOK
<1>q. QED BY <1>1, <1>2, <1>3, <1>4 DEF CountInv, LossIsCounted, Unreported, LostEvents

(* A pass that ends hands on what it counted.                              *)
LEMMA SettledCounts ==
    ASSUME CountInv, TypeOK, Grows, NEW p \in Procs, file' = file, born' = born,
           drops' = [drops EXCEPT ![p] = 0],
           \/ tally' = tally + drops[p] /\ uncounted' = uncounted
           \/ uncounted' = uncounted + drops[p] /\ tally' = tally
    PROVE  CountInv'
<1>1. IsFiniteSet(Dropped') /\ Cardinality(Dropped) = Cardinality(Dropped') + drops[p]
  BY DropsSettled DEF CountInv, TypeOK
<1>2. Cardinality(LostEvents') <= Cardinality(LostEvents)
  BY NoneLost, LostFinite, FS_Subset
<1>3. /\ Cardinality(LostEvents) \in Nat /\ Cardinality(LostEvents') \in Nat
      /\ Cardinality(Dropped) \in Nat /\ Cardinality(Dropped') \in Nat
  BY <1>1, LostFinite, FS_CardinalityType DEF CountInv
<1>4. tally \in Nat /\ uncounted \in Nat /\ drops[p] \in Nat
  BY DEF TypeOK
<1>q. QED BY <1>1, <1>2, <1>3, <1>4 DEF CountInv, LossIsCounted, Unreported, LostEvents

(* recordFailure gives the event up and counts it, or writes its entry      *)
(* again and counts nothing.                                               *)
LEMMA ChargeOutcome ==
    ASSUME DiskTyped, LoopTyped, NEW p \in Procs, NEW e \in Batch(p), Charge(p, e)
    PROVE  \/ Remove(e) /\ CountDrop(p)
           \/ /\ drops' = drops
              /\ \E entry \in Entry : file' = [file EXCEPT ![e] = entry]
<1> DEFINE attempts == mem[p][e].attempts + 1
           exhausted == attempts >= MaxAttempts
           backedOff(delay) == [mem[p][e] EXCEPT !.attempts = attempts, !.next = now[p] + delay]
<1>1. e \in Events /\ mem[p][e] \in Entry
  BY DEF DiskTyped, Batch
<1>2. /\ exhausted => Remove(e) /\ CountDrop(p)
      /\ ~exhausted => /\ drops' = drops
                       /\ \E delay \in Backoffs : file' = [file EXCEPT ![e] = backedOff(delay)]
  BY DEF Charge
<1>3. ASSUME NEW delay \in Backoffs, ~exhausted
      PROVE  backedOff(delay) \in Entry
  <2>1. attempts \in 0..(MaxAttempts - 1) /\ now[p] + delay \in Nat
    BY <1>1, <1>3, QueueAssumption DEF Entry, LoopTyped
  <2>q. QED BY <1>1, <2>1 DEF Entry
<1> HIDE DEF exhausted, backedOff
<1>4. CASE exhausted
  BY <1>2, <1>4
<1>5. CASE ~exhausted
  BY <1>2, <1>3, <1>5
<1>q. QED BY <1>4, <1>5

(* Every way to lose an event counts it, and what was counted reaches the  *)
(* counter or goes down with its process.                                  *)
LEMMA CountStep ==
    ASSUME TypeOK, TypeOK', Grows, QueueInv, CountInv, [Next]_vars
    PROVE  CountInv'
<1> USE Typed DEF history, local
<1>none. ASSUME file' = file, born' = born, UNCHANGED <<drops, tally, uncounted>>
         PROVE  CountInv'
  BY <1>none, NoneLost, NothingLostCounts
<1>1. ASSUME NEW p \in Procs, NEW events \in SUBSET Events, Enqueue(p, events)
     PROVE  CountInv'
  <2>1. file' = file /\ born' = born /\ UNCHANGED <<drops, tally, uncounted>>
    BY <1>1 DEF Enqueue
  <2>q. QED BY <2>1, <1>none
<1>2. ASSUME NEW p \in Procs, NEW e \in Events, EnqueueExists(p, e)
     PROVE  CountInv'
  <2>1. file' = file /\ born' = born /\ UNCHANGED <<drops, tally, uncounted>>
    BY <1>2 DEF EnqueueExists
  <2>q. QED BY <2>1, <1>none
<1>3. ASSUME NEW p \in Procs, BoundList(p)
     PROVE  CountInv'
  <2>1. file' = file /\ born' = born /\ UNCHANGED <<drops, tally, uncounted>>
    BY <1>3 DEF BoundList
  <2>q. QED BY <2>1, <1>none
<1>4. ASSUME NEW p \in Procs, BoundDate(p)
     PROVE  CountInv'
  <2>1. file' = file /\ born' = born /\ UNCHANGED <<drops, tally, uncounted>>
    BY <1>4 DEF BoundDate
  <2>q. QED BY <2>1, <1>none
<1>5. ASSUME NEW p \in Procs, Drain(p)
     PROVE  CountInv'
  <2>1. file' = file /\ born' = born /\ UNCHANGED <<drops, tally, uncounted>>
    BY <1>5 DEF Drain
  <2>q. QED BY <2>1, <1>none
<1>6. ASSUME NEW p \in Procs, Sweep(p)
     PROVE  CountInv'
  <2>1. file' = file /\ born' = born /\ UNCHANGED <<drops, tally, uncounted>>
    BY <1>6 DEF Sweep
  <2>q. QED BY <2>1, <1>none
<1>7. ASSUME NEW p \in Procs, ClaimStat(p)
     PROVE  CountInv'
  <2>1. file' = file /\ born' = born /\ UNCHANGED <<drops, tally, uncounted>>
    BY <1>7 DEF ClaimStat
  <2>q. QED BY <2>1, <1>none
<1>8. ASSUME NEW p \in Procs, ClaimStamp(p)
     PROVE  CountInv'
  <2>1. file' = file /\ born' = born /\ UNCHANGED <<drops, tally, uncounted>>
    BY <1>8 DEF ClaimStamp
  <2>q. QED BY <2>1, <1>none
<1>9. ASSUME NEW p \in Procs, CollectList(p)
     PROVE  CountInv'
  <2>1. file' = file /\ born' = born /\ UNCHANGED <<drops, tally, uncounted>>
    BY <1>9 DEF CollectList
  <2>q. QED BY <2>1, <1>none
<1>10. ASSUME NEW p \in Procs, NEW e \in Events, ReadEntry(p, e)
     PROVE  CountInv'
  <2>1. file' = file /\ born' = born /\ UNCHANGED <<drops, tally, uncounted>>
    BY <1>10 DEF ReadEntry
  <2>q. QED BY <2>1, <1>none
<1>11. ASSUME NEW p \in Procs, SendAccepted(p)
     PROVE  CountInv'
  <2>1. file' = file /\ born' = born /\ UNCHANGED <<drops, tally, uncounted>>
    BY <1>11 DEF SendAccepted
  <2>q. QED BY <2>1, <1>none
<1>12. ASSUME NEW p \in Procs, SendUncharged(p)
     PROVE  CountInv'
  <2>1. file' = file /\ born' = born /\ UNCHANGED <<drops, tally, uncounted>>
    BY <1>12 DEF SendUncharged
  <2>q. QED BY <2>1, <1>none
<1>13. ASSUME NEW p \in Procs, SendFailed(p)
     PROVE  CountInv'
  <2>1. file' = file /\ born' = born /\ UNCHANGED <<drops, tally, uncounted>>
    BY <1>13 DEF SendFailed
  <2>q. QED BY <2>1, <1>none
<1>14. ASSUME NEW p \in Procs, SendRefused(p)
     PROVE  CountInv'
  <2>1. file' = file /\ born' = born /\ UNCHANGED <<drops, tally, uncounted>>
    BY <1>14 DEF SendRefused
  <2>q. QED BY <2>1, <1>none
<1>15. ASSUME NEW p \in Procs, NEW e \in Events, ProbeAccepted(p, e)
     PROVE  CountInv'
  <2>1. file' = file /\ born' = born /\ UNCHANGED <<drops, tally, uncounted>>
    BY <1>15 DEF ProbeAccepted
  <2>q. QED BY <2>1, <1>none
<1>16. ASSUME NEW p \in Procs, NEW e \in Events, ProbeUncharged(p, e)
     PROVE  CountInv'
  <2>1. file' = file /\ born' = born /\ UNCHANGED <<drops, tally, uncounted>>
    BY <1>16 DEF ProbeUncharged
  <2>q. QED BY <2>1, <1>none
<1>17. ASSUME NEW p \in Procs, NEW e \in Events, ProbeFailed(p, e)
     PROVE  CountInv'
  <2>1. file' = file /\ born' = born /\ UNCHANGED <<drops, tally, uncounted>>
    BY <1>17 DEF ProbeFailed
  <2>q. QED BY <2>1, <1>none
<1>18. ASSUME NEW p \in Procs, Release(p)
     PROVE  CountInv'
  <2>1. file' = file /\ born' = born /\ UNCHANGED <<drops, tally, uncounted>>
    BY <1>18 DEF Release
  <2>q. QED BY <2>1, <1>none
<1>19. ASSUME NEW p \in Procs, EnqueueWrite(p)
     PROVE  CountInv'
  <2>1. cur[p] \in Events
    BY <1>19 DEF EnqueueWrite, LoopTyped
  <2>2. FreshEntry \in Entry
    BY FreshTyped DEF CountTyped
  <2>3. LostEvents' \subseteq LostEvents
    BY <1>19, <2>1, <2>2, NoneLostByWriting DEF EnqueueWrite, CountTyped
  <2>4. UNCHANGED <<drops, tally, uncounted>>
    BY <1>19 DEF EnqueueWrite
  <2>q. QED BY <2>3, <2>4, NothingLostCounts
<1>20. ASSUME NEW p \in Procs, NEW e \in Events, BoundEvict(p, e)
     PROVE  CountInv'
  <2>1. Remove(e) /\ born' = born /\ CountDrop(p) /\ UNCHANGED <<tally, uncounted>>
    BY <1>20 DEF BoundEvict
  <2>q. QED BY <2>1, OneLost, LossCounts
<1>21. ASSUME NEW p \in Procs, RemoveUnsendable(p)
     PROVE  CountInv'
  <2>1. cur[p] \in Events
    BY <1>21 DEF RemoveUnsendable, LoopTyped
  <2>2. Remove(cur[p]) /\ born' = born /\ CountDrop(p) /\ UNCHANGED <<tally, uncounted>>
    BY <1>21 DEF RemoveUnsendable
  <2>q. QED BY <2>1, <2>2, OneLost, LossCounts
<1>22. ASSUME NEW p \in Procs, NEW e \in Events, ClearSent(p, e)
     PROVE  CountInv'
  <2>1. e \in accepted'
    BY <1>22 DEF ClearSent, QueueInv, LoopOK, AnswersOK
  <2>2. Remove(e) /\ born' = born /\ UNCHANGED <<drops, tally, uncounted>>
    BY <1>22 DEF ClearSent
  <2>q. QED BY <2>1, <2>2, OneLost, NothingLostCounts
<1>23. ASSUME NEW p \in Procs, ProbeClear(p)
     PROVE  CountInv'
  <2>1. cur[p] \in accepted' /\ cur[p] \in Events
    BY <1>23 DEF ProbeClear, QueueInv, LoopOK, AnswersOK, CountTyped
  <2>2. Remove(cur[p]) /\ born' = born /\ UNCHANGED <<drops, tally, uncounted>>
    BY <1>23 DEF ProbeClear
  <2>q. QED BY <2>1, <2>2, OneLost, NothingLostCounts
<1>24. ASSUME NEW p \in Procs, NEW e \in Events, RecordFailure(p, e)
     PROVE  CountInv'
  <2>1. Charge(p, e) /\ born' = born /\ UNCHANGED <<tally, uncounted>>
    BY <1>24 DEF RecordFailure
  <2>2. e \in Batch(p)
    BY <1>24 DEF RecordFailure
  <2>3. \/ Remove(e) /\ CountDrop(p)
        \/ drops' = drops /\ \E entry \in Entry : file' = [file EXCEPT ![e] = entry]
    BY <2>1, <2>2, ChargeOutcome
  <2>4. ASSUME Remove(e), CountDrop(p)
        PROVE  CountInv'
    BY <2>1, <2>4, OneLost, LossCounts
  <2>5. ASSUME drops' = drops, NEW entry \in Entry, file' = [file EXCEPT ![e] = entry]
        PROVE  CountInv'
    BY <2>1, <2>5, NoneLostByWriting, NothingLostCounts
  <2>q. QED BY <2>3, <2>4, <2>5
<1>25. ASSUME NEW p \in Procs, Report(p)
     PROVE  CountInv'
  <2>1. file' = file /\ born' = born /\ drops' = [drops EXCEPT ![p] = 0]
    BY <1>25 DEF Report
  <2>2. tally' = tally + drops[p] /\ uncounted' = uncounted
    BY <1>25 DEF Report
  <2>q. QED BY <2>1, <2>2, SettledCounts
<1>26. ASSUME NEW p \in Procs, Crash(p)
     PROVE  CountInv'
  <2>1. file' = file /\ born' = born /\ drops' = [drops EXCEPT ![p] = 0]
    BY <1>26 DEF Crash
  <2>2. uncounted' = uncounted + drops[p] /\ tally' = tally
    BY <1>26 DEF Crash
  <2>q. QED BY <2>1, <2>2, SettledCounts
<1>27. CASE Tick
  BY <1>27, <1>none DEF Tick
<1>28. CASE BreakLock
  BY <1>28, <1>none DEF BreakLock
<1>29. CASE UNCHANGED vars
  BY <1>29, <1>none DEF vars
<1>q. QED
  BY <1>1, <1>2, <1>3, <1>4, <1>5, <1>6, <1>7, <1>8, <1>9, <1>10, <1>11, <1>12, <1>13,
     <1>14, <1>15, <1>16, <1>17, <1>18, <1>19, <1>20, <1>21, <1>22, <1>23, <1>24, <1>25,
     <1>26, <1>27, <1>28, <1>29
  DEF Next, Continue

(* Every event that is lost is counted: in totalDropped, by a pass that has *)
(* not reported yet, or by one that was killed before it could.            *)
THEOREM LossCounted == Spec => []LossIsCounted
<1>1. Init => CountInv
  <2> SUFFICES ASSUME Init
               PROVE  CountInv
    OBVIOUS
  <2>1. Dropped = {}
    BY DEF Init, Dropped
  <2>2. LostEvents = {}
    BY DEF Init, LostEvents, Lost
  <2>3. IsFiniteSet(Dropped) /\ Cardinality(Dropped) = 0 /\ Cardinality(LostEvents) = 0
    BY <2>1, <2>2, FS_EmptySet
  <2>4. tally = 0 /\ uncounted = 0
    BY DEF Init
  <2>q. QED BY <2>3, <2>4 DEF CountInv, LossIsCounted, Unreported, LostEvents
<1>2. TypeOK /\ TypeOK' /\ QueueInv /\ CountInv /\ [Next]_vars => CountInv'
  BY CountStep, HistoryGrows
<1>3. CountInv => LossIsCounted
  BY DEF CountInv
<1>q. QED BY <1>1, <1>2, <1>3, TypeCorrect, QueueInvariance, PTL DEF Spec

-----------------------------------------------------------------------------
(* The queue keeps its contract.  No reason to give an event up is older   *)
(* than its first write.                                                   *)
CausesAreBorn ==
    /\ crowded \subseteq Born
    /\ spoiled \subseteq Born
    /\ \A e \in Events : refusals[e] > 0 => e \in Born

LEMMA HeldIsBorn ==
    ASSUME TypeOK, QueueInv
    PROVE  Filed \subseteq Born /\ \A p \in Procs : Batch(p) \subseteq Born
<1>1. Filed \subseteq Born
  BY FiledBorn DEF QueueInv, Born
<1>2. \A p \in Procs : Batch(p) \subseteq Born
  BY DEF QueueInv, LoopOK, MemoryOK, EntryOK, Batch, Born
<1>q. QED BY <1>1, <1>2

LEMMA CausesStayBorn ==
    ASSUME TypeOK, TypeOK', Grows, QueueInv, CausesAreBorn, [Next]_vars
    PROVE  CausesAreBorn'
<1> USE DEF Goto, Done, Handled, CountDrop, local, history
<1>born. Born \subseteq Born'
  BY DEF Born, Grows, TypeOK
<1>same. ASSUME crowded' = crowded, spoiled' = spoiled, refusals' = refusals
         PROVE  CausesAreBorn'
  BY <1>born, <1>same DEF CausesAreBorn
<1>refused. ASSUME crowded' = crowded, spoiled' = spoiled,
                   NEW events \in SUBSET Born, Refused(events)
            PROVE  CausesAreBorn'
  <2>1. \A e \in Events : e \in events \/ refusals'[e] = refusals[e]
    BY <1>refused DEF Refused, TypeOK
  <2>q. QED BY <1>born, <1>refused, <2>1 DEF CausesAreBorn
<1>1. ASSUME NEW p \in Procs, NEW events \in SUBSET Events, Enqueue(p, events)
      PROVE  CausesAreBorn'
  BY <1>1, <1>same DEF Enqueue
<1>2. ASSUME NEW p \in Procs, NEW e \in Events, EnqueueExists(p, e)
      PROVE  CausesAreBorn'
  BY <1>2, <1>same DEF EnqueueExists
<1>3. ASSUME NEW p \in Procs, EnqueueWrite(p)
      PROVE  CausesAreBorn'
  BY <1>3, <1>same DEF EnqueueWrite
<1>4. ASSUME NEW p \in Procs, BoundList(p)
      PROVE  CausesAreBorn'
  <2>1. crowded' \subseteq crowded \union Filed /\ spoiled' = spoiled /\ refusals' = refusals
    BY <1>4 DEF BoundList
  <2>q. QED BY <2>1, <1>born, HeldIsBorn DEF CausesAreBorn
<1>5. ASSUME NEW p \in Procs, BoundDate(p)
      PROVE  CausesAreBorn'
  BY <1>5, <1>same DEF BoundDate
<1>6. ASSUME NEW p \in Procs, NEW e \in Events, BoundEvict(p, e)
      PROVE  CausesAreBorn'
  BY <1>6, <1>same DEF BoundEvict
<1>7. ASSUME NEW p \in Procs, Drain(p)
      PROVE  CausesAreBorn'
  BY <1>7, <1>same DEF Drain
<1>8. ASSUME NEW p \in Procs, Sweep(p)
      PROVE  CausesAreBorn'
  BY <1>8, <1>same DEF Sweep
<1>9. ASSUME NEW p \in Procs, ClaimStat(p)
      PROVE  CausesAreBorn'
  BY <1>9, <1>same DEF ClaimStat
<1>10. ASSUME NEW p \in Procs, ClaimStamp(p)
      PROVE  CausesAreBorn'
  BY <1>10, <1>same DEF ClaimStamp
<1>11. ASSUME NEW p \in Procs, CollectList(p)
      PROVE  CausesAreBorn'
  BY <1>11, <1>same DEF CollectList
<1>12. ASSUME NEW p \in Procs, NEW e \in Events, ReadEntry(p, e)
      PROVE  CausesAreBorn'
  <2>1. /\ crowded' = crowded /\ refusals' = refusals
        /\ \/ spoiled' = spoiled
           \/ spoiled' = spoiled \union {e} /\ file[e] # NoFile
    <3>1. Sendable(file[e], now[p]) => file[e] # NoFile
      BY DEF Sendable
    <3>2. \/ spoiled' = spoiled
          \/ spoiled' = spoiled \union {e} /\ Sendable(file[e], now[p])
      BY <1>12 DEF ReadEntry
    <3>q. QED BY <1>12, <3>1, <3>2 DEF ReadEntry
  <2>2. file[e] # NoFile => e \in Born
    BY HeldIsBorn DEF Filed
  <2>q. QED BY <2>1, <2>2, <1>born DEF CausesAreBorn
<1>13. ASSUME NEW p \in Procs, RemoveUnsendable(p)
      PROVE  CausesAreBorn'
  BY <1>13, <1>same DEF RemoveUnsendable
<1>14. ASSUME NEW p \in Procs, SendAccepted(p)
      PROVE  CausesAreBorn'
  BY <1>14, <1>same DEF SendAccepted
<1>15. ASSUME NEW p \in Procs, SendUncharged(p)
      PROVE  CausesAreBorn'
  BY <1>15, <1>same DEF SendUncharged
<1>16. ASSUME NEW p \in Procs, SendFailed(p)
      PROVE  CausesAreBorn'
  <2>1. PICK events \in SUBSET Born : events = Batch(p)
    BY <1>16, HeldIsBorn DEF SendFailed, Sending
  <2>2. crowded' = crowded /\ spoiled' = spoiled /\ Refused(events)
    BY <1>16, <2>1 DEF SendFailed
  <2>q. QED BY <2>1, <2>2, <1>refused
<1>17. ASSUME NEW p \in Procs, SendRefused(p)
      PROVE  CausesAreBorn'
  <2>1. PICK events \in SUBSET Born : events = Batch(p)
    BY <1>17, HeldIsBorn DEF SendRefused, Sending
  <2>2. crowded' = crowded /\ spoiled' = spoiled /\ Refused(events)
    BY <1>17, <2>1 DEF SendRefused
  <2>q. QED BY <2>1, <2>2, <1>refused
<1>18. ASSUME NEW p \in Procs, NEW e \in Events, ClearSent(p, e)
      PROVE  CausesAreBorn'
  BY <1>18, <1>same DEF ClearSent
<1>19. ASSUME NEW p \in Procs, NEW e \in Events, ProbeAccepted(p, e)
      PROVE  CausesAreBorn'
  BY <1>19, <1>same DEF ProbeAccepted
<1>20. ASSUME NEW p \in Procs, NEW e \in Events, ProbeUncharged(p, e)
      PROVE  CausesAreBorn'
  BY <1>20, <1>same DEF ProbeUncharged
<1>21. ASSUME NEW p \in Procs, NEW e \in Events, ProbeFailed(p, e)
      PROVE  CausesAreBorn'
  <2>1. PICK events \in SUBSET Born : events = {e}
    BY <1>21, HeldIsBorn DEF ProbeFailed, Probing
  <2>2. crowded' = crowded /\ spoiled' = spoiled /\ Refused(events)
    BY <1>21, <2>1 DEF ProbeFailed
  <2>q. QED BY <2>1, <2>2, <1>refused
<1>22. ASSUME NEW p \in Procs, ProbeClear(p)
      PROVE  CausesAreBorn'
  BY <1>22, <1>same DEF ProbeClear
<1>23. ASSUME NEW p \in Procs, NEW e \in Events, RecordFailure(p, e)
      PROVE  CausesAreBorn'
  BY <1>23, <1>same DEF RecordFailure
<1>24. ASSUME NEW p \in Procs, Report(p)
      PROVE  CausesAreBorn'
  BY <1>24, <1>same DEF Report
<1>25. ASSUME NEW p \in Procs, Release(p)
      PROVE  CausesAreBorn'
  BY <1>25, <1>same DEF Release
<1>26. ASSUME NEW p \in Procs, Crash(p)
      PROVE  CausesAreBorn'
  BY <1>26, <1>same DEF Crash
<1>27. CASE Tick
  BY <1>27, <1>same DEF Tick
<1>28. CASE BreakLock
  BY <1>28, <1>same DEF BreakLock
<1>29. CASE UNCHANGED vars
  BY <1>29, <1>same DEF vars
<1>q. QED
  BY <1>1, <1>2, <1>3, <1>4, <1>5, <1>6, <1>7, <1>8, <1>9, <1>10, <1>11,
       <1>12, <1>13, <1>14, <1>15, <1>16, <1>17, <1>18, <1>19, <1>20, <1>21,
        <1>22, <1>23, <1>24, <1>25, <1>26, <1>27, <1>28, <1>29
  DEF Next, Continue

(* A step that leaves the files alone is an answer, or a stutter.          *)
LEMMA AnswerStep ==
    ASSUME TypeOK, TypeOK', Grows, file' = file, born' = born
    PROVE  Queue!Next
<1>1. Filed' = Filed /\ Born' = Born
  BY DEF Filed, Born
<1>2. Excused \subseteq Excused' /\ Excused' \subseteq Born /\ Born \subseteq Events
  BY <1>1, CauseStays DEF Excused, Born
<1>3. accepted \subseteq accepted' /\ accepted' \subseteq Events
  BY DEF Grows, TypeOK
<1>4. Queue!Answer(accepted', Excused')
  BY <1>1, <1>2, <1>3 DEF Queue!Answer
<1>5. \E got, given \in SUBSET Events : Queue!Answer(got, given)
  BY <1>2, <1>3, <1>4
<1>q. QED BY <1>5 DEF Queue!Next

(* A removal or a rewrite changes nothing but the file.                    *)
LEMMA OnlyFileMoves ==
    ASSUME born' = born, accepted' = accepted, clock' = clock, refusals' = refusals,
           crowded' = crowded, spoiled' = spoiled
    PROVE  Born' = Born /\ Excused' = Excused
BY DEF Born, Excused, HasCause, AgedOut, Exhausted

LEMMA DropStep ==
    ASSUME TypeOK, QueueInv, NEW e \in Events, Remove(e), Born' = Born, Excused' = Excused,
           accepted' = accepted, e \in Filed => e \in accepted \/ HasCause(e)
    PROVE  [Queue!Next]_(Queue!queueVars)
<1>1. Filed' = Filed \ {e}
  BY DEF Filed, Remove, TypeOK
<1>2. CASE e \in Filed
  <2>1. e \in accepted \/ e \in Excused
    BY <1>2, FiledBorn DEF QueueInv, Excused, Born
  <2>2. Queue!Drop(e)
    BY <1>1, <1>2, <2>1 DEF Queue!Drop
  <2>q. QED BY <2>2 DEF Queue!Next
<1>3. CASE e \notin Filed
  BY <1>1, <1>3 DEF Queue!queueVars
<1>q. QED BY <1>2, <1>3

LEMMA StoreStep ==
    ASSUME TypeOK, TypeOK', NEW e \in Events, Filed' = Filed \union {e}, Born' = Born \union {e},
           Excused' = Excused, accepted' = accepted
    PROVE  Queue!Next
<1>1. Queue!Store(e)
  BY DEF Queue!Store
<1>q. QED BY <1>1 DEF Queue!Next

LEMMA StepRefines ==
    ASSUME TypeOK, TypeOK', Grows, QueueInv, CausesAreBorn, [Next]_vars
    PROVE  [Queue!Next]_(Queue!queueVars)
<1> USE DEF Goto, Done, Handled, CountDrop, local, history
<1>inv. HistoryOK /\ \A p \in Procs : LoopOK(p)
  BY DEF QueueInv
<1>1. ASSUME NEW p \in Procs, NEW events \in SUBSET Events, Enqueue(p, events)
      PROVE  [Queue!Next]_(Queue!queueVars)
  BY <1>1, AnswerStep DEF Enqueue
<1>2. ASSUME NEW p \in Procs, NEW e \in Events, EnqueueExists(p, e)
      PROVE  [Queue!Next]_(Queue!queueVars)
  BY <1>2, AnswerStep DEF EnqueueExists
<1>3. ASSUME NEW p \in Procs, EnqueueWrite(p)
      PROVE  [Queue!Next]_(Queue!queueVars)
  <2>1. PICK e \in Events : e = cur[p]
    BY <1>3 DEF EnqueueWrite, TypeOK
  <2>2. /\ file' = [file EXCEPT ![e] = FreshEntry]
        /\ born' = [born EXCEPT ![e] = IF @ = -1 THEN clock ELSE @]
        /\ clock' = clock /\ accepted' = accepted
        /\ refusals' = refusals /\ crowded' = crowded /\ spoiled' = spoiled
    BY <1>3, <2>1 DEF EnqueueWrite
  <2>3. /\ \A d \in Events : d # e => born'[d] = born[d]
        /\ born[e] # -1 => born'[e] = born[e]
        /\ born[e] = -1 => born'[e] = clock
        /\ born'[e] # -1
    BY <2>2 DEF TypeOK
  <2>4. Filed' = Filed \union {e}
    <3>1. FreshEntry # NoFile
      BY FreshTyped, NoFileAssumption DEF TypeOK
    <3>q. QED BY <2>2, <3>1 DEF Filed, TypeOK
  <2>5. Born' = Born \union {e}
    BY <2>3 DEF Born
  <2>6. ASSUME NEW d \in Events, born[d] # -1
        PROVE  HasCause(d)' <=> HasCause(d)
    BY <2>2, <2>3, <2>6 DEF HasCause, AgedOut, Exhausted
  <2>7. born[e] = -1 => ~HasCause(e)'
    <3> SUFFICES ASSUME born[e] = -1
                 PROVE  ~HasCause(e)'
      OBVIOUS
    <3>1. e \notin crowded' /\ e \notin spoiled'
      BY <2>2 DEF CausesAreBorn, Born
    <3>2. ~(refusals'[e] >= MaxAttempts)
      <4>1. ~(refusals[e] > 0) /\ refusals[e] \in Nat
        BY QueueAssumption DEF CausesAreBorn, Born, TypeOK
      <4>q. QED BY <4>1, <2>2, QueueAssumption
    <3>3. ~(clock' - born'[e] > MaxAge)
      BY <2>2, <2>3, QueueAssumption DEF TypeOK
    <3>q. QED BY <3>1, <3>2, <3>3 DEF HasCause, AgedOut, Exhausted
  <2>8. Excused' = Excused
    BY <2>3, <2>5, <2>6, <2>7 DEF Excused, Born
  <2>q. QED BY <2>2, <2>4, <2>5, <2>8, StoreStep
<1>4. ASSUME NEW p \in Procs, BoundList(p)
      PROVE  [Queue!Next]_(Queue!queueVars)
  BY <1>4, AnswerStep DEF BoundList
<1>5. ASSUME NEW p \in Procs, BoundDate(p)
      PROVE  [Queue!Next]_(Queue!queueVars)
  BY <1>5, AnswerStep DEF BoundDate
<1>6. ASSUME NEW p \in Procs, NEW e \in Events, BoundEvict(p, e)
      PROVE  [Queue!Next]_(Queue!queueVars)
  <2>1. e \in crowded
    BY <1>6, <1>inv DEF BoundEvict, LoopOK, NamesOK
  <2>2. /\ Remove(e) /\ born' = born /\ accepted' = accepted /\ clock' = clock
        /\ refusals' = refusals /\ crowded' = crowded /\ spoiled' = spoiled
    BY <1>6 DEF BoundEvict
  <2>3. Born' = Born /\ Excused' = Excused
    BY <2>2, OnlyFileMoves
  <2>q. QED BY <2>1, <2>2, <2>3, DropStep DEF HasCause
<1>7. ASSUME NEW p \in Procs, Drain(p)
      PROVE  [Queue!Next]_(Queue!queueVars)
  BY <1>7, AnswerStep DEF Drain
<1>8. ASSUME NEW p \in Procs, Sweep(p)
      PROVE  [Queue!Next]_(Queue!queueVars)
  BY <1>8, AnswerStep DEF Sweep
<1>9. ASSUME NEW p \in Procs, ClaimStat(p)
      PROVE  [Queue!Next]_(Queue!queueVars)
  BY <1>9, AnswerStep DEF ClaimStat
<1>10. ASSUME NEW p \in Procs, ClaimStamp(p)
      PROVE  [Queue!Next]_(Queue!queueVars)
  BY <1>10, AnswerStep DEF ClaimStamp
<1>11. ASSUME NEW p \in Procs, CollectList(p)
      PROVE  [Queue!Next]_(Queue!queueVars)
  BY <1>11, AnswerStep DEF CollectList
<1>12. ASSUME NEW p \in Procs, NEW e \in Events, ReadEntry(p, e)
      PROVE  [Queue!Next]_(Queue!queueVars)
  BY <1>12, AnswerStep DEF ReadEntry
<1>13. ASSUME NEW p \in Procs, RemoveUnsendable(p)
      PROVE  [Queue!Next]_(Queue!queueVars)
  <2>1. Justified(cur[p])
    BY <1>13, <1>inv DEF RemoveUnsendable, LoopOK, NamesOK
  <2>2. PICK e \in Events : e = cur[p]
    BY <1>13, <2>1 DEF RemoveUnsendable, TypeOK
  <2>3. e \in accepted \/ HasCause(e)
    BY <2>1, <2>2 DEF Justified
  <2>4. /\ Remove(e) /\ born' = born /\ accepted' = accepted /\ clock' = clock
        /\ refusals' = refusals /\ crowded' = crowded /\ spoiled' = spoiled
    BY <1>13, <2>2 DEF RemoveUnsendable
  <2>5. Born' = Born /\ Excused' = Excused
    BY <2>4, OnlyFileMoves
  <2>q. QED BY <2>3, <2>4, <2>5, DropStep
<1>14. ASSUME NEW p \in Procs, SendAccepted(p)
      PROVE  [Queue!Next]_(Queue!queueVars)
  BY <1>14, AnswerStep DEF SendAccepted
<1>15. ASSUME NEW p \in Procs, SendUncharged(p)
      PROVE  [Queue!Next]_(Queue!queueVars)
  BY <1>15, AnswerStep DEF SendUncharged
<1>16. ASSUME NEW p \in Procs, SendFailed(p)
      PROVE  [Queue!Next]_(Queue!queueVars)
  BY <1>16, AnswerStep DEF SendFailed
<1>17. ASSUME NEW p \in Procs, SendRefused(p)
      PROVE  [Queue!Next]_(Queue!queueVars)
  BY <1>17, AnswerStep DEF SendRefused
<1>18. ASSUME NEW p \in Procs, NEW e \in Events, ClearSent(p, e)
      PROVE  [Queue!Next]_(Queue!queueVars)
  <2>1. e \in accepted
    BY <1>18, <1>inv DEF ClearSent, LoopOK, AnswersOK
  <2>2. /\ Remove(e) /\ born' = born /\ accepted' = accepted /\ clock' = clock
        /\ refusals' = refusals /\ crowded' = crowded /\ spoiled' = spoiled
    BY <1>18 DEF ClearSent
  <2>3. Born' = Born /\ Excused' = Excused
    BY <2>2, OnlyFileMoves
  <2>q. QED BY <2>1, <2>2, <2>3, DropStep DEF HasCause
<1>19. ASSUME NEW p \in Procs, NEW e \in Events, ProbeAccepted(p, e)
      PROVE  [Queue!Next]_(Queue!queueVars)
  BY <1>19, AnswerStep DEF ProbeAccepted
<1>20. ASSUME NEW p \in Procs, NEW e \in Events, ProbeUncharged(p, e)
      PROVE  [Queue!Next]_(Queue!queueVars)
  BY <1>20, AnswerStep DEF ProbeUncharged
<1>21. ASSUME NEW p \in Procs, NEW e \in Events, ProbeFailed(p, e)
      PROVE  [Queue!Next]_(Queue!queueVars)
  BY <1>21, AnswerStep DEF ProbeFailed
<1>22. ASSUME NEW p \in Procs, ProbeClear(p)
      PROVE  [Queue!Next]_(Queue!queueVars)
  <2>1. cur[p] \in accepted
    BY <1>22, <1>inv DEF ProbeClear, LoopOK, AnswersOK
  <2>2. PICK e \in Events : e = cur[p]
    BY <1>22, <2>1 DEF ProbeClear, TypeOK
  <2>3. e \in accepted \/ HasCause(e)
    BY <2>1, <2>2 DEF Justified
  <2>4. /\ Remove(e) /\ born' = born /\ accepted' = accepted /\ clock' = clock
        /\ refusals' = refusals /\ crowded' = crowded /\ spoiled' = spoiled
    BY <1>22, <2>2 DEF ProbeClear
  <2>5. Born' = Born /\ Excused' = Excused
    BY <2>4, OnlyFileMoves
  <2>q. QED BY <2>3, <2>4, <2>5, DropStep
<1>23. ASSUME NEW p \in Procs, NEW e \in Events, RecordFailure(p, e)
      PROVE  [Queue!Next]_(Queue!queueVars)
  <2>1. /\ mem[p][e] \in Entry /\ mem[p][e] # NoFile /\ Charge(p, e)
        /\ pc[p] \in {"fail", "probe", "probe-fail"} /\ e \in Batch(p)
    BY <1>23 DEF RecordFailure, Batch, TypeOK
  <2>2. /\ born' = born /\ accepted' = accepted /\ clock' = clock
        /\ refusals' = refusals /\ crowded' = crowded /\ spoiled' = spoiled
    BY <1>23 DEF RecordFailure
  <2>3. Born' = Born /\ Excused' = Excused
    BY <2>2, OnlyFileMoves
  <2>4. CASE mem[p][e].attempts + 1 >= MaxAttempts
    <3>1. Remove(e)
      BY <2>1, <2>4 DEF Charge
    <3>2. mem[p][e].attempts + 1 <= refusals[e] /\ EntryOK(e, mem[p][e])
      BY <2>1, <1>inv DEF LoopOK, AnswersOK, MemoryOK
    <3>3. Justified(e)
      BY <2>1, <2>4, <3>2, LastRefusalJustifies
    <3>q. QED BY <2>2, <2>3, <3>1, <3>3, DropStep DEF Justified
  <2>5. CASE ~(mem[p][e].attempts + 1 >= MaxAttempts)
    <3>1. PICK delay \in Backoffs :
            file' = [file EXCEPT ![e] = [mem[p][e] EXCEPT
                !.attempts = mem[p][e].attempts + 1, !.next = now[p] + delay]]
      BY <2>1, <2>5 DEF Charge
    <3>2. file'[e] \in Entry
      <4>1. now[p] + delay \in Nat /\ mem[p][e].attempts + 1 \in 0..(MaxAttempts - 1)
        BY <2>1, <2>5, QueueAssumption DEF TypeOK, Entry
      <4>q. QED BY <2>1, <3>1, <4>1 DEF Entry, TypeOK
    <3>3. Filed' = Filed \union {e}
      BY <3>1, <3>2, NoFileAssumption DEF Filed, TypeOK
    <3>4. Born' = Born \union {e}
      BY <2>1, <2>3, HeldIsBorn
    <3>q. QED BY <2>2, <2>3, <3>3, <3>4, StoreStep
  <2>q. QED BY <2>4, <2>5
<1>24. ASSUME NEW p \in Procs, Report(p)
      PROVE  [Queue!Next]_(Queue!queueVars)
  BY <1>24, AnswerStep DEF Report
<1>25. ASSUME NEW p \in Procs, Release(p)
      PROVE  [Queue!Next]_(Queue!queueVars)
  BY <1>25, AnswerStep DEF Release
<1>26. ASSUME NEW p \in Procs, Crash(p)
      PROVE  [Queue!Next]_(Queue!queueVars)
  BY <1>26, AnswerStep DEF Crash
<1>27. CASE Tick
  BY <1>27, AnswerStep DEF Tick
<1>28. CASE BreakLock
  BY <1>28, AnswerStep DEF BreakLock
<1>29. CASE UNCHANGED vars
  BY <1>29, AnswerStep DEF vars
<1>q. QED
  BY <1>1, <1>2, <1>3, <1>4, <1>5, <1>6, <1>7, <1>8, <1>9, <1>10, <1>11,
       <1>12, <1>13, <1>14, <1>15, <1>16, <1>17, <1>18, <1>19, <1>20, <1>21,
        <1>22, <1>23, <1>24, <1>25, <1>26, <1>27, <1>28, <1>29
  DEF Next, Continue

(* The files, drains, locks and crashes of the queue implement its         *)
(* contract: what is stored stays until it is taken or excused.            *)
THEOREM Refinement == Spec => RefinesContract
<1>1. Init => CausesAreBorn /\ Queue!Init
  <2> SUFFICES ASSUME Init PROVE CausesAreBorn /\ Queue!Init
    OBVIOUS
  <2>1. Born = Filed
    <3>1. born = [e \in Events |-> IF file[e] = NoFile THEN -1 ELSE 0]
      BY DEF Init
    <3>q. QED BY <3>1 DEF Born, Filed
  <2>2. Filed \subseteq Events /\ Excused \subseteq Born /\ accepted = {}
    BY DEF Filed, Excused, Init
  <2>3. CausesAreBorn
    BY <2>1 DEF CausesAreBorn, Init
  <2>q. QED BY <2>1, <2>2, <2>3 DEF Queue!Init
<1>2. TypeOK /\ QueueInv /\ CausesAreBorn /\ [Next]_vars => CausesAreBorn'
  BY StepTyped, HistoryGrows, CausesStayBorn
<1>3. TypeOK /\ QueueInv /\ CausesAreBorn /\ [Next]_vars => [Queue!Next]_(Queue!queueVars)
  BY StepTyped, HistoryGrows, StepRefines
<1>q. QED BY <1>1, <1>2, <1>3, TypeCorrect, QueueInvariance, PTL
  DEF Spec, RefinesContract, Queue!Spec

-----------------------------------------------------------------------------
(* The lock this queue is drained under, one file system call at a time:   *)
(* lock.ts keeps its processes apart and implements the contract that      *)
(* EventQueue takes of it, for any age bound and any number of attempts.   *)

(* FreshInv holds with the types of what it counts.                        *)
MutexInv == LockTypeOK /\ FreshInv

(* TypeOK in two parts: no prover takes the flags and the numbers at once. *)
MutexFlags == lockFile \in BOOLEAN /\ lockBroken \in BOOLEAN /\ outlived \in BOOLEAN
MutexCounts ==
    /\ age \in 0..(StaleAfter + 1)
    /\ maker \in Contenders \union {Nobody}
    /\ stage \in [Contenders -> {"idle", "open", "stat", "break", "held"}]
    /\ tries \in [Contenders -> 0..Attempts]

LEMMA MutexTyped ==
    /\ LockTypeOK <=> MutexFlags /\ MutexCounts
    /\ LockTypeOK' <=> MutexFlags' /\ MutexCounts'
BY DEF LockTypeOK, MutexFlags, MutexCounts

(* Every step of a process, and of the clock, preserves the invariant.     *)
LEMMA MutexInductive ==
    ASSUME MutexInv, [LockNext]_lockVars
    PROVE  MutexInv'
<1> USE LockAssumption DEF MutexInv, LockTypeOK, FreshInv, holders, IsStale, Proceed, NextAttempt
<1>1. CASE GrowOlder
  <2>1. MutexFlags'
    BY <1>1 DEF GrowOlder, MutexFlags
  <2>2. MutexCounts'
    BY <1>1 DEF GrowOlder, MutexCounts
  <2>3. FreshInv'
    BY <1>1 DEF GrowOlder
  <2>q. QED BY <2>1, <2>2, <2>3, MutexTyped
<1>2. ASSUME NEW p \in Contenders, Begin(p)
      PROVE  MutexInv'
  <2>1. MutexFlags'
    BY <1>2 DEF Begin, MutexFlags
  <2>2. MutexCounts'
    BY <1>2 DEF Begin, MutexCounts
  <2>3. FreshInv'
    BY <1>2 DEF Begin
  <2>q. QED BY <2>1, <2>2, <2>3, MutexTyped
<1>3. ASSUME NEW p \in Contenders, TryCreateLock(p)
      PROVE  MutexInv'
  <2>1. MutexFlags'
    BY <1>3 DEF TryCreateLock, MutexFlags
  <2>2. MutexCounts'
    BY <1>3 DEF TryCreateLock, MutexCounts
  <2>3. FreshInv'
    BY <1>3 DEF TryCreateLock
  <2>q. QED BY <2>1, <2>2, <2>3, MutexTyped
<1>4. ASSUME NEW p \in Contenders, StatLock(p)
      PROVE  MutexInv'
  <2>1. MutexFlags'
    BY <1>4 DEF StatLock, MutexFlags
  <2>2. MutexCounts'
    BY <1>4 DEF StatLock, MutexCounts
  <2>3. FreshInv'
    BY <1>4 DEF StatLock
  <2>q. QED BY <2>1, <2>2, <2>3, MutexTyped
<1>5. ASSUME NEW p \in Contenders, BreakStale(p)
      PROVE  MutexInv'
  <2>1. MutexFlags'
    BY <1>5 DEF BreakStale, MutexFlags
  <2>2. MutexCounts'
    BY <1>5 DEF BreakStale, MutexCounts
  <2>3. FreshInv'
    BY <1>5 DEF BreakStale
  <2>q. QED BY <2>1, <2>2, <2>3, MutexTyped
<1>6. ASSUME NEW p \in Contenders, ReleaseLock(p)
      PROVE  MutexInv'
  <2>1. MutexFlags'
    BY <1>6 DEF ReleaseLock, MutexFlags
  <2>2. MutexCounts'
    BY <1>6 DEF ReleaseLock, MutexCounts
  <2>3. FreshInv'
    BY <1>6 DEF ReleaseLock
  <2>q. QED BY <2>1, <2>2, <2>3, MutexTyped
<1>7. ASSUME NEW p \in Contenders, Die(p)
      PROVE  MutexInv'
  <2>1. MutexFlags'
    BY <1>7 DEF Die, MutexFlags
  <2>2. MutexCounts'
    BY <1>7 DEF Die, MutexCounts
  <2>3. FreshInv'
    BY <1>7 DEF Die
  <2>q. QED BY <2>1, <2>2, <2>3, MutexTyped
<1>8. CASE UNCHANGED lockVars
  BY <1>8 DEF lockVars
<1>q. QED BY <1>1, <1>2, <1>3, <1>4, <1>5, <1>6, <1>7, <1>8 DEF LockNext, Step

LEMMA MutexInvariance == LockSpec => []MutexInv
<1>1. LockInit => MutexInv
  <2>1. LockInit => MutexFlags
    BY DEF LockInit, MutexFlags
  <2>2. LockInit => MutexCounts
    BY LockAssumption DEF LockInit, MutexCounts
  <2>3. LockInit => FreshInv
    BY LockAssumption DEF LockInit, FreshInv, holders, IsStale
  <2>4. LockInit => LockTypeOK
    BY <2>1, <2>2 DEF MutexFlags, MutexCounts, LockTypeOK
  <2>q. QED BY <2>3, <2>4 DEF MutexInv
<1>q. QED BY <1>1, MutexInductive, PTL DEF LockSpec

(* The lock's variables keep their types.                                  *)
THEOREM MutexTypeCorrect == LockSpec => []LockTypeOK
BY MutexInvariance, PTL DEF MutexInv

(* Crashes, retries and waiters alone never let two processes past         *)
(* acquireLock: it takes a lock file older than STALE_LOCK_MS.             *)
THEOREM Exclusion == LockSpec => []ExclusiveWhileFresh
<1>1. MutexInv => ExclusiveWhileFresh
  BY DEF MutexInv, FreshInv, ExclusiveWhileFresh, holders
<1>q. QED BY <1>1, MutexInvariance, PTL

(* Each file system call of acquireLock and of its release is a step of    *)
(* the contract, or none.                                                  *)
LEMMA MutexStepRefines ==
    ASSUME MutexInv, [LockNext]_lockVars
    PROVE  [Contract!Next]_(Contract!lockVars)
<1> USE DEF MutexInv, LockTypeOK, holders, Proceed, NextAttempt, Contract!lockVars, Contract!Next
<1>1. CASE GrowOlder
  BY <1>1 DEF GrowOlder
<1>2. ASSUME NEW p \in Contenders, Begin(p)
      PROVE  [Contract!Next]_(Contract!lockVars)
  BY <1>2 DEF Begin
<1>3. ASSUME NEW p \in Contenders, TryCreateLock(p)
      PROVE  [Contract!Next]_(Contract!lockVars)
  BY <1>3 DEF TryCreateLock, Contract!Acquire
<1>4. ASSUME NEW p \in Contenders, StatLock(p)
      PROVE  [Contract!Next]_(Contract!lockVars)
  BY <1>4 DEF StatLock
<1>5. ASSUME NEW p \in Contenders, BreakStale(p)
      PROVE  [Contract!Next]_(Contract!lockVars)
  BY <1>5 DEF BreakStale, Contract!Break
<1>6. ASSUME NEW p \in Contenders, ReleaseLock(p)
      PROVE  [Contract!Next]_(Contract!lockVars)
  BY <1>6 DEF ReleaseLock, Contract!Release
<1>7. ASSUME NEW p \in Contenders, Die(p)
      PROVE  [Contract!Next]_(Contract!lockVars)
  BY <1>7 DEF Die, Contract!Die
<1>8. CASE UNCHANGED lockVars
  BY <1>8 DEF lockVars
<1>q. QED BY <1>1, <1>2, <1>3, <1>4, <1>5, <1>6, <1>7, <1>8 DEF LockNext, Step

(* The lock implements the contract its users are modelled against.        *)
THEOREM MutexRefinement == LockSpec => RefinesLockContract
<1>1. LockInit => Contract!Init
  BY DEF LockInit, Contract!Init, holders
<1>q. QED BY <1>1, MutexStepRefines, MutexInvariance, PTL DEF LockSpec, RefinesLockContract, Contract!Spec

(* So the contract alone says who is apart: as long as nothing was broken, *)
(* the file that keeps others out is there whenever a process holds it.    *)
LEMMA ContractExcludes == Contract!Spec => []Contract!ExclusiveUntilBroken
<1> DEFINE Kept == ~lockBroken => /\ holders # {} => lockFile
                                  /\ \A p, q \in holders : p = q
<1>1. Contract!Init => Kept
  BY DEF Contract!Init
<1>2. Kept /\ [Contract!Next]_(Contract!lockVars) => Kept'
  <2> SUFFICES ASSUME Kept, [Contract!Next]_(Contract!lockVars) PROVE Kept'
    OBVIOUS
  <2>1. ASSUME NEW p \in Contenders, Contract!Acquire(p) PROVE Kept'
    BY <2>1 DEF Contract!Acquire
  <2>2. ASSUME NEW p \in Contenders, Contract!Release(p) PROVE Kept'
    BY <2>2 DEF Contract!Release
  <2>3. ASSUME NEW p \in Contenders, Contract!Die(p) PROVE Kept'
    BY <2>3 DEF Contract!Die
  <2>4. CASE Contract!Break
    BY <2>4 DEF Contract!Break
  <2>5. CASE UNCHANGED Contract!lockVars
    BY <2>5 DEF Contract!lockVars
  <2>q. QED BY <2>1, <2>2, <2>3, <2>4, <2>5 DEF Contract!Next
<1>3. Kept => Contract!ExclusiveUntilBroken
  BY DEF Contract!ExclusiveUntilBroken
<1>q. QED BY <1>1, <1>2, <1>3, PTL DEF Contract!Spec

(* Nor, then, does the lock of lock.ts let two processes in before one of  *)
(* its files was removed as stale.                                         *)
THEOREM ExclusionUntilBroken == LockSpec => []Contract!ExclusiveUntilBroken
BY MutexRefinement, ContractExcludes, PTL DEF RefinesLockContract

-----------------------------------------------------------------------------
(* How soon a pass comes to an entry (QueueScanBound), for any directory,  *)
(* any number of entries a pass may read and any other process's doings.   *)
USE ScanAssumption

(* A set of numbers has a least one.                                       *)
LEMMA Least ==
    ASSUME NEW T \in SUBSET Nat, T # {}
    PROVE  \E m \in T : \A n \in T : m <= n
<1>1. IsWellFoundedOn({ss \in Nat \X Nat : ss[1] < ss[2]}, Nat)
  BY NatLessThanWellFounded DEF OpToRel
<1>2. PICK m \in T : \A n \in T : ~(<<n, m>> \in {ss \in Nat \X Nat : ss[1] < ss[2]})
  BY <1>1, WFMin
<1>3. ASSUME NEW n \in T
      PROVE  m <= n
  <2>1. <<n, m>> \in Nat \X Nat /\ <<n, m>>[1] = n /\ <<n, m>>[2] = m
    OBVIOUS
  <2>q. QED BY <1>2, <2>1
<1>q. QED BY <1>3

(* How far name n is ahead of cursor c, around the end if need be.         *)
Dist(c, n) == IF n > c THEN n - c ELSE n + MaxName + 1 - c
Cursors == 0..MaxName

(* Distances order the names as a pass meets them.                         *)
LEMMA DistType ==
    ASSUME NEW c \in Cursors, NEW n \in Names
    PROVE  Dist(c, n) \in 1..(MaxName + 1)
BY DEF Cursors, Names, Dist

LEMMA DistTells ==
    ASSUME NEW c \in Cursors, NEW m \in Names, NEW n \in Names, Dist(c, m) = Dist(c, n)
    PROVE  m = n
BY DEF Cursors, Names, Dist

LEMMA AheadIs ==
    ASSUME NEW S \in SUBSET Names, NEW c \in Cursors, NEW n \in Names, NEW m \in S
    PROVE  m \in Ahead(S, c, n) <=> Dist(c, m) <= Dist(c, n)
BY DEF Cursors, Names, Dist, Ahead

(* From l, met no later than n, the way to n is the rest of the way.       *)
LEMMA DistOn ==
    ASSUME NEW c \in Cursors, NEW l \in Names, NEW m \in Names, NEW n \in Names,
           Dist(c, l) < Dist(c, n), Dist(l, m) <= Dist(l, n)
    PROVE  Dist(c, l) < Dist(c, m) /\ Dist(c, m) <= Dist(c, n)
BY DEF Cursors, Names, Dist

(* A set of names has a nearest and a farthest one.                        *)
LEMMA Nearest ==
    ASSUME NEW S \in SUBSET Names, S # {}, NEW c \in Cursors
    PROVE  \E n \in S : \A m \in S : Dist(c, n) <= Dist(c, m)
<1> DEFINE T == {Dist(c, n) : n \in S}
<1>1. T \in SUBSET Nat /\ T # {}
  BY DistType
<1> HIDE DEF T
<1>2. PICK d \in T : \A e \in T : d <= e
  BY <1>1, Least
<1>q. QED BY <1>2 DEF T

LEMMA Farthest ==
    ASSUME NEW S \in SUBSET Names, S # {}, NEW c \in Cursors
    PROVE  \E n \in S : \A m \in S : Dist(c, m) <= Dist(c, n)
<1> DEFINE left(n) == MaxName + 1 - Dist(c, n)
           T == {left(n) : n \in S}
<1>1. \A n \in S : left(n) \in Nat
  BY DistType
<1>2. T \in SUBSET Nat /\ T # {}
  BY <1>1
<1> HIDE DEF T
<1>3. PICK d \in T : \A e \in T : d <= e
  BY <1>2, Least
<1>4. PICK n \in S : d = left(n)
  BY DEF T
<1>5. ASSUME NEW m \in S
      PROVE  Dist(c, m) <= Dist(c, n)
  <2>1. left(n) <= left(m)
    BY <1>3, <1>4 DEF T
  <2>q. QED BY <2>1, DistType
<1>q. QED BY <1>5

(* The names of a directory are finitely many.                             *)
LEMMA Counted ==
    ASSUME NEW S \in SUBSET Names
    PROVE  IsFiniteSet(S) /\ Cardinality(S) \in Nat
<1>1. IsFiniteSet(Names)
  BY FS_Interval DEF Names
<1>q. QED BY <1>1, FS_Subset, FS_CardinalityType

LEMMA AheadWithin == \A S, c, n : Ahead(S, c, n) \subseteq S
BY DEF Ahead

(* Fewer names, fewer ahead; one more name, at most one more ahead.        *)
LEMMA AheadShrinks ==
    ASSUME NEW S \in SUBSET Names, NEW R \in SUBSET S, NEW c, NEW n
    PROVE  Cardinality(Ahead(R, c, n)) <= Cardinality(Ahead(S, c, n))
<1>1. Ahead(R, c, n) \subseteq Ahead(S, c, n)
  BY DEF Ahead
<1>2. Ahead(S, c, n) \in SUBSET Names
  BY AheadWithin
<1>q. QED BY <1>1, <1>2, Counted, FS_Subset

LEMMA AheadGrows ==
    ASSUME NEW S \in SUBSET Names, NEW x \in Names, NEW c, NEW n
    PROVE  Cardinality(Ahead(S \union {x}, c, n)) <= Cardinality(Ahead(S, c, n)) + 1
<1> DEFINE old == Ahead(S, c, n)
           new == Ahead(S \union {x}, c, n)
<1>1. new \subseteq old \union {x}
  BY DEF Ahead
<1>2. old \in SUBSET Names /\ new \in SUBSET Names
  BY AheadWithin
<1> HIDE DEF old, new
<1>3. IsFiniteSet(old \union {x}) /\ Cardinality(old \union {x}) <= Cardinality(old) + 1
  BY <1>2, Counted, FS_AddElement
<1>4. Cardinality(new) <= Cardinality(old \union {x})
  BY <1>1, <1>3, FS_Subset
<1>5. Cardinality(old) \in Nat /\ Cardinality(new) \in Nat /\ Cardinality(old \union {x}) \in Nat
  BY <1>2, <1>3, Counted, FS_CardinalityType
<1>q. QED BY <1>3, <1>4, <1>5 DEF old, new

LEMMA InWindow ==
    \A S, c, n : n \in Window(S, c) <=> n \in S /\ Cardinality(Ahead(S, c, n)) <= BatchSize
BY DEF Window

(* A window holds all that is met before one of it; what it stops on is    *)
(* the last of it.                                                         *)
LEMMA WindowIs ==
    ASSUME NEW S \in SUBSET Names, S # {}, NEW c \in Cursors
    PROVE  LET window == Window(S, c)
               l == Final(window, c)
           IN  /\ window \subseteq S /\ l \in window
               /\ \A m \in S : m \in window <=> Dist(c, m) <= Dist(c, l)
<1> DEFINE window == Window(S, c)
           l == Final(window, c)
<1>1. window \subseteq S
  BY DEF Window
<1>2. window # {}
  <2>1. PICK n \in S : \A m \in S : Dist(c, n) <= Dist(c, m)
    BY Nearest
  <2>2. \A m \in S : Dist(c, m) <= Dist(c, n) => m = n
    BY <2>1, DistTells, DistType
  <2>3. Ahead(S, c, n) = {n}
    <3>1. Ahead(S, c, n) \subseteq {n}
      BY <2>2, AheadIs, AheadWithin
    <3>2. n \in Ahead(S, c, n)
      BY AheadIs, DistType
    <3>q. QED BY <3>1, <3>2
  <2>4. Cardinality(Ahead(S, c, n)) <= BatchSize
    BY <2>3, FS_Singleton
  <2>5. n \in Window(S, c)
    BY <2>4, InWindow
  <2>q. QED BY <2>5
<1>3. PICK n \in window : \A m \in window : Dist(c, m) <= Dist(c, n)
  BY <1>1, <1>2, Farthest
<1>4. Ahead(window, c, n) = window
  <2>1. window \in SUBSET Names
    BY <1>1
  <2> HIDE DEF window
  <2>2. \A m \in window : m \in Ahead(window, c, n)
    BY <2>1, <1>3, AheadIs
  <2>q. QED BY <2>2, AheadWithin
<1>5. l \in window /\ Ahead(window, c, l) = window
  BY <1>4 DEF Final
<1> HIDE DEF window, l
<1>6. ASSUME NEW m \in S
      PROVE  m \in window <=> Dist(c, m) <= Dist(c, l)
  <2>1. ASSUME m \in window
        PROVE  Dist(c, m) <= Dist(c, l)
    BY <1>1, <1>5, <2>1, AheadIs
  <2>2. ASSUME Dist(c, m) <= Dist(c, l)
        PROVE  m \in window
    <3>1. Ahead(S, c, m) \subseteq Ahead(S, c, l)
      <4>1. ASSUME NEW x \in Ahead(S, c, m)
            PROVE  x \in Ahead(S, c, l)
        <5>1. x \in S /\ Dist(c, x) <= Dist(c, m)
          BY <4>1, AheadIs, AheadWithin
        <5>2. Dist(c, x) <= Dist(c, l)
          BY <5>1, <2>2, <1>1, <1>5, DistType
        <5>q. QED BY <5>1, <5>2, <1>1, <1>5, AheadIs
      <4>q. QED BY <4>1
    <3>2. Ahead(S, c, l) \in SUBSET Names /\ Ahead(S, c, m) \in SUBSET Names
      BY AheadWithin
    <3>3. Cardinality(Ahead(S, c, m)) <= Cardinality(Ahead(S, c, l))
      BY <3>1, <3>2, Counted, FS_Subset
    <3>4. Cardinality(Ahead(S, c, l)) <= BatchSize
      BY <1>5, InWindow DEF window
    <3>5. Cardinality(Ahead(S, c, m)) <= BatchSize
      BY <3>2, <3>3, <3>4, Counted
    <3>q. QED BY <3>5, InWindow DEF window
  <2>q. QED BY <2>1, <2>2
<1>q. QED BY <1>1, <1>5, <1>6 DEF window, l

(* A window that leaves something out is full.                             *)
LEMMA WindowFull ==
    ASSUME NEW S \in SUBSET Names, NEW c \in Cursors,
           NEW n \in S \ Window(S, c)
    PROVE  BatchSize <= Cardinality(Window(S, c))
<1> DEFINE window == Window(S, c)
           rest == S \ window
<1>0. window \subseteq S
  BY InWindow
<1>1. rest \in SUBSET Names /\ rest # {}
  OBVIOUS
<1>2. PICK m \in rest : \A x \in rest : Dist(c, m) <= Dist(c, x)
  BY <1>1, Nearest
<1>3. Ahead(S, c, m) \subseteq window \union {m}
  <2>1. ASSUME NEW x \in Ahead(S, c, m), x \notin window
        PROVE  x = m
    <3>1. x \in rest /\ Dist(c, x) <= Dist(c, m)
      BY <2>1, AheadIs, AheadWithin
    <3>2. Dist(c, x) = Dist(c, m)
      BY <3>1, <1>2, DistType
    <3>q. QED BY <3>1, <3>2, DistTells
  <2>q. QED BY <2>1
<1>4. ~(Cardinality(Ahead(S, c, m)) <= BatchSize)
  BY InWindow
<1>5. window \in SUBSET Names /\ Ahead(S, c, m) \in SUBSET Names
  BY <1>0, AheadWithin
<1> HIDE DEF window, rest
<1>6. IsFiniteSet(window \union {m}) /\ Cardinality(window \union {m}) <= Cardinality(window) + 1
  <2>1. IsFiniteSet(window) /\ Cardinality(window) \in Nat
    BY <1>5, Counted
  <2>2. /\ IsFiniteSet(window \union {m})
        /\ Cardinality(window \union {m}) = IF m \in window THEN Cardinality(window) ELSE Cardinality(window) + 1
    BY <2>1, FS_AddElement
  <2>q. QED BY <2>1, <2>2
<1>7. Cardinality(Ahead(S, c, m)) <= Cardinality(window \union {m})
  BY <1>3, <1>6, FS_Subset
<1>8. Cardinality(Ahead(S, c, m)) \in Nat /\ Cardinality(window) \in Nat /\ Cardinality(window \union {m}) \in Nat
  BY <1>5, <1>6, Counted, FS_CardinalityType
<1>9. BatchSize <= Cardinality(window)
  BY <1>4, <1>6, <1>7, <1>8
<1>q. QED BY <1>9 DEF window

(* A pass reads as many of the entries as EventQueue says, maxBatch or all *)
(* there are; which ones, EventQueue leaves open (collectDue).             *)
THEOREM ScanReads ==
    ASSUME NEW S \in SUBSET Names, NEW c \in Cursors
    PROVE  /\ Window(S, c) \subseteq S
           /\ Cardinality(Window(S, c)) = Smaller(BatchSize, Cardinality(S))
<1> DEFINE window == Window(S, c)
<1>1. window \subseteq S
  BY InWindow
<1>2. /\ Cardinality(window) \in Nat /\ Cardinality(S) \in Nat /\ IsFiniteSet(S)
      /\ Cardinality(window) <= Cardinality(S)
  BY <1>1, Counted, FS_Subset
<1>3. Cardinality(window) <= BatchSize
  <2>1. CASE S = {}
    BY <1>1, <2>1, FS_EmptySet
  <2>2. CASE S # {}
    <3> DEFINE l == Final(window, c)
    <3>1. l \in window /\ \A m \in S : m \in window <=> Dist(c, m) <= Dist(c, l)
      BY <2>2, WindowIs
    <3>2. Cardinality(Ahead(S, c, l)) <= BatchSize
      BY <3>1, InWindow
    <3> HIDE DEF window, l
    <3>3. Ahead(S, c, l) = window
      BY <1>1, <3>1, AheadIs, AheadWithin
    <3>q. QED BY <3>2, <3>3
  <2>q. QED BY <2>1, <2>2
<1> HIDE DEF window
<1>4. ASSUME window = S
      PROVE  Cardinality(window) = Smaller(BatchSize, Cardinality(S))
  BY <1>2, <1>3, <1>4 DEF Smaller
<1>5. ASSUME window # S
      PROVE  Cardinality(window) = Smaller(BatchSize, Cardinality(S))
  <2>1. PICK n \in S \ window : TRUE
    BY <1>1, <1>5
  <2>2. BatchSize <= Cardinality(window)
    BY <2>1, WindowFull DEF window
  <2>3. Cardinality(window) # Cardinality(S)
    BY <1>1, <1>2, <1>5, FS_Subset
  <2>q. QED BY <1>2, <1>3, <2>2, <2>3 DEF Smaller
<1>q. QED BY <1>1, <1>4, <1>5 DEF window

(* What a pass does not come to has BatchSize names fewer ahead of it once  *)
(* the cursor is where the pass stops.                                     *)
LEMMA PassOver ==
    ASSUME NEW S \in SUBSET Names, NEW c \in Cursors,
           NEW n \in S \ Window(S, c)
    PROVE  BatchSize + Cardinality(Ahead(S, Final(Window(S, c), c), n)) <= Cardinality(Ahead(S, c, n))
<1> DEFINE window == Window(S, c)
           l == Final(window, c)
           onward == Ahead(S, l, n)
           all == Ahead(S, c, n)
<1>1. /\ window \subseteq S /\ l \in window
      /\ \A m \in S : m \in window <=> Dist(c, m) <= Dist(c, l)
  <2>1. S # {}
    OBVIOUS
  <2>q. QED BY <2>1, WindowIs
<1> HIDE DEF l
<1>2. l \in Names /\ l \in Cursors
  <2>1. l \in Names
    BY <1>1
  <2>2. Names \subseteq Cursors
    BY DEF Names, Cursors
  <2>q. QED BY <2>1, <2>2
<1>3. BatchSize <= Cardinality(window)
  BY WindowFull
<1>4. Dist(c, l) < Dist(c, n)
  BY <1>1, <1>2, DistType
<1>5. onward \subseteq all /\ onward \intersect window = {}
  <2>1. ASSUME NEW m \in onward
        PROVE  m \in all /\ m \notin window
    <3>1. m \in S /\ Dist(l, m) <= Dist(l, n)
      BY <2>1, <1>2, AheadIs, AheadWithin
    <3>2. Dist(c, l) < Dist(c, m) /\ Dist(c, m) <= Dist(c, n)
      BY <3>1, <1>2, <1>4, DistOn
    <3>3. m \in all
      BY <3>1, <3>2, AheadIs
    <3>4. m \notin window
      BY <3>1, <3>2, <1>1, <1>2, DistType
    <3>q. QED BY <3>3, <3>4
  <2>q. QED BY <2>1
<1>6. window \subseteq all
  <2>1. ASSUME NEW m \in window
        PROVE  m \in all
    <3>1. m \in S /\ Dist(c, m) <= Dist(c, n)
      BY <1>1, <1>2, <1>4, DistType
    <3>q. QED BY <3>1, AheadIs
  <2>q. QED BY <2>1
<1>7. window \in SUBSET Names /\ onward \in SUBSET Names /\ all \in SUBSET Names
  BY <1>1, AheadWithin
<1> HIDE DEF window, onward, all
<1>8. Cardinality(window \union onward) = Cardinality(window) + Cardinality(onward)
  <2>1. Cardinality(window \intersect onward) = 0
    BY <1>5, FS_EmptySet
  <2>2. Cardinality(window) \in Nat /\ Cardinality(onward) \in Nat /\ IsFiniteSet(window) /\ IsFiniteSet(onward)
    BY <1>7, Counted
  <2>3. Cardinality(window \union onward) = Cardinality(window) + Cardinality(onward) - Cardinality(window \intersect onward)
    BY <2>2, FS_Union
  <2>q. QED BY <2>1, <2>2, <2>3
<1>9. Cardinality(window \union onward) <= Cardinality(all)
  BY <1>5, <1>6, <1>7, Counted, FS_Subset
<1>10. Cardinality(window) \in Nat /\ Cardinality(onward) \in Nat /\ Cardinality(all) \in Nat
  BY <1>7, Counted
<1>11. BatchSize + Cardinality(onward) <= Cardinality(all)
  BY <1>3, <1>8, <1>9, <1>10
<1>q. QED BY <1>11 DEF window, l, onward, all

(* What an entry's wait is worth: as long as the cursor goes from where it *)
(* is, and, for what the pass will not come to, once it is where the pass  *)
(* stops.  What the pass has read or found new has not waited at all.      *)
ScanTyped ==
    /\ files \subseteq Names
    /\ cursor \in Cursors
    /\ scan \subseteq Names
    /\ waited \in [Names -> Nat]
    /\ backlog \in [Names -> Nat]

Size(n, c) == Cardinality(Ahead(files, c, n))

Waiting ==
    /\ \A n \in files : BatchSize * waited[n] + Size(n, cursor) <= backlog[n]
    /\ \A n \in passed : BatchSize * (waited[n] + 1) + Size(n, last) <= backlog[n]
    /\ scanPhase # "idle" => \A n \in files \ (passed \union scan) :
            waited[n] = 0 /\ Cardinality(files) <= backlog[n]

Passing ==
    /\ scanPhase \in {"idle", "read", "remember"}
    /\ passed \subseteq files \ scan
    /\ IF scanPhase = "idle" THEN passed = {} ELSE last \in Names
    /\ scanPhase # "read" => scan = {}

BoundInv == ScanTyped /\ Passing /\ Waiting

LEMMA BoundStart ==
    ASSUME BoundInit
    PROVE  BoundInv
<1> USE DEF BoundInit, ScanInit
<1>1. IsFiniteSet(files) /\ Cardinality(files) \in Nat
  BY Counted
<1>2. ScanTyped
  BY <1>1 DEF ScanTyped, Cursors, Names, NoName
<1>3. Passing
  BY DEF Passing
<1>4. ASSUME NEW n \in files
      PROVE  BatchSize * waited[n] + Size(n, cursor) <= backlog[n]
  <2>1. waited[n] = 0 /\ backlog[n] = Cardinality(files)
    OBVIOUS
  <2>2. Size(n, cursor) <= Cardinality(files) /\ Size(n, cursor) \in Nat
    BY <1>1, AheadWithin, Counted, FS_Subset DEF Size
  <2>q. QED BY <1>1, <2>1, <2>2
<1>q. QED BY <1>2, <1>3, <1>4 DEF BoundInv, Waiting

(* A set of entries of which none is new has none nearer than before.      *)
LEMMA Nearer ==
    ASSUME files \subseteq Names, files' \subseteq files, NEW n, NEW c
    PROVE  /\ Cardinality(files') <= Cardinality(files)
           /\ Cardinality(files') \in Nat /\ Cardinality(files) \in Nat
           /\ Cardinality(Ahead(files', c, n)) \in Nat /\ Size(n, c) \in Nat
           /\ Cardinality(Ahead(files', c, n)) <= Size(n, c)
           /\ Cardinality(Ahead(files', c, n)) <= Cardinality(files')
<1>1. Ahead(files', c, n) \subseteq files' /\ Ahead(files, c, n) \subseteq files
  BY AheadWithin
<1>2. IsFiniteSet(files) /\ IsFiniteSet(files')
  BY Counted
<1>q. QED BY <1>1, <1>2, AheadShrinks, Counted, FS_Subset DEF Size

(* Every step of a pass, of its failures and of other processes.           *)
LEMMA BoundInductive ==
    ASSUME BoundInv, [BoundNext]_boundVars
    PROVE  BoundInv'
<1> USE DEF BoundInv
<1>0. /\ files \in SUBSET Names /\ cursor \in Cursors
      /\ waited \in [Names -> Nat] /\ backlog \in [Names -> Nat] /\ BatchSize \in Nat
  BY DEF ScanTyped
<1>1. CASE BoundCollect
  <2> USE <1>1 DEF BoundCollect, Collect
  <2>1. scan' \subseteq files /\ UNCHANGED <<files, cursor, waited, backlog>> /\ passed' = files \ scan'
    BY InWindow
  <2>2. ScanTyped'
    BY <2>1 DEF ScanTyped
  <2>3. CASE files = {}
    <3>1. scan' = {} /\ passed' = {} /\ scanPhase' = "idle"
      BY <2>1, <2>3 DEF Passing
    <3>2. Passing'
      BY <3>1 DEF Passing
    <3>3. Waiting'
      BY <3>1, <2>1, <2>3 DEF Waiting
    <3>q. QED BY <2>2, <3>2, <3>3
  <2>4. CASE files # {}
    <3>1. last' = Final(scan', cursor) /\ scan' = Window(files, cursor) /\ scanPhase' = "read"
      BY <2>4
    <3>2. last' \in scan'
      BY <1>0, <2>4, <3>1, WindowIs
    <3>3. Passing'
      BY <1>0, <2>1, <3>1, <3>2 DEF Passing
    <3>4. ASSUME NEW n \in passed'
          PROVE  BatchSize * (waited[n] + 1) + Cardinality(Ahead(files, last', n)) <= backlog[n]
      <4>1. BatchSize + Cardinality(Ahead(files, last', n)) <= Size(n, cursor)
        BY <1>0, <2>1, <3>1, PassOver DEF Size
      <4>2. BatchSize * waited[n] + Size(n, cursor) <= backlog[n]
        BY <2>1 DEF Waiting
      <4>3. waited[n] \in Nat /\ backlog[n] \in Nat /\ Size(n, cursor) \in Nat /\ Cardinality(Ahead(files, last', n)) \in Nat
        BY <1>0, <2>1, Counted, AheadWithin DEF Size
      <4>q. QED BY <1>0, <4>1, <4>2, <4>3
    <3>5. Waiting'
      BY <2>1, <3>4 DEF Waiting, Size
    <3>q. QED BY <2>2, <3>3, <3>5
  <2>q. QED BY <2>3, <2>4
<1>2. ASSUME NEW x \in Names, BoundExamine(x)
      PROVE  BoundInv'
  <2>1. /\ files' \subseteq files /\ x \in scan /\ scan' = scan \ {x} /\ UNCHANGED <<cursor, last, passed>>
        /\ scanPhase = "read" /\ scanPhase' = IF scan' = {} THEN "remember" ELSE "read"
    BY <1>2 DEF BoundExamine, Examine
  <2>1a. files \ files' \subseteq {x}
    BY <1>2 DEF BoundExamine, Examine
  <2>2. /\ waited' = [n \in Names |-> IF n \in {x} THEN 0 ELSE waited[n]]
        /\ backlog' = [n \in Names |-> IF n \notin {x} THEN backlog[n]
                                           ELSE IF n \in files' THEN Cardinality(files') ELSE 0]
    BY <1>2 DEF BoundExamine, Restart
  <2>3. Passing'
    BY <2>1, <2>1a DEF Passing
  <2>4. Cardinality(files') <= Cardinality(files) /\ Cardinality(files') \in Nat /\ Cardinality(files) \in Nat
    BY <1>0, <2>1, Nearer
  <2>5. ScanTyped'
    BY <1>0, <2>1, <2>2, <2>4 DEF ScanTyped
  <2>6. ASSUME NEW n \in files'
        PROVE  BatchSize * waited'[n] + Cardinality(Ahead(files', cursor', n)) <= backlog'[n]
    <3>1. CASE n = x
      BY <1>0, <2>1, <2>2, <3>1, Nearer
    <3>2. CASE n # x
      <4>1. waited'[n] = waited[n] /\ backlog'[n] = backlog[n] /\ waited[n] \in Nat /\ backlog[n] \in Nat
        BY <1>0, <2>1, <2>2, <3>2
      <4>2. BatchSize * waited[n] + Size(n, cursor) <= backlog[n]
        BY <2>1 DEF Waiting
      <4>3. Cardinality(Ahead(files', cursor, n)) <= Size(n, cursor) /\ Size(n, cursor) \in Nat
            /\ Cardinality(Ahead(files', cursor, n)) \in Nat
        BY <1>0, <2>1, Nearer
      <4>q. QED BY <1>0, <2>1, <4>1, <4>2, <4>3
    <3>q. QED BY <3>1, <3>2
  <2>7. ASSUME NEW n \in passed'
        PROVE  BatchSize * (waited'[n] + 1) + Cardinality(Ahead(files', last', n)) <= backlog'[n]
    <3>1. n # x /\ n \in files
      BY <2>1 DEF Passing
    <3>2. waited'[n] = waited[n] /\ backlog'[n] = backlog[n] /\ waited[n] \in Nat /\ backlog[n] \in Nat
      BY <1>0, <2>1, <2>2, <3>1
    <3>3. BatchSize * (waited[n] + 1) + Size(n, last) <= backlog[n]
      BY <2>1 DEF Waiting
    <3>4. Cardinality(Ahead(files', last, n)) <= Size(n, last) /\ Size(n, last) \in Nat
            /\ Cardinality(Ahead(files', last, n)) \in Nat
      BY <1>0, <2>1, Nearer
    <3>q. QED BY <1>0, <2>1, <3>2, <3>3, <3>4
  <2>8. ASSUME NEW n \in files' \ (passed' \union scan')
        PROVE  waited'[n] = 0 /\ Cardinality(files') <= backlog'[n]
    <3>1. CASE n = x
      BY <2>1, <2>2, <2>4, <3>1, <1>0
    <3>2. CASE n # x
      <4>1. waited[n] = 0 /\ Cardinality(files) <= backlog[n]
        BY <2>1, <2>8, <3>2 DEF Waiting, Passing
      <4>q. QED BY <1>0, <2>1, <2>2, <2>4, <3>2, <4>1
    <3>q. QED BY <3>1, <3>2
  <2>9. Waiting'
    BY <2>6, <2>7, <2>8 DEF Waiting, Size
  <2>q. QED BY <2>3, <2>5, <2>9
<1>3. CASE BoundRemember
  <2> USE <1>3 DEF BoundRemember, Remember
  <2>1. /\ UNCHANGED <<files, scan, backlog>> /\ passed' = {} /\ scanPhase = "remember" /\ scanPhase' = "idle" /\ scan = {}
        /\ waited' = [n \in Names |-> IF n \in passed \intersect files /\ scanFaults' = scanFaults THEN waited[n] + 1 ELSE waited[n]]
    BY DEF Passing
  <2>2. cursor' = last \/ (cursor' = cursor /\ scanFaults' = scanFaults + 1)
    OBVIOUS
  <2>3. last \in Names /\ last \in Cursors
    BY <2>1 DEF Passing, Names, Cursors
  <2>4. ScanTyped'
    BY <1>0, <2>1, <2>2, <2>3 DEF ScanTyped
  <2>5. Passing'
    BY <2>1 DEF Passing
  <2>6. ASSUME NEW n \in files
        PROVE  BatchSize * waited'[n] + Size(n, cursor') <= backlog[n]
    <3>1. /\ n \in Names /\ waited[n] \in Nat /\ backlog[n] \in Nat
          /\ Size(n, cursor) \in Nat /\ Size(n, last) \in Nat /\ Size(n, last) <= Cardinality(files)
          /\ BatchSize * waited[n] + Size(n, cursor) <= backlog[n]
      BY <1>0, Counted, AheadWithin, FS_Subset DEF Size, Waiting
    <3>2. CASE cursor' = last /\ scanFaults' = scanFaults
      <4>1. CASE n \in passed
        BY <1>0, <2>1, <3>1, <3>2, <4>1 DEF Waiting
      <4>2. CASE n \notin passed
        <5>1. waited[n] = 0 /\ Cardinality(files) <= backlog[n]
          BY <2>1, <4>2 DEF Waiting
        <5>q. QED BY <1>0, <2>1, <3>1, <3>2, <4>2, <5>1, Counted
      <4>q. QED BY <4>1, <4>2
    <3>3. CASE cursor' = cursor /\ scanFaults' = scanFaults + 1
      BY <3>3, <2>1, <3>1, <1>0
    <3>q. QED BY <3>2, <3>3
  <2>7. Waiting'
    BY <2>1, <2>6 DEF Waiting, Size
  <2>q. QED BY <2>4, <2>5, <2>7
<1>4. CASE BoundCrash
  <2>1. /\ UNCHANGED <<files, cursor, waited, backlog>> /\ passed' = {} /\ scan' = {} /\ scanPhase' = "idle"
    BY <1>4 DEF BoundCrash, ScanDies
  <2>2. ScanTyped' /\ Passing'
    BY <2>1 DEF ScanTyped, Passing
  <2>3. Waiting'
    BY <2>1 DEF Waiting, Size
  <2>q. QED BY <2>2, <2>3
<1>5. CASE BoundLoseCursor
  <2>1. /\ UNCHANGED <<files, scanPhase, scan, last, passed>> /\ cursor' = 0 /\ scanPhase = "idle"
        /\ waited' = [n \in Names |-> IF n \in Names THEN 0 ELSE waited[n]]
        /\ backlog' = [n \in Names |-> IF n \notin Names THEN backlog[n]
                                           ELSE IF n \in files' THEN Cardinality(files') ELSE 0]
    BY <1>5 DEF BoundLoseCursor, LoseCursor, Restart, NoName
  <2>2. Cardinality(files) \in Nat
    BY <1>0, Counted
  <2>3. ScanTyped'
    BY <1>0, <2>1, <2>2 DEF ScanTyped, Cursors
  <2>4. Passing'
    BY <2>1 DEF Passing
  <2>5. ASSUME NEW n \in files
        PROVE  BatchSize * waited'[n] + Size(n, cursor') <= backlog'[n]
    <3>1. waited'[n] = 0 /\ backlog'[n] = Cardinality(files) /\ Size(n, cursor') <= Cardinality(files) /\ Size(n, cursor') \in Nat
      BY <1>0, <2>1, Counted, AheadWithin, FS_Subset DEF Size
    <3>q. QED BY <1>0, <2>2, <3>1
  <2>6. Waiting'
    BY <2>1, <2>5 DEF Waiting, Passing, Size
  <2>q. QED BY <2>3, <2>4, <2>6
<1>6. ASSUME NEW x \in Names, BoundInsert(x)
      PROVE  BoundInv'
  <2>1. /\ x \notin files /\ files' = files \union {x} /\ UNCHANGED <<cursor, scanPhase, scan, last, passed>>
        /\ waited' = [waited EXCEPT ![x] = 0]
        /\ backlog' = [m \in Names |-> IF m = x THEN Cardinality(files')
                                           ELSE IF m \in files THEN backlog[m] + 1 ELSE 0]
    BY <1>6 DEF BoundInsert, Insert
  <2>2. IsFiniteSet(files) /\ Cardinality(files) \in Nat /\ IsFiniteSet(files') /\ Cardinality(files') \in Nat
    BY <1>0, <2>1, Counted
  <2>3. Cardinality(files') = Cardinality(files) + 1
    BY <2>1, <2>2, FS_AddElement
  <2>4. ScanTyped'
    BY <1>0, <2>1, <2>2 DEF ScanTyped
  <2>5. Passing'
    BY <2>1 DEF Passing
  <2>6. ASSUME NEW n, NEW c
        PROVE  /\ Cardinality(Ahead(files', c, n)) <= Size(n, c) + 1
               /\ Cardinality(Ahead(files', c, n)) <= Cardinality(files')
               /\ Cardinality(Ahead(files', c, n)) \in Nat /\ Size(n, c) \in Nat
    BY <1>0, <2>1, <2>2, AheadGrows, AheadWithin, Counted, FS_Subset DEF Size
  <2>7. ASSUME NEW n \in files
        PROVE  n # x /\ waited'[n] = waited[n] /\ backlog'[n] = backlog[n] + 1 /\ waited[n] \in Nat /\ backlog[n] \in Nat
    BY <1>0, <2>1
  <2>8. ASSUME NEW n \in files'
        PROVE  BatchSize * waited'[n] + Cardinality(Ahead(files', cursor', n)) <= backlog'[n]
    <3>1. CASE n = x
      <4>1. waited'[n] = 0 /\ backlog'[n] = Cardinality(files')
        BY <1>0, <2>1, <3>1
      <4>2. Cardinality(Ahead(files', cursor, n)) <= Cardinality(files') /\ Cardinality(Ahead(files', cursor, n)) \in Nat
        BY <2>6
      <4>q. QED BY <1>0, <2>1, <2>2, <4>1, <4>2
    <3>2. CASE n # x
      <4>1. n \in files /\ BatchSize * waited[n] + Size(n, cursor) <= backlog[n]
        BY <2>1, <3>2 DEF Waiting
      <4>2. waited'[n] = waited[n] /\ backlog'[n] = backlog[n] + 1 /\ waited[n] \in Nat /\ backlog[n] \in Nat
        BY <2>7, <4>1
      <4>3. /\ Cardinality(Ahead(files', cursor, n)) <= Size(n, cursor) + 1
            /\ Cardinality(Ahead(files', cursor, n)) \in Nat /\ Size(n, cursor) \in Nat
        BY <2>6
      <4>q. QED BY <1>0, <2>1, <4>1, <4>2, <4>3
    <3>q. QED BY <3>1, <3>2
  <2>9. ASSUME NEW n \in passed'
        PROVE  BatchSize * (waited'[n] + 1) + Cardinality(Ahead(files', last', n)) <= backlog'[n]
    <3>1. n \in files /\ BatchSize * (waited[n] + 1) + Size(n, last) <= backlog[n]
      BY <2>1 DEF Waiting, Passing
    <3>2. waited'[n] = waited[n] /\ backlog'[n] = backlog[n] + 1 /\ waited[n] \in Nat /\ backlog[n] \in Nat
      BY <2>7, <3>1
    <3>3. /\ Cardinality(Ahead(files', last, n)) <= Size(n, last) + 1
          /\ Cardinality(Ahead(files', last, n)) \in Nat /\ Size(n, last) \in Nat
      BY <2>6
    <3>q. QED BY <1>0, <2>1, <3>1, <3>2, <3>3
  <2>10. ASSUME scanPhase' # "idle", NEW n \in files' \ (passed' \union scan')
         PROVE  waited'[n] = 0 /\ Cardinality(files') <= backlog'[n]
    <3>1. CASE n = x
      BY <1>0, <2>1, <2>2, <3>1
    <3>2. CASE n # x
      <4>1. n \in files /\ waited[n] = 0 /\ Cardinality(files) <= backlog[n]
        BY <2>1, <2>10, <3>2 DEF Waiting
      <4>q. QED BY <2>2, <2>3, <2>7, <4>1
    <3>q. QED BY <3>1, <3>2
  <2>11. Waiting'
    BY <2>8, <2>9, <2>10 DEF Waiting, Size
  <2>q. QED BY <2>4, <2>5, <2>11
<1>7. ASSUME NEW x \in Names, BoundRemove(x)
      PROVE  BoundInv'
  <2>1. /\ x \in files /\ files' = files \ {x} /\ UNCHANGED <<cursor, scanPhase, scan, last>> /\ passed' = passed \ {x}
        /\ waited' = [n \in Names |-> IF n \in {x} THEN 0 ELSE waited[n]]
        /\ backlog' = [n \in Names |-> IF n \notin {x} THEN backlog[n]
                                           ELSE IF n \in files' THEN Cardinality(files') ELSE 0]
    BY <1>7 DEF BoundRemove, RemoveName, Restart
  <2>2. Cardinality(files') <= Cardinality(files) /\ Cardinality(files') \in Nat /\ Cardinality(files) \in Nat
    BY <1>0, <2>1, Nearer
  <2>3. ScanTyped'
    BY <1>0, <2>1 DEF ScanTyped
  <2>4. Passing'
    BY <2>1 DEF Passing
  <2>5. ASSUME NEW n \in files', NEW c
        PROVE  /\ n \in files /\ waited'[n] = waited[n] /\ backlog'[n] = backlog[n] /\ waited[n] \in Nat /\ backlog[n] \in Nat
               /\ Cardinality(Ahead(files', c, n)) <= Size(n, c)
               /\ Cardinality(Ahead(files', c, n)) \in Nat /\ Size(n, c) \in Nat
    <3>1. n # x /\ n \in files /\ n \in Names
      BY <1>0, <2>1
    <3>2. waited'[n] = waited[n] /\ backlog'[n] = backlog[n]
      BY <2>1, <3>1
    <3>q. QED BY <1>0, <2>1, <3>1, <3>2, Nearer
  <2>6. ASSUME NEW n \in files'
        PROVE  BatchSize * waited'[n] + Cardinality(Ahead(files', cursor', n)) <= backlog'[n]
    <3>1. n \in files /\ BatchSize * waited[n] + Size(n, cursor) <= backlog[n]
      BY <2>1 DEF Waiting
    <3>2. /\ waited'[n] = waited[n] /\ backlog'[n] = backlog[n] /\ waited[n] \in Nat /\ backlog[n] \in Nat
          /\ Cardinality(Ahead(files', cursor, n)) <= Size(n, cursor)
          /\ Cardinality(Ahead(files', cursor, n)) \in Nat /\ Size(n, cursor) \in Nat
      BY <2>5, <3>1
    <3>q. QED BY <1>0, <2>1, <3>1, <3>2
  <2>7. ASSUME NEW n \in passed'
        PROVE  BatchSize * (waited'[n] + 1) + Cardinality(Ahead(files', last', n)) <= backlog'[n]
    <3>1. n \in files' /\ BatchSize * (waited[n] + 1) + Size(n, last) <= backlog[n]
      BY <2>1 DEF Waiting, Passing
    <3>2. /\ waited'[n] = waited[n] /\ backlog'[n] = backlog[n] /\ waited[n] \in Nat /\ backlog[n] \in Nat
          /\ Cardinality(Ahead(files', last, n)) <= Size(n, last)
          /\ Cardinality(Ahead(files', last, n)) \in Nat /\ Size(n, last) \in Nat
      BY <2>5, <3>1
    <3>q. QED BY <1>0, <2>1, <3>1, <3>2
  <2>8. ASSUME scanPhase' # "idle", NEW n \in files' \ (passed' \union scan')
        PROVE  waited'[n] = 0 /\ Cardinality(files') <= backlog'[n]
    <3>1. waited[n] = 0 /\ Cardinality(files) <= backlog[n]
      BY <2>1, <2>8 DEF Waiting
    <3>q. QED BY <2>2, <2>5, <3>1
  <2>9. Waiting'
    BY <2>6, <2>7, <2>8 DEF Waiting, Size
  <2>q. QED BY <2>3, <2>4, <2>9
<1>8. CASE UNCHANGED boundVars
  BY <1>8 DEF boundVars, scanVars, ScanTyped, Passing, Waiting, Size
<1>q. QED BY <1>1, <1>2, <1>3, <1>4, <1>5, <1>6, <1>7, <1>8 DEF BoundNext

(* A pass comes to an entry within as many passes as its backlog fills.    *)
THEOREM ExaminedSoon == BoundSpec => []ExaminedInTime
<1>1. BoundInv => ExaminedInTime
  <2> SUFFICES ASSUME BoundInv, NEW n \in files
               PROVE  BatchSize * waited[n] < backlog[n]
    BY DEF ExaminedInTime
  <2>1. /\ files \in SUBSET Names /\ cursor \in Cursors /\ n \in Names
        /\ waited[n] \in Nat /\ backlog[n] \in Nat /\ BatchSize \in Nat
        /\ BatchSize * waited[n] + Size(n, cursor) <= backlog[n]
    BY DEF BoundInv, ScanTyped, Waiting
  <2>2. n \in Ahead(files, cursor, n)
    BY <2>1, AheadIs, DistType
  <2>3. Size(n, cursor) \in Nat /\ Size(n, cursor) # 0
    BY <2>1, <2>2, AheadWithin, Counted, FS_EmptySet DEF Size
  <2>q. QED BY <2>1, <2>3
<1>q. QED BY <1>1, BoundStart, BoundInductive, PTL DEF BoundSpec
=============================================================================
