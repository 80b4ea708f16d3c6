---------------------------- MODULE QueueContract ----------------------------
(***************************************************************************)
(* What the offline queue promises the hooks that hand it their records,   *)
(* with its files, drains and locks hidden: a record it was given stays    *)
(* until the backend has taken it or there is an excuse for giving it up.  *)
(***************************************************************************)
CONSTANT Events     \* product records, by their deterministic ids

VARIABLES
    kept,           \* records on disk
    ever,           \* records that were on disk once
    taken,          \* records the backend has answered for
    excused         \* records the queue may give up

queueVars == <<kept, ever, taken, excused>>

Init ==
    /\ kept \in SUBSET Events       \* a backlog from earlier releases
    /\ ever = kept
    /\ taken = {}
    /\ excused \in SUBSET ever

(* A record is queued, or queued again under the same name.                *)
Store(e) ==
    /\ e \in Events
    /\ kept' = kept \union {e}
    /\ ever' = ever \union {e}
    /\ UNCHANGED <<taken, excused>>

(* The backend takes records, excuses arise: age, refusals, a full queue,  *)
(* an unreadable file.                                                     *)
Answer(got, given) ==
    /\ got \subseteq Events /\ given \subseteq ever
    /\ taken' = taken \union got
    /\ excused' = excused \union given
    /\ UNCHANGED <<kept, ever>>

Drop(e) ==
    /\ e \in kept
    /\ e \in taken \/ e \in excused
    /\ kept' = kept \ {e}
    /\ UNCHANGED <<ever, taken, excused>>

Next ==
    \/ \E got, given \in SUBSET Events : Answer(got, given)
    \/ \E e \in Events : Store(e) \/ Drop(e)

Spec == Init /\ [][Next]_queueVars

TypeOK ==
    /\ kept \subseteq ever
    /\ ever \subseteq Events
    /\ taken \subseteq Events
    /\ excused \subseteq ever

(* No record is lost without an excuse.                                    *)
NothingLost == ever \subseteq kept \union taken \union excused
=============================================================================
