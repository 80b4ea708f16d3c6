---------------------------- MODULE TurnContract ----------------------------
(***************************************************************************)
(* What closing the turns of a session promises, with the files, the locks *)
(* and the hooks' steps hidden: every record of a prompt or a tool call is *)
(* waiting, taken into the summary of a Stop, or lost for a cause, and the *)
(* usage of a message is put down to one Stop.                             *)
(***************************************************************************)
CONSTANTS
    Records,        \* prompts and tool calls of turns
    Messages,       \* usage entries of the transcript
    Stops,          \* Stop events, each to end as a summary of its turn
    NoTurn          \* a record or a Stop that names no turn

VARIABLES
    recorded,       \* records made so far
    waiting,        \* records for which no Stop has come yet
    taken,          \* per Stop: the records taken for its summary
    used,           \* per Stop: the messages whose usage is its turn's
    reported,       \* Stops whose summary was handed on
    lost,           \* records that went unreported
    excused,        \* turns that two Stops may close at once
    blind,          \* Stops that may not know what others counted
    recount         \* messages may be counted again

turnVars == <<recorded, waiting, taken, used, reported, lost, excused, blind, recount>>

(* A record without a turn is any turn's; a Stop without one takes all.    *)
Owns(s, r) == NoTurn \in {s.turn, r.turn} \/ r.turn = s.turn

Init ==
    /\ recorded = {} /\ waiting = {} /\ lost = {}
    /\ taken = [s \in Stops |-> {}]
    /\ used = [s \in Stops |-> {}]
    /\ reported = {}
    /\ excused = {} /\ blind = {}
    /\ recount \in BOOLEAN      \* the agent may name its turns twice

Record(r) ==
    /\ r \in Records \ recorded
    /\ recorded' = recorded \union {r}
    /\ waiting' = waiting \union {r}
    /\ UNCHANGED <<taken, used, reported, lost, excused, blind, recount>>

(* A Stop takes a record of its turn that no other Stop of it has.         *)
Take(s, r) ==
    /\ s \in Stops \ reported
    /\ r \in recorded \ taken[s] /\ Owns(s, r)
    /\ s.turn \in excused \/ \A q \in Stops : q # s /\ q.turn = s.turn => r \notin taken[q]
    /\ taken' = [taken EXCEPT ![s] = @ \union {r}]
    /\ waiting' = waiting \ {r}
    /\ UNCHANGED <<recorded, used, reported, lost, excused, blind, recount>>

(* A Stop counts, once, messages that no other Stop's turn has counted.    *)
Count(s, new) ==
    /\ s \in Stops \ reported /\ used[s] = {}
    /\ recount \/ s \in blind \/ \A q \in Stops \ blind : used[q] \intersect new = {}
    /\ used' = [used EXCEPT ![s] = new]
    /\ UNCHANGED <<recorded, waiting, taken, reported, lost, excused, blind, recount>>

(* The summary is handed on and changes no more.                           *)
Report(s) ==
    /\ s \in Stops \ reported
    /\ reported' = reported \union {s}
    /\ UNCHANGED <<recorded, waiting, taken, used, lost, excused, blind, recount>>

(* A close that dies or throws loses what it has taken, and only that.     *)
Fail(s) ==
    /\ s \in Stops \ reported
    /\ lost' = lost \union taken[s]
    /\ taken' = [taken EXCEPT ![s] = {}]
    /\ used' = [used EXCEPT ![s] = {}]
    /\ UNCHANGED <<recorded, waiting, reported, excused, blind, recount>>

(* The session ends or expires: with its records goes the memory of what   *)
(* was counted.                                                            *)
Clear ==
    /\ lost' = lost \union waiting
    /\ waiting' = {}
    /\ recount' = TRUE
    /\ UNCHANGED <<recorded, taken, used, reported, excused, blind>>

(* A turn's lock is broken under its holder.                               *)
Excuse(turn) ==
    /\ excused' = excused \union {turn}
    /\ recount' = TRUE
    /\ UNCHANGED <<recorded, waiting, taken, used, reported, lost, blind>>

(* So is the lock under which Stops count.                                 *)
Recount ==
    /\ recount' = TRUE
    /\ UNCHANGED <<recorded, waiting, taken, used, reported, lost, excused, blind>>

(* A Stop passes over what it cannot read, and counts without it.          *)
Blind(s) ==
    /\ s \in Stops \ reported
    /\ blind' = blind \union {s}
    /\ UNCHANGED <<recorded, waiting, taken, used, reported, lost, excused, recount>>

Next ==
    \/ \E s \in Stops : Fail(s) \/ Report(s)
    \/ \E r \in Records : Record(r)
    \/ Clear \/ Recount
    \/ \E s \in Stops, r \in Records : Take(s, r)
    \/ \E s \in Stops, new \in SUBSET Messages : Count(s, new)
    \/ \E s \in Stops : Excuse(s.turn) \/ Blind(s)

Spec == Init /\ [][Next]_turnVars

TypeOK ==
    /\ recorded \subseteq Records
    /\ waiting \subseteq recorded
    /\ taken \in [Stops -> SUBSET recorded]
    /\ used \in [Stops -> SUBSET Messages]
    /\ reported \subseteq Stops

(* Where a record can be, and that no two Stops of a turn have it.         *)
NothingLost == recorded \subseteq waiting \union lost \union UNION {taken[s] : s \in Stops}

TakenOnce ==
    \A s, q \in Stops : s # q /\ s.turn = q.turn /\ s.turn \notin excused => taken[s] \intersect taken[q] = {}

(* No message's usage is two Stops', unless one of them was blind.         *)
UsedOnce == recount \/ \A s, q \in Stops \ blind : s # q => used[s] \intersect used[q] = {}
=============================================================================
