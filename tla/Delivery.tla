------------------------------ MODULE Delivery ------------------------------
(***************************************************************************)
(* The end of a hook: src/src/transport/delivery.ts.  A hook holds the     *)
(* records of its run; deliverEvents sends or queues them, reports what    *)
(* the backend said to the files later hooks consult (the cooldown and     *)
(* the credential block), and leaves the queue swept or drained.           *)
(*                                                                         *)
(* A step is one file system call or one request.  The queue is used       *)
(* through QueueContract, which EventQueue implements.  All hooks carry    *)
(* one credential; the events URL may differ between them.                 *)
(***************************************************************************)
EXTENDS Integers

CONSTANTS
    Procs,          \* hook processes, status runs and doctor runs
    Events,         \* product records, by their ids
    Dests, NoDest,  \* events URLs; no backend configured
    NoBlock,        \* no auth-block.json
    MaxClock,       \* bound: the clock stops here
    MaxRuns,        \* bound: hooks with records, status runs, doctor runs
    MaxFaults       \* bound: crashes, failed reads and writes, credential changes

(* auth-block.json; since is when the refusals started.                    *)
Block == [dest : Dests, since : Nat]

ASSUME DeliveryAssumption ==
    /\ NoDest \notin Dests
    /\ NoBlock \notin Block
    /\ MaxClock \in Nat
    /\ MaxRuns \in Nat
    /\ MaxFaults \in Nat

VARIABLES
    kept, ever, taken, excused,     \* the queue, see QueueContract
    aged,       \* records past the queue's age bound
    clock,      \* wall clock
    cooling,    \* the cooldown's deadline is ahead
    block,      \* the credential block
    due,        \* the sweep marker is older than its interval
    valid,      \* where the backend accepts the credential
    pc,         \* per process: the stage it is at
    records,    \* per process: the product records of its run
    dest,       \* per process: its transport's events URL
    canSend,    \* per process: selectDelivery let it send
    result,     \* per process: the answer to its direct send
    todo,       \* per process: records its loop has left
    since       \* per process: what it is about to write as the block's since

(* History, read by no action.                                             *)
VARIABLES
    produced,   \* records of any run so far
    abandoned,  \* records a crash or a failed queue write took
    failing,    \* processes whose request found a dead backend
    recent,     \* such a run ended, less than a cooldown and no success ago
    muted,      \* per process: what has shut its way since before its run
    asked,      \* processes whose run has made a request
    unread,     \* per process: what its run found no readable file of
    proved,     \* where a request was accepted since the block was written
    runs,       \* runs so far
    faults      \* faults so far

queue == <<kept, ever, taken, excused>>
time == <<clock, due, aged>>
local == <<pc, records, dest, canSend, result, todo, since>>
history == <<produced, abandoned, failing, recent, muted, asked, unread, proved, runs, faults>>
vars == <<queue, time, cooling, block, valid, local, history>>

Queue == INSTANCE QueueContract

-----------------------------------------------------------------------------
(* BackendAuthBlock.active: the block stands for this destination.         *)
Standing(d) == block # NoBlock /\ block.dest = d

Reasons == {"block", "cooling", "recent"}
Shut(reason, d) ==
    \/ reason = "block" /\ Standing(d)
    \/ reason = "cooling" /\ cooling
    \/ reason = "recent" /\ recent

(* A run stays muted by what has been shut ever since it began.            *)
StillMuted == muted' = [p \in Procs |-> {r \in muted[p] : Shut(r, dest[p])'}]

Init ==
    /\ Queue!Init
    /\ kept = {} /\ excused = {}
    /\ aged = {}
    /\ clock = 0
    /\ cooling = FALSE
    /\ block = NoBlock
    /\ due = TRUE
    /\ valid \in SUBSET Dests
    /\ pc = [p \in Procs |-> "idle"]
    /\ records = [p \in Procs |-> {}]
    /\ dest = [p \in Procs |-> NoDest]
    /\ canSend = [p \in Procs |-> FALSE]
    /\ result = [p \in Procs |-> "none"]
    /\ todo = [p \in Procs |-> {}]
    /\ since = [p \in Procs |-> 0]
    /\ produced = {}
    /\ abandoned = {}
    /\ failing = {}
    /\ recent = FALSE
    /\ muted = [p \in Procs |-> {}]
    /\ asked = {}
    /\ unread = [p \in Procs |-> {}]
    /\ proved = {}
    /\ runs = 0
    /\ faults = 0

Goto(p, label) == pc' = [pc EXCEPT ![p] = label]

(* A process ends, or its flow throws: its memory is gone.                 *)
End(p) ==
    /\ Goto(p, "idle")
    /\ records' = [records EXCEPT ![p] = {}]
    /\ dest' = [dest EXCEPT ![p] = NoDest]
    /\ canSend' = [canSend EXCEPT ![p] = FALSE]
    /\ result' = [result EXCEPT ![p] = "none"]
    /\ todo' = [todo EXCEPT ![p] = {}]
    /\ since' = [since EXCEPT ![p] = 0]
    /\ muted' = [muted EXCEPT ![p] = {}]
    /\ asked' = asked \ {p}
    /\ unread' = [unread EXCEPT ![p] = {}]
    /\ failing' = failing \ {p}

-----------------------------------------------------------------------------
(* A hook reaches its deliver stage.  Most hooks have no record to send.   *)
Begin(p, new, d) ==
    /\ pc[p] = "idle"
    /\ IF new = {} THEN UNCHANGED runs ELSE runs < MaxRuns /\ runs' = runs + 1
    /\ Goto(p, "select")
    /\ records' = [records EXCEPT ![p] = new]
    /\ produced' = produced \union new
    /\ dest' = [dest EXCEPT ![p] = d]
    /\ muted' = [muted EXCEPT ![p] = {r \in Reasons : d # NoDest /\ Shut(r, d)}]
    /\ UNCHANGED <<queue, time, cooling, block, valid, canSend, result, todo, since>>
    /\ UNCHANGED <<abandoned, failing, recent, asked, unread, proved, faults>>

(* Where a hook goes when it may not send, and when it may.                *)
Hold(p) ==
    /\ Goto(p, IF records[p] = {} THEN "maintain" ELSE "preserve")
    /\ todo' = [todo EXCEPT ![p] = records[p]]

Advance(p) ==
    /\ Goto(p, IF records[p] = {} THEN "maintain" ELSE "send")
    /\ canSend' = [canSend EXCEPT ![p] = TRUE]

CallFails == faults < MaxFaults /\ faults' = faults + 1

(* A file that is there cannot be read: the hook goes on as if there were  *)
(* none (fail open).                                                       *)
ReadFails(p, reason) ==
    /\ CallFails
    /\ unread' = [unread EXCEPT ![p] = @ \union {reason}]
    /\ UNCHANGED <<produced, abandoned, failing, recent, muted, asked, proved, runs>>

(* selectDelivery reads the block, then the cooldown.                      *)
SelectBlock(p) ==
    /\ pc[p] = "select"
    /\ \/ (dest[p] = NoDest \/ Standing(dest[p])) /\ Hold(p) /\ UNCHANGED history
       \/ /\ dest[p] # NoDest
          /\ IF Standing(dest[p]) THEN ReadFails(p, "block") ELSE UNCHANGED history
          /\ Goto(p, "cooldown") /\ UNCHANGED todo
    /\ UNCHANGED <<queue, time, cooling, block, valid, records, dest, canSend, result, since>>

SelectCooldown(p) ==
    /\ pc[p] = "cooldown"
    /\ \/ cooling /\ Hold(p) /\ UNCHANGED <<canSend, history>>
       \/ /\ IF cooling THEN ReadFails(p, "cooling") ELSE UNCHANGED history
          /\ Advance(p) /\ UNCHANGED todo
    /\ UNCHANGED <<queue, time, cooling, block, valid, records, dest, result, since>>

(* What send may answer: what a backend that knows the credential, or does *)
(* not, says, and ok without a request when the capture policy of this run *)
(* withdraws every record.                                                 *)
Answers(d) ==
    {"withdrawn", "retry", "deferred"} \union
    IF d \in valid THEN {"ok", "refused"} ELSE {"auth"}

Accepting(answer) == answer \in {"ok", "withdrawn"}

Asks(p, answer) ==
    /\ asked' = IF answer = "withdrawn" THEN asked ELSE asked \union {p}
    /\ failing' = CASE answer = "retry" -> failing \union {p}
                     [] answer = "ok" -> {}
                     [] OTHER -> failing
    /\ recent' = (recent /\ answer # "ok")
    /\ proved' = IF answer = "ok" THEN proved \union {dest[p]} ELSE proved
    /\ UNCHANGED <<cooling, block, dest>>
    /\ StillMuted

(* What the hook keeps of the answer, and where it goes on.                *)
Outcome(answer) == IF Accepting(answer) THEN "ok" ELSE answer

AfterSendDeferred(answer) ==        \* a mutant: deferred is taken for sent
    IF Accepting(answer) \/ answer = "deferred" THEN "report" ELSE "preserve"
AfterSend(answer) == IF Accepting(answer) THEN "report" ELSE "preserve"

(* sendCurrent.  A failed request may have arrived all the same.           *)
SendDirect(p, answer) ==
    /\ pc[p] = "send"
    /\ answer \in Answers(dest[p])
    /\ \E got \in SUBSET records[p] :
        /\ Accepting(answer) => got = records[p]
        /\ answer \in {"auth", "refused"} => got = {}
        /\ Queue!Answer(got, {})
    /\ Asks(p, answer)
    /\ result' = [result EXCEPT ![p] = Outcome(answer)]
    /\ Goto(p, AfterSend(answer))
    /\ todo' = [todo EXCEPT ![p] = IF Accepting(answer) THEN {} ELSE records[p]]
    /\ UNCHANGED <<time, valid, records, canSend, since>>
    /\ UNCHANGED <<produced, abandoned, unread, runs, faults>>

(* preserveUnsent: enqueue, one file at a time, then the queue's bound.    *)
Preserve(p, e) ==
    /\ pc[p] = "preserve" /\ e \in todo[p]
    /\ Queue!Store(e)
    /\ todo' = [todo EXCEPT ![p] = @ \ {e}]
    /\ UNCHANGED <<time, cooling, block, valid, pc, records, dest, canSend, result, since, history>>

(* A queue write fails: enqueue throws, and so does deliverEvents.         *)
PreserveFails(p) ==
    /\ pc[p] = "preserve" /\ todo[p] # {}
    /\ faults < MaxFaults
    /\ faults' = faults + 1
    /\ abandoned' = abandoned \union todo[p]
    /\ End(p)
    /\ UNCHANGED <<queue, time, cooling, block, valid, produced, recent, proved, runs>>

Reporting(p) == IF result[p] \in {"none", "deferred"} THEN "maintain" ELSE "report"

PreserveDone(p) ==
    /\ pc[p] = "preserve" /\ todo[p] = {}
    /\ \/ Goto(p, Reporting(p)) /\ UNCHANGED <<queue, todo>>
       \/ \E e \in kept :
            /\ Queue!Answer({}, {e})
            /\ Goto(p, "evict")
            /\ todo' = [todo EXCEPT ![p] = {e}]
    /\ UNCHANGED <<time, cooling, block, valid, records, dest, canSend, result, since, history>>

(* One file of a loop that removes some.                                   *)
Removing == {"evict", "sweep", "drain", "clear"}

Remove(p, e) ==
    /\ pc[p] \in Removing /\ e \in todo[p]
    /\ IF e \in kept THEN Queue!Drop(e) ELSE UNCHANGED queue
    /\ todo' = [todo EXCEPT ![p] = @ \ {e}]
    /\ UNCHANGED <<time, cooling, block, valid, pc, records, dest, canSend, result, since, history>>

EvictDone(p) ==
    /\ pc[p] = "evict" /\ todo[p] = {}
    /\ Goto(p, Reporting(p))
    /\ UNCHANGED <<queue, time, cooling, block, valid>>
    /\ UNCHANGED <<records, dest, canSend, result, todo, since, history>>

-----------------------------------------------------------------------------
(* reportBackend.  Its writes are best effort: each may fail unnoticed.    *)
Report(p) ==
    /\ pc[p] = "report"
    /\ UNCHANGED <<block, recent, dest>>
    /\ \/ CallFails /\ UNCHANGED cooling
       \/ /\ cooling' = CASE result[p] = "ok" -> FALSE
                          [] result[p] = "retry" -> TRUE
                          [] OTHER -> cooling
          /\ UNCHANGED faults
    /\ StillMuted
    /\ Goto(p, CASE result[p] = "ok" -> "lift"
                 [] result[p] = "auth" -> "raise"
                 [] OTHER -> "maintain")
    /\ UNCHANGED <<queue, time, valid, records, canSend, result, todo, since>>
    /\ UNCHANGED <<produced, abandoned, failing, asked, unread, proved, runs>>

(* BackendAuthBlock.clear removes the file, whatever it says.              *)
ClearBlock ==
    /\ UNCHANGED <<cooling, recent, dest>>
    /\ \/ CallFails /\ UNCHANGED block
       \/ block' = NoBlock /\ UNCHANGED faults
    /\ StillMuted

Lift(p) ==
    /\ pc[p] = "lift"
    /\ ClearBlock
    /\ Goto(p, "maintain")
    /\ UNCHANGED <<queue, time, valid, records, canSend, result, todo, since>>
    /\ UNCHANGED <<produced, abandoned, failing, asked, unread, proved, runs>>

(* BackendAuthBlock.raise reads, and writes what it read or the time.      *)
RaiseRead(p) ==
    /\ pc[p] = "raise"
    /\ \/ /\ since' = [since EXCEPT ![p] = IF Standing(dest[p]) THEN block.since ELSE clock]
          /\ UNCHANGED history
       \/ /\ Standing(dest[p]) /\ ReadFails(p, "since")
          /\ since' = [since EXCEPT ![p] = clock]
    /\ Goto(p, "raise-write")
    /\ UNCHANGED <<queue, time, cooling, block, valid, records, dest, canSend, result, todo>>

(* Refused in a direct send, a hook goes on to sweep; in a drain, to clear *)
(* what was taken or exhausted before the refusal.                         *)
RaiseWrite(p) ==
    /\ pc[p] = "raise-write"
    /\ UNCHANGED <<cooling, recent, dest>>
    /\ \/ CallFails /\ UNCHANGED <<block, proved>>
       \/ /\ block' = [dest |-> dest[p], since |-> since[p]]
          /\ proved' = {}
          /\ UNCHANGED faults
    /\ StillMuted
    /\ Goto(p, IF result[p] = "auth" THEN "maintain" ELSE "clear")
    /\ UNCHANGED <<queue, time, valid, records, canSend, result, todo, since>>
    /\ UNCHANGED <<produced, abandoned, failing, asked, unread, runs>>

-----------------------------------------------------------------------------
(* maintainQueue: a drain for a hook that may send, a sweep for others.    *)
MayDrainAlways(p) == result[p] \in {"none", "ok"}              \* mutants
MayDrainAfterSend(p) == canSend[p] /\ result[p] = "ok"

MayDrain(p) == canSend[p] /\ result[p] \in {"none", "ok"}

Busy(p) == \E q \in Procs \ {p} : MayDrain(q) /\ pc[q] \in {"drain", "raise", "raise-write", "clear"}

(* The walk of the sweep, when it is due, takes every aged file.           *)
WalkNothing(p) ==       \* a mutant
    /\ todo' = [todo EXCEPT ![p] = {}]
    /\ due' = FALSE

Walk(p) ==
    /\ todo' = [todo EXCEPT ![p] = IF due THEN kept \intersect aged ELSE {}]
    /\ due' = FALSE

MaintainSweep(p) ==
    /\ pc[p] = "maintain" /\ ~MayDrain(p)
    /\ Walk(p)
    /\ Goto(p, "sweep")
    /\ UNCHANGED <<queue, clock, aged, cooling, block, valid, records, dest, canSend, result, since>>
    /\ UNCHANGED history

MaintainDrain(p) ==
    /\ pc[p] = "maintain" /\ MayDrain(p) /\ ~Busy(p)
    /\ Walk(p)
    /\ Goto(p, "drain")
    /\ UNCHANGED <<queue, clock, aged, cooling, block, valid, records, dest, canSend, result, since>>
    /\ UNCHANGED history

(* The drain's request: a batch is taken, charged, or left as it was.  The *)
(* probes of isolateBatch are part of it, so some of a batch may be taken, *)
(* and some exhausted, whatever the last answer is.                        *)
DrainSend(p, batch, answer) ==
    /\ pc[p] = "drain" /\ todo[p] = {} /\ batch # {}
    /\ answer \in Answers(dest[p])
    /\ \E got, lost \in SUBSET batch :
        /\ Accepting(answer) => got = batch /\ lost = {}
        /\ Queue!Answer(got, lost)
        /\ todo' = [todo EXCEPT ![p] = IF answer = "retry" THEN lost ELSE got \union lost]
    /\ Asks(p, answer)
    /\ Goto(p, IF answer = "auth" THEN "raise" ELSE "clear")
    /\ UNCHANGED <<time, valid, records, canSend, result, since>>
    /\ UNCHANGED <<produced, abandoned, unread, runs, faults>>

(* Nothing in the scan was due.                                            *)
DrainIdle(p) ==
    /\ pc[p] = "drain" /\ todo[p] = {}
    /\ Goto(p, "clear")
    /\ UNCHANGED <<queue, time, cooling, block, valid>>
    /\ UNCHANGED <<records, dest, canSend, result, todo, since, history>>

Finish(p) ==
    /\ \/ pc[p] \in {"sweep", "clear"} /\ todo[p] = {}
       \/ pc[p] = "maintain" /\ MayDrain(p) /\ Busy(p)     \* skipped
    /\ End(p)
    /\ UNCHANGED <<queue, time, cooling, block, valid>>
    /\ recent' = (recent \/ p \in failing)
    /\ UNCHANGED <<produced, abandoned, proved, runs, faults>>

-----------------------------------------------------------------------------
(* agentwatch status drains whatever the block and the cooldown say;       *)
(* agentwatch doctor probes, and an accepted probe clears the block.       *)
Status(p, d) ==
    /\ pc[p] = "idle"
    /\ runs < MaxRuns
    /\ runs' = runs + 1
    /\ dest' = [dest EXCEPT ![p] = d]
    /\ canSend' = [canSend EXCEPT ![p] = TRUE]
    /\ Goto(p, "maintain")
    /\ UNCHANGED <<queue, time, cooling, block, valid, records, result, todo, since>>
    /\ UNCHANGED <<produced, abandoned, failing, recent, muted, asked, unread, proved, faults>>

DoctorAccepted(p, d) ==
    /\ pc[p] = "idle"
    /\ runs < MaxRuns
    /\ runs' = runs + 1
    /\ d \in valid
    /\ proved' = proved \union {d}
    /\ Goto(p, "doctor")
    /\ UNCHANGED <<queue, time, cooling, block, valid, records, dest, canSend, result, todo, since>>
    /\ UNCHANGED <<produced, abandoned, failing, recent, muted, asked, unread, faults>>

DoctorClears(p) ==
    /\ pc[p] = "doctor"
    /\ ClearBlock
    /\ Goto(p, "idle")
    /\ UNCHANGED <<queue, time, valid, records, canSend, result, todo, since>>
    /\ UNCHANGED <<produced, abandoned, failing, asked, unread, proved, runs>>

(* What of its run's records only the memory of a process holds.           *)
Held(p) ==
    IF pc[p] \in {"select", "cooldown", "send"} THEN records[p]
    ELSE IF pc[p] = "preserve" THEN todo[p] ELSE {}

Crash(p) ==
    /\ pc[p] # "idle"
    /\ faults < MaxFaults
    /\ faults' = faults + 1
    /\ abandoned' = abandoned \union Held(p)
    /\ End(p)
    /\ UNCHANGED <<queue, time, cooling, block, valid, produced, recent, proved, runs>>

(* The credential is revoked, or accepted, somewhere.                      *)
ChangeCredential(d) ==
    /\ faults < MaxFaults
    /\ faults' = faults + 1
    /\ valid' = IF d \in valid THEN valid \ {d} ELSE valid \union {d}
    /\ UNCHANGED <<queue, time, cooling, block, local>>
    /\ UNCHANGED <<produced, abandoned, failing, recent, muted, asked, unread, proved, runs>>

Tick ==
    /\ clock < MaxClock
    /\ clock' = clock + 1
    /\ UNCHANGED <<queue, due, aged, cooling, block, valid, local, history>>

(* A cooldown's length passes without another failure.                     *)
CooldownEnds ==
    /\ cooling \/ recent \/ failing # {}
    /\ cooling' = FALSE
    /\ failing' = {}
    /\ recent' = FALSE
    /\ UNCHANGED <<block, local>>
    /\ StillMuted
    /\ UNCHANGED <<queue, time, valid>>
    /\ UNCHANGED <<produced, abandoned, asked, unread, proved, runs, faults>>

SweepDue ==
    /\ ~due
    /\ due' = TRUE
    /\ UNCHANGED <<queue, clock, aged, cooling, block, valid, local, history>>

Age(e) ==
    /\ e \in kept \ aged
    /\ aged' = aged \union {e}
    /\ Queue!Answer({}, {e})
    /\ UNCHANGED <<clock, due, cooling, block, valid, local, history>>

Continue(p) ==
    \/ SelectBlock(p) \/ SelectCooldown(p)
    \/ \E answer \in Answers(dest[p]) : SendDirect(p, answer)
    \/ \E e \in Events : Preserve(p, e) \/ Remove(p, e)
    \/ PreserveDone(p) \/ EvictDone(p)
    \/ Report(p) \/ Lift(p) \/ RaiseRead(p) \/ RaiseWrite(p)
    \/ MaintainSweep(p) \/ MaintainDrain(p) \/ DrainIdle(p) \/ Finish(p) \/ DoctorClears(p)
    \/ \E batch \in SUBSET kept, answer \in Answers(dest[p]) : DrainSend(p, batch, answer)

Next ==
    \/ Tick \/ CooldownEnds \/ SweepDue
    \/ \E e \in Events : Age(e)
    \/ \E d \in Dests : ChangeCredential(d)
    \/ \E p \in Procs :
        \/ \E new \in SUBSET (Events \ produced), d \in Dests \union {NoDest} : Begin(p, new, d)
        \/ \E d \in Dests : Status(p, d) \/ DoctorAccepted(p, d)
        \/ Continue(p) \/ PreserveFails(p) \/ Crash(p)

Spec == Init /\ [][Next]_vars

(* Hooks run to their end and keep coming, most of them without a record;  *)
(* the cooldown and the sweep's interval pass; the backend, asked again    *)
(* and again about a record by drains, one day takes it.                   *)
Taken(e) ==
    \E p \in Procs, batch \in SUBSET kept : e \in batch /\ DrainSend(p, batch, "ok")

FairSpec ==
    /\ Spec
    /\ WF_vars(CooldownEnds) /\ WF_vars(SweepDue)
    /\ \A p \in Procs : WF_vars(Continue(p))
    /\ \A d \in Dests : SF_vars(\E p \in Procs : Begin(p, {}, d))
    /\ \A e \in Events : SF_vars(Taken(e))

-----------------------------------------------------------------------------
Labels == Removing \union
    {"idle", "select", "cooldown", "send", "preserve", "report", "lift", "raise",
     "raise-write", "maintain", "doctor"}

TypeOK ==
    /\ Queue!TypeOK
    /\ aged \subseteq Events
    /\ clock \in Nat
    /\ cooling \in BOOLEAN
    /\ block \in Block \union {NoBlock}
    /\ due \in BOOLEAN
    /\ valid \subseteq Dests
    /\ pc \in [Procs -> Labels]
    /\ records \in [Procs -> SUBSET Events]
    /\ dest \in [Procs -> Dests \union {NoDest}]
    /\ canSend \in [Procs -> BOOLEAN]
    /\ result \in [Procs -> {"none", "ok", "retry", "deferred", "auth", "refused"}]
    /\ todo \in [Procs -> SUBSET Events]
    /\ since \in [Procs -> Nat]
    /\ produced \subseteq Events
    /\ abandoned \subseteq Events
    /\ failing \subseteq Procs
    /\ recent \in BOOLEAN
    /\ muted \in [Procs -> SUBSET Reasons]
    /\ asked \subseteq Procs
    /\ unread \in [Procs -> SUBSET (Reasons \union {"since"})]
    /\ proved \subseteq Dests
    /\ runs \in Nat
    /\ faults \in Nat

(* deliverEvents never loses a product record (delivery.ts:28-30): whatever *)
(* the backend answers, and in whatever order hooks, crashes and drains    *)
(* come, a record is taken, or queued, or given up by the queue with an    *)
(* excuse, or still in its hook's hands, or went with a hook that died or  *)
(* threw before its queue write.                                           *)
NoRecordLost ==
    produced \subseteq taken \union kept \union excused \union abandoned
                       \union UNION {Held(p) : p \in Procs}

(* While a block stands for its URL, or a cooldown is in force, since      *)
(* before it began, a hook makes no request at all, neither for its own    *)
(* records nor for the backlog, unless it could not read the very file     *)
(* that says so: a readable block still stops a hook that cannot read the  *)
(* cooldown, and the other way round.                                      *)
SilentWhileShut ==
    \A p \in asked : muted[p] \intersect {"block", "cooling"} \subseteq unread[p]

(* The retention bound holds on every path, a block that nobody lifts and  *)
(* a cooldown included: an aged record leaves the queue.                   *)
RetentionHolds == \A e \in Events : (e \in kept /\ e \in aged) ~> e \notin kept

(* Once the credential is good and no block stands in the way any more,    *)
(* the backlog moves.                                                      *)
Reopened == block = NoBlock /\ valid = Dests

BacklogMoves ==
    <>[]Reopened => \A e \in Events : (e \in kept) ~> (e \notin kept)

(* The last three do not hold (README, divergences).                       *)
(* raise, auth-block.ts:50-53: "A block already standing for the same      *)
(* destination keeps its original since".                                  *)
SinceIsKept ==
    [][block # NoBlock /\ block' # NoBlock /\ block'.dest = block.dest
         => block'.since = block.since]_vars

(* The comment of clear, auth-block.ts:74: "Lift the block - the backend   *)
(* accepted the credential".                                               *)
LiftedByProof ==
    [][block # NoBlock /\ block' = NoBlock => block.dest \in proved]_vars

(* The comment of deliverEvents, delivery.ts:31-32: "a backend that just   *)
(* failed is skipped entirely for the cooldown window".                    *)
FailedIsSkipped == \A p \in asked : "recent" \notin muted[p]
=====================
