------------------------------ MODULE TurnClose ------------------------------
(***************************************************************************)
(* How a turn becomes one summary: src/src/turns/turn-tracker.ts over the  *)
(* per-session store of turn-state.ts.  One session is modelled.  Its      *)
(* hooks append one file per record; every Stop hook is a closer that      *)
(* collects the records of its turn, claims the transcript's usage,        *)
(* collects again, removes what it collected and hands on a summary.       *)
(*                                                                         *)
(* Turns of one session overlap, Stops are fired twice, SessionEnd and the *)
(* expiry sweep remove the directory at any moment.  A step is one file    *)
(* system call or one read of a whole directory.  Locks: LockContract.     *)
(***************************************************************************)
EXTENDS Naturals, FiniteSets, FiniteSetsExt

CONSTANTS
    Sessions,   \* the sessions considered: what hooks append to each, the
                \* usage entries of its transcript, its Stop events
    NoTurn,     \* the provider names no turn
    MaxStops,   \* bound: Stops that are fired
    MaxFaults   \* bound: crashes, I/O errors, locks broken under a holder

Records == UNION {x.records : x \in Sessions}       \* prompts and tool calls of turns
Messages == UNION {x.messages : x \in Sessions}     \* usage entries, by message id
Stops == UNION {x.stops : x \in Sessions}           \* each run by a hook of its own
Kinds == {"prompt", "tool"}
Turns == {s.turn : s \in Stops} \union {r.turn : r \in Records}

(* Every event carries its timestamp; nr tells two Stops of a turn apart.  *)
ASSUME TurnAssumption ==
    /\ \A r \in Records : r.kind \in Kinds /\ r.at \in Nat
    /\ \A m \in Messages : m.at \in Nat
    /\ \A s \in Stops : s.at \in Nat
    /\ IsFiniteSet(Records) /\ IsFiniteSet(Stops)
    /\ MaxStops \in Nat /\ MaxFaults \in Nat

VARIABLES
    session,        \* the session this is
    stored,         \* record files in the session's directory
    claims,         \* the usage-claim files, by the Stop that wrote them
    transcript,     \* the agent's transcript so far
    quiet,          \* nothing in the directory is newer than the TTL
    sweeping,       \* a sweep has stat'ed the directory and will remove it
    closeFile,      \* per turn: the turn-close lock's file exists
    usageFile,      \* the turn-usage lock's file exists
    pc,             \* per Stop: how far its hook is
    window,         \* per Stop: the bounds of the usage it may claim
    claimed,        \* per Stop: the messages it found claimed
    counted,        \* per Stop: the messages its usage sums up
    mine,           \* per Stop: the records of its summary
    todo,           \* per Stop: of these, the files still to remove
    degraded        \* per Stop: its close threw, the fallback is sent

(* History, read by no action.                                             *)
VARIABLES
    ever,           \* records appended so far
    summaries,      \* Stops whose summary was handed on
    gone,           \* records removed by SessionEnd, the sweep, or a crash
    wiped,          \* the directory was removed
    closeBroken,    \* turns whose close lock was broken under a closer
    usageBroken,    \* the usage lock was broken under a closer
    misread,        \* Stops that passed over a file they could not read
    faults          \* faults so far

store == <<stored, claims, quiet>>
locks == <<closeFile, usageFile, closeBroken, usageBroken>>
memory == <<window, claimed, counted, mine, todo, degraded>>
vars == <<session, store, transcript, sweeping, locks, pc, memory, ever, summaries, gone, wiped, misread, faults>>

-----------------------------------------------------------------------------
InUsage == {"claims", "read", "claim", "unlock"}
InClose == InUsage \union {"collect", "usage", "recollect", "remove", "release", "quit"}

Closing(turn) == {s \in Stops : s.turn = turn /\ pc[s] \in InClose}
Claiming == {s \in Stops : pc[s] \in InUsage}

CloseLock(turn) == INSTANCE LockContract WITH
    Procs <- Stops, present <- closeFile[turn], holders <- Closing(turn),
    broken <- turn \in closeBroken
UsageLock == INSTANCE LockContract WITH
    Procs <- Stops, present <- usageFile, holders <- Claiming, broken <- usageBroken

(* The records a Stop owns: of its turn, or of none; all without a turn.   *)
FilterTurn(records, turn) ==
    {r \in records : turn = NoTurn \/ r.turn = NoTurn \/ r.turn = turn}

PromptTimes(records) == {r.at : r \in {x \in records : x.kind = "prompt"}}

(* From the turn's first prompt to the Stop, cut at the next prompt of     *)
(* another turn.                                                           *)
ResolveWindow(all, own, stopAt) ==
    LET start == Min(PromptTimes(own))
        later == {at \in PromptTimes(all \ own) : at > start}
    IN  start..Min(later \union {stopAt})

(* One claim file per turn, or per Stop where the agent names no turn.     *)
SameClaimFile(s, q) == s = q \/ (s.turn # NoTurn /\ s.turn = q.turn)
Claimed == UNION {claims[s] : s \in Stops}

Init ==
    /\ session \in Sessions
    /\ stored = {}
    /\ claims = [s \in Stops |-> {}]
    /\ transcript = {}
    /\ quiet = FALSE
    /\ sweeping = FALSE
    /\ closeFile = [t \in Turns |-> FALSE]
    /\ usageFile = FALSE
    /\ pc = [s \in Stops |-> "waiting"]
    /\ window = [s \in Stops |-> {}]
    /\ claimed = [s \in Stops |-> {}]
    /\ counted = [s \in Stops |-> {}]
    /\ mine = [s \in Stops |-> {}]
    /\ todo = [s \in Stops |-> {}]
    /\ degraded = [s \in Stops |-> FALSE]
    /\ ever = {}
    /\ summaries = {}
    /\ gone = {}
    /\ wiped = FALSE
    /\ closeBroken = {}
    /\ usageBroken = FALSE
    /\ misread = {}
    /\ faults = 0

Goto(s, label) == pc' = [pc EXCEPT ![s] = label]

-----------------------------------------------------------------------------
(* append: a prompt or tool hook writes its record, in its own time.       *)
Append(r) ==
    /\ r \in session.records \ ever
    /\ stored' = stored \union {r}
    /\ ever' = ever \union {r}
    /\ quiet' = FALSE
    /\ UNCHANGED <<claims, session, transcript, sweeping, locks, pc, memory, summaries, gone, wiped, misread, faults>>

(* The agent writes a message to its transcript, perhaps after the Stop.   *)
Flush(m) ==
    /\ m \in session.messages \ transcript
    /\ transcript' = transcript \union {m}
    /\ UNCHANGED <<session, store, sweeping, locks, pc, memory, ever, summaries, gone, wiped, misread, faults>>

-----------------------------------------------------------------------------
(* closeTurn: the turn's lock, or no summary.                              *)
Fires(s) == s \in session.stops /\ pc[s] = "waiting" /\ Cardinality({q \in Stops : pc[q] # "waiting"}) < MaxStops

StopUnlocked(s) ==      \* a mutant
    /\ Fires(s)
    /\ Goto(s, "collect")
    /\ UNCHANGED <<store, session, transcript, sweeping, locks, memory, ever, summaries, gone, wiped, misread, faults>>

Stop(s) ==
    /\ Fires(s)
    /\ \/ /\ Goto(s, "collect")
          /\ closeFile' = [closeFile EXCEPT ![s.turn] = TRUE]
          /\ UNCHANGED closeBroken
          /\ CloseLock(s.turn)!Acquire(s)
       \/ /\ closeFile[s.turn]
          /\ Goto(s, "done")
          /\ UNCHANGED <<closeFile, closeBroken>>
    /\ UNCHANGED <<store, session, transcript, sweeping, usageFile, usageBroken, memory>>
    /\ UNCHANGED <<ever, summaries, gone, wiped, misread, faults>>

(* A Stop reads files of the directory; one it cannot read is passed over. *)
Reads(s, seen, files) ==
    /\ seen \subseteq files
    /\ \/ seen = files /\ UNCHANGED <<misread, faults>>
       \/ /\ seen # files /\ faults < MaxFaults
          /\ faults' = faults + 1
          /\ misread' = misread \union {s}

(* The first collectEntries, and what follows from it.                     *)
Consider(s, seen, own) ==
    \/ own = {} /\ Goto(s, "quit") /\ UNCHANGED window
    \/ own # {} /\ PromptTimes(own) = {} /\ Goto(s, "recollect") /\ UNCHANGED window
    \/ /\ PromptTimes(own) # {}
       /\ Goto(s, "usage")
       /\ window' = [window EXCEPT ![s] = ResolveWindow(seen, own, s.at)]

Collect(s) ==
    /\ pc[s] = "collect"
    /\ \E seen \in SUBSET stored :
        Reads(s, seen, stored) /\ Consider(s, seen, FilterTurn(seen, s.turn))
    /\ UNCHANGED <<store, session, transcript, sweeping, locks, claimed, counted, mine, todo, degraded>>
    /\ UNCHANGED <<ever, summaries, gone, wiped>>

(* waitForUsageLock, or its timeout: then the turn reports no usage.       *)
LockUsage(s) ==
    /\ pc[s] = "usage"
    /\ Goto(s, "claims")
    /\ UNCHANGED <<closeFile, closeBroken, store, session, transcript, sweeping, memory>>
    /\ UsageLock!Acquire(s)
    /\ UNCHANGED <<ever, summaries, gone, wiped, misread, faults>>

UsageTimeout(s) ==
    /\ pc[s] = "usage" /\ usageFile
    /\ Goto(s, "recollect")
    /\ UNCHANGED <<store, session, transcript, sweeping, locks, memory, ever, summaries, gone, wiped, misread, faults>>

(* A directory that cannot be listed, or a claim that cannot be read, is   *)
(* no claim, and the close goes on.                                        *)
ClaimedMessageIds(s) ==
    LET files == {q \in Stops : claims[q] # {}} IN
    /\ pc[s] = "claims"
    /\ \E seen \in SUBSET files :
        /\ Reads(s, seen, files)
        /\ claimed' = [claimed EXCEPT ![s] = UNION {claims[q] : q \in seen}]
    /\ Goto(s, "read")
    /\ UNCHANGED <<store, session, transcript, sweeping, locks, window, counted, mine, todo, degraded>>
    /\ UNCHANGED <<ever, summaries, gone, wiped>>

(* assistantUsageEntry and readOnce: an assistant message of the window    *)
(* that no turn has claimed, once however many lines repeat it.            *)
AssistantUsage(s, m) == m.at \in window[s] /\ m \notin claimed[s]
ReadOnce(s) == {m \in transcript : AssistantUsage(s, m)}

(* The last pass of readUntilSettled decides.                              *)
ReadTranscript(s) ==
    /\ pc[s] = "read"
    /\ counted' = [counted EXCEPT ![s] = ReadOnce(s)]
    /\ Goto(s, IF counted'[s] = {} THEN "unlock" ELSE "claim")
    /\ window' = [window EXCEPT ![s] = {}]
    /\ claimed' = [claimed EXCEPT ![s] = {}]
    /\ UNCHANGED <<store, session, transcript, sweeping, locks, mine, todo, degraded>>
    /\ UNCHANGED <<ever, summaries, gone, wiped, misread, faults>>

ClaimNothing(s) ==      \* a mutant
    /\ pc[s] = "claim"
    /\ Goto(s, "unlock")
    /\ UNCHANGED <<store, session, transcript, sweeping, locks, memory, ever, summaries, gone, wiped, misread, faults>>

ClaimUsage(s) ==
    /\ pc[s] = "claim"
    /\ claims' = [q \in Stops |-> IF q = s THEN counted[s]
                                 ELSE IF SameClaimFile(s, q) THEN {} ELSE claims[q]]
    /\ quiet' = FALSE
    /\ Goto(s, "unlock")
    /\ UNCHANGED <<stored, session, transcript, sweeping, locks, memory, ever, summaries, gone, wiped, misread, faults>>

ReleaseUsage(s) ==
    /\ pc[s] = "unlock"
    /\ Goto(s, IF degraded[s] THEN "release" ELSE "recollect")
    /\ UNCHANGED <<closeFile, closeBroken>>
    /\ UsageLock!Release(s)
    /\ UNCHANGED <<store, session, transcript, sweeping, memory, ever, summaries, gone, wiped, misread, faults>>

(* The second collectEntries: these records make the summary.              *)
RecollectAll(s) ==      \* a mutant: the other turns' records go too
    /\ pc[s] = "recollect"
    /\ mine' = [mine EXCEPT ![s] = FilterTurn(stored, s.turn)]
    /\ todo' = [todo EXCEPT ![s] = stored]
    /\ Goto(s, "remove")
    /\ UNCHANGED <<store, session, transcript, sweeping, locks, window, claimed, counted, degraded>>
    /\ UNCHANGED <<ever, summaries, gone, wiped, misread, faults>>

Recollect(s) ==
    /\ pc[s] = "recollect"
    /\ \E seen \in SUBSET stored :
        Reads(s, seen, stored) /\ mine' = [mine EXCEPT ![s] = FilterTurn(seen, s.turn)]
    /\ todo' = [todo EXCEPT ![s] = mine'[s]]
    /\ Goto(s, "remove")
    /\ UNCHANGED <<store, session, transcript, sweeping, locks, window, claimed, counted, degraded>>
    /\ UNCHANGED <<ever, summaries, gone, wiped>>

RemoveFile(s, r) ==
    /\ pc[s] = "remove" /\ r \in todo[s]
    /\ stored' = stored \ {r}
    /\ todo' = [todo EXCEPT ![s] = @ \ {r}]
    /\ UNCHANGED <<claims, quiet, session, transcript, sweeping, locks, pc>>
    /\ UNCHANGED <<window, claimed, counted, mine, degraded, ever, summaries, gone, wiped, misread, faults>>

Removed(s) ==
    /\ pc[s] = "remove" /\ todo[s] = {}
    /\ Goto(s, "release")
    /\ UNCHANGED <<store, session, transcript, sweeping, locks, memory, ever, summaries, gone, wiped, misread, faults>>

(* The close lock goes before the summary, if there is one, is handed on.  *)
ReleaseClose(s) ==
    /\ pc[s] \in {"release", "quit"}
    /\ Goto(s, IF pc[s] = "release" THEN "deliver" ELSE "done")
    /\ closeFile' = [closeFile EXCEPT ![s.turn] = FALSE]
    /\ UNCHANGED closeBroken
    /\ CloseLock(s.turn)!Release(s)
    /\ UNCHANGED <<store, session, transcript, sweeping, usageFile, usageBroken, memory>>
    /\ UNCHANGED <<ever, summaries, gone, wiped, misread, faults>>

Deliver(s) ==
    /\ pc[s] = "deliver"
    /\ summaries' = summaries \union {s}
    /\ Goto(s, "done")
    /\ UNCHANGED <<store, session, transcript, sweeping, locks, memory, ever, gone, wiped, misread, faults>>

(* What a closer has removed and will not report now.                      *)
Forget(s) ==
    /\ counted' = [counted EXCEPT ![s] = {}]
    /\ gone' = gone \union (mine[s] \ todo[s])
    /\ mine' = [mine EXCEPT ![s] = {}]
    /\ todo' = [todo EXCEPT ![s] = {}]

(* A listing, a claim or a removal throws: both locks are released, and    *)
(* fallbackSummary reports the turn from its Stop alone.                   *)
CloseThrows(s) ==
    /\ pc[s] \in {"collect", "claim", "recollect", "remove"}
    /\ faults < MaxFaults
    /\ faults' = faults + 1
    /\ degraded' = [degraded EXCEPT ![s] = TRUE]
    /\ Forget(s)
    /\ Goto(s, IF pc[s] = "claim" THEN "unlock" ELSE "release")
    /\ UNCHANGED <<store, session, transcript, sweeping, locks, window, claimed, ever, summaries, wiped, misread>>

Crash(s) ==
    /\ pc[s] \in InClose \union {"deliver"}
    /\ faults < MaxFaults
    /\ faults' = faults + 1
    /\ Forget(s)
    /\ window' = [window EXCEPT ![s] = {}]
    /\ claimed' = [claimed EXCEPT ![s] = {}]
    /\ degraded' = [degraded EXCEPT ![s] = FALSE]
    /\ Goto(s, "done")
    /\ UNCHANGED <<store, session, transcript, sweeping, locks, ever, summaries, wiped, misread>>

(* breakIfStale: a dead closer's lock for nothing, a living one's (slower  *)
(* than STALE_LOCK_MS) as a fault.                                         *)
BreakClose(turn) ==
    /\ closeFile' = [closeFile EXCEPT ![turn] = FALSE]
    /\ UNCHANGED <<usageFile, usageBroken, store, session, transcript, sweeping, pc, memory>>
    /\ closeFile[turn]
    /\ \/ Closing(turn) = {} /\ UNCHANGED <<closeBroken, faults>>
       \/ /\ Closing(turn) # {} /\ faults < MaxFaults
          /\ faults' = faults + 1
          /\ closeBroken' = closeBroken \union {turn}
    /\ UNCHANGED <<ever, summaries, gone, wiped, misread>>

BreakUsage ==
    /\ usageFile
    /\ usageFile' = FALSE
    /\ \/ Claiming = {} /\ UNCHANGED <<usageBroken, faults>>
       \/ /\ Claiming # {} /\ faults < MaxFaults
          /\ faults' = faults + 1
          /\ usageBroken' = TRUE
    /\ UNCHANGED <<closeFile, closeBroken, store, session, transcript, sweeping, pc, memory>>
    /\ UNCHANGED <<ever, summaries, gone, wiped, misread>>

-----------------------------------------------------------------------------
(* The session's directory goes with all its files.                        *)
Wipe ==
    /\ stored' = {}
    /\ claims' = [s \in Stops |-> {}]
    /\ quiet' = FALSE
    /\ gone' = gone \union stored
    /\ wiped' = TRUE

(* clear, in the hook of session.ended.                                    *)
SessionEnd ==
    /\ Wipe
    /\ UNCHANGED <<session, transcript, sweeping, locks, pc, memory, ever, summaries, misread, faults>>

TtlPasses ==
    /\ ~quiet
    /\ quiet' = TRUE
    /\ UNCHANGED <<stored, claims, session, transcript, sweeping, locks, pc, memory, ever, summaries, gone, wiped, misread, faults>>

(* removeIfStale, of any session's hook: the stats, then the rm.           *)
SweepStatUnclaimed ==       \* a mutant: a directory with claims is kept
    /\ quiet /\ ~sweeping /\ Claimed = {}
    /\ sweeping' = TRUE
    /\ UNCHANGED <<store, session, transcript, locks, pc, memory, ever, summaries, gone, wiped, misread, faults>>

SweepStat ==
    /\ quiet /\ ~sweeping
    /\ sweeping' = TRUE
    /\ UNCHANGED <<store, session, transcript, locks, pc, memory, ever, summaries, gone, wiped, misread, faults>>

SweepRemove ==
    /\ sweeping
    /\ sweeping' = FALSE
    /\ Wipe
    /\ UNCHANGED <<session, transcript, locks, pc, memory, ever, summaries, misread, faults>>

-----------------------------------------------------------------------------
Close(s) ==
    \/ Stop(s) \/ Collect(s) \/ LockUsage(s) \/ UsageTimeout(s) \/ ClaimedMessageIds(s)
    \/ ReadTranscript(s) \/ ClaimUsage(s) \/ ReleaseUsage(s) \/ Recollect(s)
    \/ Removed(s) \/ ReleaseClose(s) \/ Deliver(s)
    \/ \E r \in Records : RemoveFile(s, r)

Next ==
    \/ \E r \in Records : Append(r)
    \/ \E m \in Messages : Flush(m)
    \/ \E s \in Stops : Close(s) \/ CloseThrows(s) \/ Crash(s)
    \/ \E turn \in Turns : BreakClose(turn)
    \/ BreakUsage \/ SessionEnd \/ TtlPasses \/ SweepStat \/ SweepRemove

Spec == Init /\ [][Next]_vars

(* Time passes, and hooks of any session sweep all of them.                *)
FairSpec ==
    /\ Spec
    /\ WF_vars(TtlPasses) /\ WF_vars(SweepStat) /\ WF_vars(SweepRemove)

Labels == InClose \union {"waiting", "deliver", "done"}

TypeOK ==
    /\ session \in Sessions
    /\ stored \subseteq Records
    /\ claims \in [Stops -> SUBSET Messages]
    /\ transcript \subseteq Messages
    /\ quiet \in BOOLEAN
    /\ sweeping \in BOOLEAN
    /\ closeFile \in [Turns -> BOOLEAN]
    /\ usageFile \in BOOLEAN
    /\ pc \in [Stops -> Labels]
    /\ window \in [Stops -> SUBSET Nat]
    /\ claimed \in [Stops -> SUBSET Messages]
    /\ counted \in [Stops -> SUBSET Messages]
    /\ mine \in [Stops -> SUBSET Records]
    /\ todo \in [Stops -> SUBSET Records]
    /\ degraded \in [Stops -> BOOLEAN]
    /\ ever \subseteq Records
    /\ summaries \subseteq Stops
    /\ gone \subseteq Records
    /\ wiped \in BOOLEAN
    /\ closeBroken \subseteq Turns
    /\ usageBroken \in BOOLEAN
    /\ misread \subseteq Stops
    /\ faults \in Nat

(* The agent names no turns, or it names every turn and opens each with    *)
(* one prompt.                                                             *)
OnePromptATurn ==
    \/ \A s \in session.stops : s.turn = NoTurn
    \/ /\ \A x \in session.stops \union session.records : x.turn # NoTurn
       /\ \A r, p \in session.records : r.kind = "prompt" /\ p.kind = "prompt" /\ r.turn = p.turn => r = p

(* A message's tokens are reported by one turn at most, however turns      *)
(* overlap and Stops race, are repeated or die (resolveAndClaimUsage),     *)
(* unless a lock was broken, the directory removed, a turn opened twice or *)
(* one of the two passed over a file it could not read.                    *)
CountedTwice(stops) == \E s, q \in stops : s # q /\ counted[s] \intersect counted[q] # {}
Intact == OnePromptATurn /\ usageBroken = FALSE /\ wiped = FALSE /\ closeBroken = {}

UsageOnce == Intact => ~CountedTwice(summaries \ misread)

(* Two Stops that close the same turn never report the same record         *)
(* (closeTurn, turn-tracker.ts:284-286), unless their lock was broken.     *)
RecordOnce ==
    \A s, q \in summaries :
        s # q /\ s.turn = q.turn /\ s.turn \notin closeBroken => mine[s] \intersect mine[q] = {}

(* A close consumes exactly what it reports: a record is on disk, in a     *)
(* summary, in a closer's hands, or went with the directory or a failure.  *)
InHand == UNION {mine[s] : s \in {q \in Stops : pc[q] \in {"remove", "release", "deliver"}}}
Reported == UNION {mine[s] : s \in summaries}

NoRecordLost == ever \subseteq stored \union Reported \union InHand \union gone

(* For TurnContract a close takes a record when it removes it, and counts  *)
(* when it writes its claim.                                               *)
Removals == [s \in Stops |-> mine[s] \ todo[s]]
Usage == [s \in Stops |-> IF pc[s] = "claim" THEN {} ELSE counted[s]]

Contract == INSTANCE TurnContract WITH
    recorded <- ever, waiting <- stored, taken <- Removals, used <- Usage,
    reported <- summaries, lost <- gone, excused <- closeBroken, blind <- misread,
    recount <- ~Intact

(* Overlapping, repeated, dying and throwing Stops, SessionEnd and sweeps  *)
(* keep the promise of TurnContract.                                       *)
RefinesTurnContract == Contract!Spec

(* Raw prompt text does not sit on disk indefinitely (turn-state.ts:       *)
(* 294-296), whether or not a Stop or SessionEnd ever comes.               *)
RecordsExpire == (stored # {}) ~> (stored = {})

(* Not so once the directory is removed (README, divergences): claimUsage, *)
(* turn-state.ts:109-110, claims outlive the records "so a later-closing   *)
(* overlapping turn can never re-count them".                              *)
NeverRecounted ==
    OnePromptATurn /\ ~usageBroken /\ closeBroken = {} => ~CountedTwice(summaries \ misread)

(* Nor is it so of a turn that is closed twice (README, divergences): the  *)
(* second claim takes the place of the first one's file.                   *)
ClaimsStand == ~usageBroken /\ ~wiped => ~CountedTwice(summaries \ misread)

(* The comment of resolveWindow, turn-tracker.ts:456-458: the tokens after *)
(* another prompt's start "belong to - and are counted by - the other      *)
(* turn".                                                                  *)
OwnUsageOnly == \A s \in summaries : \A m \in counted[s] : m.turn = s.turn

(* Not so (README, divergences): sweep, turn-state.ts:293, removes         *)
(* "sessions whose newest record is older than maxAgeMs".                  *)
SweepsOnlyQuiet == [][SweepRemove => quiet]_vars
==============================================================================
